---------------------------- MODULE RipBootProofs ----------------------------
(***************************************************************************)
(* The search of the forwarding table finds the longest match for every    *)
(* table size and address width.  The invariant is the loop's: among the   *)
(* slots already passed, best_route is the longest match.  The daemon that *)
(* comes up uses the table no other way, starts from the whole of a file   *)
(* that is well formed and runs only over an open stack.                   *)
(***************************************************************************)
EXTENDS RipBoot, FiniteSetTheorems, TLAPS

\* What the loop of ipv4_route_table_lookup knows having passed slots 0 .. i-1.
Passed == {s \in Slots : s < i /\ table[s] # NULL}

NoneYet == best_route = NULL =>
    best_prefix = -1 /\ \A s \in Passed : RouteLookup(table[s], addr) = -1

BestYet == best_route # NULL =>
    /\ best_prefix \in Nat
    /\ best_prefix = RouteLookup(best_route, addr)
    /\ \A s \in Passed : RouteLookup(table[s], addr) <= best_prefix
    /\ \E s \in Passed : table[s] = best_route
           /\ \A u \in Passed : u < s => RouteLookup(table[u], addr) < best_prefix

LoopInv ==
    /\ pc = "search" \/ Searched => NoneYet /\ BestYet
    /\ pc = "read" => i = 0

IInv == TypeOK /\ LoopInv

---------------------------------------------------------------------------
\* A prefix has between no bit and all of them.
LEMMA PrefixLengthType ==
    ASSUME NEW m \in Address PROVE PrefixLength(m) \in 0 .. BITS
<1> DEFINE Ones == {b \in Bits : m[b] = 1}
<1>1. IsFiniteSet(Bits) /\ Cardinality(Bits) = BITS
    BY BitsAssumption, FS_Interval DEF Bits
<1>2. IsFiniteSet(Ones) /\ Cardinality(Ones) <= Cardinality(Bits)
    BY <1>1, FS_Subset
<1>3. Cardinality(Ones) \in Nat
    BY <1>2, FS_CardinalityType
<1> QED BY <1>1, <1>2, <1>3, BitsAssumption DEF PrefixLength

\* ipv4_route_lookup tells membership: the length of the prefix, or -1.
LEMMA RouteLookupFact ==
    ASSUME NEW r \in Route, NEW a \in Address
    PROVE  /\ RouteLookup(r, a) \in -1 .. BITS
           /\ Belongs(a, r) => RouteLookup(r, a) = PrefixLength(r.mask)
           /\ ~Belongs(a, r) => RouteLookup(r, a) = -1
           /\ RouteLookup(r, a) >= 0 => Belongs(a, r)
<1>1. r.mask \in Address /\ r.subnet \in Address
    BY DEF Route
<1>2. PrefixLength(r.mask) \in 0 .. BITS
    BY <1>1, PrefixLengthType
<1>3. Masked(a, r.mask) = r.subnet
          <=> \A b \in Bits : r.subnet[b] = IF r.mask[b] = 1 THEN a[b] ELSE 0
    <2>1. ASSUME NEW b \in Bits
          PROVE  a[b] * r.mask[b] = IF r.mask[b] = 1 THEN a[b] ELSE 0
        <3>1. a[b] \in {0, 1} /\ r.mask[b] \in {0, 1}
            BY <1>1, <2>1 DEF Address
        <3> QED BY <3>1
    <2>2. r.subnet = [b \in Bits |-> r.subnet[b]]
        BY <1>1 DEF Address
    <2> QED BY <2>1, <2>2 DEF Masked
<1> QED BY <1>2, <1>3, BitsAssumption DEF RouteLookup, Belongs

\* Adding a route keeps the type of the table.
LEMMA AddType ==
    ASSUME NEW t \in Table, NEW r \in Route PROVE Add(t, r) \in Table
BY DEF Add, Table

LEMMA InitIInv == Init => IInv
<1> SUFFICES ASSUME Init PROVE IInv
    OBVIOUS
<1>1. TypeOK
    BY TableSizeAssumption, BitsAssumption DEF Init, TypeOK, Table, Address
<1>2. LoopInv
    BY DEF Init, LoopInv, Searched
<1> QED BY <1>1, <1>2 DEF IInv

LEMMA TypeStep == TypeOK /\ [Next]_lvars => TypeOK'
<1> SUFFICES ASSUME TypeOK, [Next]_lvars PROVE TypeOK'
    OBVIOUS
<1> USE TableSizeAssumption, BitsAssumption
<1>1. CASE ReadRoute
    BY <1>1, AddType DEF ReadRoute, TypeOK
<1>2. CASE ReadFails \/ ReadAll \/ UNCHANGED lvars
    BY <1>2 DEF ReadFails, ReadAll, lvars, TypeOK
<1>3. CASE StartSearch
    BY <1>3 DEF StartSearch, TypeOK
<1>4. CASE SearchSlot
    <2>1. i' \in 0 .. IPv4_ROUTE_TABLE_SIZE
        BY <1>4 DEF SearchSlot, TypeOK, Slots
    <2>2. table[i] # NULL => table[i] \in Route
        BY <1>4 DEF SearchSlot, TypeOK, Table
    <2>3. best_route' \in Route \cup {NULL} /\ best_prefix' \in -1 .. BITS
        BY <1>4, <2>2, RouteLookupFact DEF SearchSlot, Improves, Better, TypeOK
    <2> QED BY <1>4, <2>1, <2>3 DEF SearchSlot, TypeOK
<1>5. CASE EndSearch
    BY <1>5 DEF EndSearch, TypeOK
<1> QED BY <1>1, <1>2, <1>3, <1>4, <1>5 DEF Next

\* Passing one more slot keeps what the loop knows.
LEMMA SearchSlotStep ==
    ASSUME TypeOK, LoopInv, SearchSlot
    PROVE  (NoneYet /\ BestYet)'
<1>1. NoneYet /\ BestYet
    BY DEF SearchSlot, LoopInv
<1>2. /\ table' = table /\ addr' = addr /\ i' = i + 1
      /\ i \in Slots /\ Slots \subseteq Int
    BY DEF SearchSlot, Slots
<1>3. Passed' = IF table[i] = NULL THEN Passed ELSE Passed \cup {i}
    <2>1. \A s \in Slots : s < i + 1 <=> s < i \/ s = i
        BY <1>2
    <2>2. Passed' = {s \in Slots : s < i + 1 /\ table[s] # NULL}
        BY <1>2 DEF Passed
    <2> QED BY <1>2, <2>1, <2>2 DEF Passed
<1>4. \A s \in Passed : s \in Int /\ s < i
    BY <1>2 DEF Passed
<1>5. ASSUME NEW s \in Slots, table[s] # NULL
      PROVE  /\ RouteLookup(table[s], addr) \in -1 .. BITS
             /\ RouteLookup(table[s], addr) \in Int
    <2>1. table[s] \in Route /\ addr \in Address
        BY <1>5 DEF TypeOK, Table
    <2> QED BY <2>1, RouteLookupFact, BitsAssumption
<1>6. Passed \subseteq {s \in Slots : table[s] # NULL}
    BY DEF Passed
<1>7. best_prefix \in Int /\ -1 <= best_prefix
    BY BitsAssumption DEF TypeOK
<1>8. CASE Improves
    <2>1. best_route' = table[i] /\ best_prefix' = RouteLookup(table[i], addr)
          /\ table[i] # NULL /\ best_prefix' > best_prefix
        BY <1>8 DEF SearchSlot, Improves, Better
    <2>2. best_prefix' \in Nat
        BY <1>2, <1>5, <1>7, <2>1, BitsAssumption
    <2>3. ASSUME NEW s \in Passed PROVE RouteLookup(table[s], addr) < best_prefix'
        <3>1. RouteLookup(table[s], addr) \in Int
              /\ RouteLookup(table[s], addr) <= best_prefix
            BY <1>1, <1>5, <1>6, <1>7 DEF NoneYet, BestYet
        <3> QED BY <1>7, <2>1, <2>2, <3>1
    <2>4. Passed' = Passed \cup {i}
        BY <1>3, <2>1
    <2>5. \A s \in Passed' : RouteLookup(table[s], addr) <= best_prefix'
        BY <1>6, <1>5, <2>1, <2>2, <2>3, <2>4
    <2>6. i \in Passed' /\ \A u \in Passed' : u < i => u \in Passed
        BY <1>2, <2>4
    <2> QED BY <1>2, <2>1, <2>2, <2>3, <2>5, <2>6 DEF NoneYet, BestYet
<1>9. CASE ~Improves
    <2>1. best_route' = best_route /\ best_prefix' = best_prefix
        BY <1>9 DEF SearchSlot
    <2>2. table[i] # NULL => RouteLookup(table[i], addr) \in Int
                             /\ RouteLookup(table[i], addr) <= best_prefix
                             /\ RouteLookup(table[i], addr) >= -1
        BY <1>2, <1>5, <1>7, <1>9, BitsAssumption DEF Improves
    <2>3. NoneYet'
        BY <1>1, <1>2, <1>3, <2>1, <2>2 DEF NoneYet
    <2>4. BestYet'
        <3> SUFFICES ASSUME best_route # NULL PROVE BestYet'
            BY <2>1 DEF BestYet
        <3>1. \A s \in Passed' : RouteLookup(table[s], addr) <= best_prefix
            BY <1>1, <1>3, <2>2 DEF BestYet
        <3>2. PICK s \in Passed : table[s] = best_route
                 /\ \A u \in Passed : u < s => RouteLookup(table[u], addr) < best_prefix
            BY <1>1 DEF BestYet
        <3>3. s \in Passed' /\ \A u \in Passed' : u < s => u \in Passed
            BY <1>2, <1>3, <1>4
        <3> QED BY <1>1, <1>2, <2>1, <3>1, <3>2, <3>3 DEF BestYet
    <2> QED BY <2>3, <2>4
<1> QED BY <1>8, <1>9

LEMMA LoopStep == TypeOK /\ LoopInv /\ [Next]_lvars => LoopInv'
<1> SUFFICES ASSUME TypeOK, LoopInv, [Next]_lvars PROVE LoopInv'
    OBVIOUS
<1>1. CASE ReadRoute \/ ReadFails
    BY <1>1 DEF ReadRoute, ReadFails, LoopInv, Searched
<1>2. CASE ReadAll
    BY <1>2, TableSizeAssumption DEF ReadAll, LoopInv, Searched
<1>3. CASE StartSearch
    <2>1. Passed' = {}
        BY <1>3 DEF StartSearch, Passed, Slots
    <2> QED BY <1>3, <2>1 DEF StartSearch, LoopInv, NoneYet, BestYet
<1>4. CASE SearchSlot
    BY <1>4, SearchSlotStep DEF SearchSlot, LoopInv
<1>5. CASE EndSearch \/ UNCHANGED lvars
    BY <1>5 DEF EndSearch, lvars, LoopInv, Searched, NoneYet, BestYet, Passed
<1> QED BY <1>1, <1>2, <1>3, <1>4, <1>5 DEF Next

\* The invariant holds in every reachable state.
LEMMA IInvHolds == Spec => []IInv
<1>1. IInv /\ [Next]_lvars => IInv'
    BY TypeStep, LoopStep DEF IInv
<1> QED BY <1>1, InitIInv, PTL DEF Spec

---------------------------------------------------------------------------
\* The table and the search have the declared types; no slot beyond the last
\* is looked at.
THEOREM LookupTypeCorrect == Spec => []TypeOK
<1>1. IInv => TypeOK
    BY DEF IInv
<1> QED BY <1>1, IInvHolds, PTL

\* When the search ends every slot has been passed.
LEMMA AllPassed ==
    ASSUME Searched PROVE Passed = {s \in Slots : table[s] # NULL}
BY TableSizeAssumption DEF Searched, Passed, Slots

\* The search returns the longest match, and nothing only if nothing matches,
\* for every address width and table size.
THEOREM SearchFindsLongestMatch == Spec => []LongestMatch
<1>1. ASSUME IInv, Searched PROVE LongestMatch
    <2>1. NoneYet /\ BestYet /\ TypeOK
        BY <1>1 DEF IInv, LoopInv
    <2>2. \A s \in Slots : table[s] # NULL => s \in Passed /\ table[s] \in Route
        BY <1>1, <2>1, AllPassed DEF TypeOK, Table
    <2>3. addr \in Address
        BY <2>1 DEF TypeOK
    <2>4. ASSUME best_route = NULL, NEW s \in Slots, table[s] # NULL
          PROVE  ~Belongs(addr, table[s])
        <3>1. RouteLookup(table[s], addr) = -1 /\ table[s] \in Route
            BY <2>1, <2>2, <2>4 DEF NoneYet
        <3>2. PrefixLength(table[s].mask) \in 0 .. BITS
            BY <3>1, PrefixLengthType DEF Route
        <3> QED BY <2>3, <3>1, <3>2, RouteLookupFact, BitsAssumption
    <2>5. ASSUME best_route # NULL
          PROVE  /\ Belongs(addr, best_route)
                 /\ \E s \in Slots : table[s] = best_route
                 /\ \A s \in Slots : table[s] # NULL /\ Belongs(addr, table[s]) =>
                        PrefixLength(table[s].mask) <= PrefixLength(best_route.mask)
        <3>1. best_route \in Route
            BY <2>1, <2>5 DEF TypeOK
        <3>2. best_prefix \in Nat /\ best_prefix = RouteLookup(best_route, addr)
            BY <2>1, <2>5 DEF BestYet
        <3>3. Belongs(addr, best_route)
              /\ best_prefix = PrefixLength(best_route.mask)
            BY <2>3, <3>1, <3>2, RouteLookupFact
        <3>4. \E s \in Slots : table[s] = best_route
            BY <2>1, <2>5 DEF BestYet, Passed
        <3>5. \A s \in Passed : RouteLookup(table[s], addr) <= best_prefix
            BY <2>1, <2>5 DEF BestYet
        <3> QED BY <2>2, <2>3, <3>3, <3>4, <3>5, RouteLookupFact
    <2> QED BY <2>4, <2>5 DEF LongestMatch
<1>2. IInv => LongestMatch
    BY <1>1 DEF LongestMatch
<1> QED BY <1>2, IInvHolds, PTL

\* Between routes of one length the first line of the file is used.
THEOREM SearchKeepsFirstLine == Spec => []FirstLineWins
<1>1. ASSUME IInv, Searched, best_route # NULL PROVE FirstLineWins
    <2>1. BestYet /\ TypeOK
        BY <1>1 DEF IInv, LoopInv
    <2>2. addr \in Address /\ best_route \in Route
        BY <1>1, <2>1 DEF TypeOK
    <2>3. \A s \in Slots : table[s] # NULL => s \in Passed /\ table[s] \in Route
        BY <1>1, <2>1, AllPassed DEF TypeOK, Table
    <2>4. best_prefix \in Nat /\ best_prefix = PrefixLength(best_route.mask)
        BY <1>1, <2>1, <2>2, RouteLookupFact DEF BestYet
    <2>5. PICK s \in Passed : table[s] = best_route
             /\ \A u \in Passed : u < s => RouteLookup(table[u], addr) < best_prefix
        BY <1>1, <2>1 DEF BestYet
    <2>6. s \in Slots
        BY <2>5 DEF Passed
    <2> QED BY <2>2, <2>3, <2>4, <2>5, <2>6, RouteLookupFact DEF FirstLineWins
<1>2. IInv => FirstLineWins
    BY <1>1 DEF FirstLineWins
<1> QED BY <1>2, IInvHolds, PTL

---------------------------------------------------------------------------
(* Coming up (RipBoot). *)

\* The table after the lines read so far, with one time in every timer.
Loaded(time) == [s \in Rip!Slots |->
    IF s < Len(lines)
    THEN [dest |-> lines[s + 1].dest, next |-> lines[s + 1].next,
          metric |-> lines[s + 1].metric, time |-> time, garbage |-> FALSE]
    ELSE NULL]

BeforeRip == {"routes", "config", "interface", "exited"}

\* The lines stand in the first slots, in the order of the file; the count and
\* what the reading returned agree with them unless it failed.
RibInv ==
    /\ lines \in Seq(FileLine) /\ Len(lines) <= RIP_ROUTE_TABLE_SIZE
    /\ rib = Loaded(Unset) \/ rib = Loaded(Rip!INFINITE_TIMER)
    /\ num_entries \in {-1, Len(lines)}
    /\ K \in {-1, 0, Len(lines)}
    /\ stage \in BeforeRip => lines = <<>>
    /\ stage \in BeforeRip \cup {"rip"} =>
           rib = Loaded(Unset) /\ num_entries = Len(lines) /\ K = 0
    /\ stage = "timers" =>
           /\ rib = Loaded(Unset)
           /\ \/ K = Len(lines)
              \/ K = -1 /\ num_entries = -1
              \/ K = -1 /\ lines = <<>>
    /\ stage = "ready" /\ num_entries # -1 => rib = Loaded(Rip!INFINITE_TIMER)
    /\ stage = "running" => lines = <<>>

\* How far the daemon has come tells what has been opened.
OpenInv ==
    /\ stage \in {"routes", "config", "interface", "exited", "crashed"} \cup Up
    /\ fields \subseteq Fields /\ joined \in BOOLEAN
    /\ stage = "routes" => pc = "read"
    /\ stage \notin {"routes", "exited"} =>
           pc \notin {"read", "failed"} /\ \E s \in Slots : table[s] # NULL
    /\ stage \in {"interface"} \cup Up => fields = Fields
    /\ stage \in Up => joined

BInv == TypeOK /\ RibInv /\ OpenInv

\* What happens to the forwarding table is the search's and the reading's doing.
LEMMA BootStepsLookup == [BootNext]_bootvars => [Next]_lvars
<1> SUFFICES ASSUME [BootNext]_bootvars PROVE [Next]_lvars
    OBVIOUS
<1>1. CASE ReadForwarding
    BY <1>1 DEF ReadForwarding, Next
<1>2. CASE Forward
    BY <1>2 DEF Forward, Next
<1>3. CASE ~ReadForwarding /\ ~Forward
    BY <1>3 DEF BootNext, bootvars, ConfigLine, ConfigFails, ConfigEnd, EthOpens,
        EthFails, RipLine, RipLineTooMany, RipNoFile, RipBadLine, RipEnd, Return,
        SetTimers, StartLoop
<1> QED BY <1>1, <1>2, <1>3

THEOREM BootUsesLookup == BootSpec => Spec
<1>1. BootInit => Init
    BY DEF BootInit
<1> QED BY <1>1, BootStepsLookup, PTL DEF BootSpec, Spec

---------------------------------------------------------------------------
\* With the first slots filled, the first empty one is the next.
LEMMA FirstEmptyAfterLines ==
    ASSUME lines \in Seq(FileLine), rib = Loaded(Unset), Rip!HasRoom(rib)
    PROVE  /\ Len(lines) \in Rip!Slots
           /\ Rip!FirstEmpty(rib) = Len(lines)
<1> DEFINE n == Len(lines)
<1>1. n \in Nat /\ Rip!Slots \subseteq Nat
    BY RibSizeAssumption DEF Rip!Slots
<1>2. ASSUME NEW s \in Rip!Slots PROVE rib[s] = NULL <=> n <= s
    <2>1. CASE s < n
        <3>1. s + 1 \in 1 .. Len(lines)
            BY <1>1, <2>1
        <3>2. lines[s + 1] \in FileLine
            BY <3>1
        <3>3. rib[s] \in RouteRead
            BY <2>1, <3>2, LineAssumption DEF Loaded, RouteRead
        <3> QED BY <1>1, <2>1, <3>3, RibNullAssumption
    <2>2. CASE ~(s < n)
        BY <1>1, <2>2 DEF Loaded
    <2> QED BY <2>1, <2>2
<1>3. n \in Rip!Slots
    <2>1. PICK s \in Rip!Slots : rib[s] = NULL
        BY DEF Rip!HasRoom
    <2> QED BY <1>1, <1>2, <2>1, RibSizeAssumption DEF Rip!Slots
<1>4. rib[n] = NULL /\ \A s \in Rip!Slots : rib[s] = NULL => n <= s
    BY <1>1, <1>2, <1>3
<1>5. ASSUME NEW s \in Rip!Slots, rib[s] = NULL,
             \A j \in Rip!Slots : rib[j] = NULL => s <= j
      PROVE  s = n
    BY <1>1, <1>3, <1>4, <1>5
<1> HIDE DEF n
<1>6. Rip!FirstEmpty(rib) = n
    BY <1>3, <1>4, <1>5 DEF Rip!FirstEmpty
<1> QED BY <1>3, <1>6 DEF n

\* A line more goes to the next slot.
LEMMA LineStep == TypeOK /\ RibInv /\ RipLine => RibInv'
<1> SUFFICES ASSUME RibInv, RipLine PROVE RibInv'
    OBVIOUS
<1>1. /\ stage = "rip" /\ stage' = "rip" /\ K' = K /\ num_entries' = num_entries + 1
      /\ rib = Loaded(Unset) /\ num_entries = Len(lines) /\ lines \in Seq(FileLine)
      /\ Rip!HasRoom(rib)
    BY DEF RipLine, RibInv
<1>2. PICK l \in FileLine :
          /\ rib' = Rip!Add(rib, [dest |-> l.dest, next |-> l.next, metric |-> l.metric,
                                  time |-> Unset, garbage |-> FALSE])
          /\ lines' = Append(lines, l)
    BY DEF RipLine
<1>3. PICK n : n = Len(lines)
    OBVIOUS
<1>4. n \in Rip!Slots /\ Rip!FirstEmpty(rib) = n /\ n \in Nat
    BY <1>1, <1>3, FirstEmptyAfterLines
<1>5. /\ lines' \in Seq(FileLine) /\ Len(lines') = n + 1
      /\ \A k \in 1 .. n : lines'[k] = lines[k]
      /\ lines'[n + 1] = l
    BY <1>1, <1>2, <1>3
<1>6. rib' = Loaded(Unset)'
    <2> DEFINE new == [dest |-> l.dest, next |-> l.next, metric |-> l.metric,
                       time |-> Unset, garbage |-> FALSE]
    <2>1. [new EXCEPT !.garbage = FALSE] = new
        <3>1. new \in RouteRead
            BY LineAssumption DEF RouteRead
        <3> HIDE DEF new
        <3>2. new.garbage = FALSE
            BY DEF new
        <3> QED BY <3>1, <3>2 DEF RouteRead
    <2>2. rib' = [rib EXCEPT ![n] = new]
        BY <1>2, <1>4, <2>1 DEF Rip!Add
    <2>3. ASSUME NEW s \in Rip!Slots
          PROVE  rib'[s] = IF s < Len(lines')
                 THEN [dest |-> lines'[s + 1].dest, next |-> lines'[s + 1].next,
                       metric |-> lines'[s + 1].metric, time |-> Unset, garbage |-> FALSE]
                 ELSE NULL
        <3>1. s \in Nat
            BY RibSizeAssumption DEF Rip!Slots
        <3>2. CASE s = n
            <4>1. s < Len(lines') /\ lines'[s + 1] = l
                BY <1>4, <1>5, <3>2
            <4>2. rib'[s] = new
                BY <1>1, <1>4, <2>2, <3>2 DEF Loaded
            <4> QED BY <4>1, <4>2
        <3>3. CASE s # n
            <4>1. rib'[s] = rib[s]
                BY <1>1, <2>2, <3>3 DEF Loaded
            <4>2. s < n + 1 <=> s < n
                BY <1>4, <3>1, <3>3
            <4>3. s < n => lines'[s + 1] = lines[s + 1]
                BY <1>4, <1>5, <3>1
            <4> QED BY <1>1, <1>3, <1>5, <4>1, <4>2, <4>3 DEF Loaded
        <3> QED BY <3>2, <3>3
    <2>4. rib' = [s \in Rip!Slots |-> rib'[s]]
        BY <1>1, <2>2 DEF Loaded
    <2> HIDE DEF new
    <2> QED BY <2>3, <2>4 DEF Loaded
<1>7. Len(lines') <= RIP_ROUTE_TABLE_SIZE
    BY <1>4, <1>5, RibSizeAssumption DEF Rip!Slots
<1>8. K' = 0
    BY <1>1 DEF RibInv, BeforeRip
<1> QED BY <1>1, <1>3, <1>5, <1>6, <1>7, <1>8 DEF RibInv, BeforeRip

\* Setting the timer of a route read leaves the rest of it.
LEMMA TimerSet ==
    ASSUME NEW l \in FileLine, NEW t
    PROVE  [[dest |-> l.dest, next |-> l.next, metric |-> l.metric,
             time |-> Unset, garbage |-> FALSE] EXCEPT !.time = t]
               = [dest |-> l.dest, next |-> l.next, metric |-> l.metric,
                  time |-> t, garbage |-> FALSE]
<1> DEFINE old == [dest |-> l.dest, next |-> l.next, metric |-> l.metric,
                   time |-> Unset, garbage |-> FALSE]
           new == [dest |-> l.dest, next |-> l.next, metric |-> l.metric,
                   time |-> t, garbage |-> FALSE]
           Timed == [dest: Dest, next: Router, metric: Nat, time: {t}, garbage: BOOLEAN]
<1>1. old \in RouteRead /\ new \in Timed
    BY LineAssumption DEF RouteRead
<1>2. /\ old.dest = new.dest /\ old.next = new.next /\ old.metric = new.metric
      /\ old.garbage = FALSE /\ new.garbage = FALSE
    OBVIOUS
<1> HIDE DEF old, new
<1>3. [old EXCEPT !.time = t] \in Timed
    BY <1>1 DEF RouteRead
<1>4. [old EXCEPT !.time = t].garbage = FALSE
    BY <1>1, <1>2 DEF RouteRead
<1>5. [old EXCEPT !.time = t] = new
    BY <1>1, <1>2, <1>3, <1>4 DEF RouteRead
<1> QED BY <1>5 DEF old, new

\* Setting the first K timers sets them all, or none after a failed reading.
LEMMA TimersStep == RibInv /\ SetTimers => RibInv'
<1> SUFFICES ASSUME RibInv, SetTimers PROVE RibInv'
    OBVIOUS
<1>1. /\ stage = "timers" /\ stage' = "ready" /\ lines' = lines /\ K' = K
      /\ num_entries' = num_entries /\ rib = Loaded(Unset)
      /\ lines \in Seq(FileLine) /\ Len(lines) \in Nat
    BY DEF SetTimers, RibInv
<1>2. \A s \in Rip!Slots : s \in Nat
    BY RibSizeAssumption DEF Rip!Slots
<1>3. rib' = [s \in Rip!Slots |->
          IF s < K THEN [rib[s] EXCEPT !.time = Rip!INFINITE_TIMER] ELSE rib[s]]
    BY DEF SetTimers
<1>4. CASE K = Len(lines)
    <2>1. ASSUME NEW s \in Rip!Slots
          PROVE  rib'[s] = IF s < Len(lines')
                 THEN [dest |-> lines'[s + 1].dest, next |-> lines'[s + 1].next,
                       metric |-> lines'[s + 1].metric,
                       time |-> Rip!INFINITE_TIMER, garbage |-> FALSE]
                 ELSE NULL
        <3>1. CASE s < Len(lines)
            <4>1. s + 1 \in 1 .. Len(lines)
                BY <1>1, <1>2, <3>1
            <4>2. lines[s + 1] \in FileLine
                BY <1>1, <4>1
            <4>3. rib'[s] = [rib[s] EXCEPT !.time = Rip!INFINITE_TIMER]
                BY <1>3, <1>4, <3>1
            <4> QED BY <1>1, <3>1, <4>2, <4>3, TimerSet DEF Loaded
        <3>2. CASE ~(s < Len(lines))
            BY <1>1, <1>3, <1>4, <3>2 DEF Loaded
        <3> QED BY <3>1, <3>2
    <2>2. rib' = Loaded(Rip!INFINITE_TIMER)'
        BY <1>3, <2>1 DEF Loaded
    <2> QED BY <1>1, <2>2 DEF RibInv, BeforeRip
<1>5. CASE K = -1
    <2>1. \A s \in Rip!Slots : ~(s < K)
        BY <1>2, <1>5
    <2>2. rib' = Loaded(Unset)'
        BY <1>1, <1>3, <2>1 DEF Loaded
    <2>3. lines = <<>> => Loaded(Unset)' = Loaded(Rip!INFINITE_TIMER)'
        BY <1>1, <1>2 DEF Loaded
    <2>4. num_entries = -1 \/ lines = <<>>
        BY <1>1, <1>5 DEF RibInv
    <2> QED BY <1>1, <2>2, <2>3, <2>4 DEF RibInv, BeforeRip
<1> QED BY <1>1, <1>4, <1>5 DEF RibInv

LEMMA RibStep == TypeOK /\ RibInv /\ [BootNext]_bootvars => RibInv'
<1> SUFFICES ASSUME TypeOK, RibInv, [BootNext]_bootvars PROVE RibInv'
    OBVIOUS
<1>1. CASE RipLine
    BY <1>1, LineStep
<1>2. CASE SetTimers
    BY <1>2, TimersStep
<1>3. CASE RipNoFile \/ RipBadLine \/ RipEnd
    <2>1. /\ stage = "rip" /\ stage' = "timers" /\ rib' = rib /\ lines' = lines
          /\ K' \in {-1, Len(lines)} /\ num_entries' \in {-1, Len(lines)}
          /\ K' = Len(lines') \/ num_entries' = -1 \/ lines' = <<>>
          /\ rib = Loaded(Unset) /\ Loaded(Unset)' = Loaded(Unset)
        BY <1>3 DEF RipNoFile, RipBadLine, RipEnd, Return, RibInv, Loaded
    <2> QED BY <2>1 DEF RibInv, BeforeRip
<1>4. CASE StartLoop
    <2>1. Len(lines') = 0 /\ lines' \in Seq(FileLine)
        BY <1>4 DEF StartLoop
    <2>2. rib' = Loaded(Unset)'
        <3>1. \A s \in Rip!Slots : ~(s < 0)
            BY RibSizeAssumption DEF Rip!Slots
        <3> QED BY <1>4, <2>1, <3>1 DEF StartLoop, NoRoutes, Loaded
    <2> QED BY <1>4, <2>1, <2>2, RibSizeAssumption DEF StartLoop, RibInv, BeforeRip
<1>5. CASE EthOpens
    BY <1>5 DEF EthOpens, RibInv, BeforeRip, Loaded
<1>6. CASE ReadForwarding \/ ConfigLine \/ ConfigFails \/ ConfigEnd \/ EthFails
           \/ RipLineTooMany \/ Forward \/ UNCHANGED bootvars
    BY <1>6 DEF ReadForwarding, ConfigLine, ConfigFails, ConfigEnd, EthFails,
        RipLineTooMany, Forward, bootvars, ribvars, RibInv, BeforeRip, Loaded
<1> QED BY <1>1, <1>2, <1>3, <1>4, <1>5, <1>6 DEF BootNext

LEMMA OpenStep == OpenInv /\ [BootNext]_bootvars => OpenInv'
<1> SUFFICES ASSUME OpenInv, [BootNext]_bootvars PROVE OpenInv'
    OBVIOUS
<1>1. CASE ReadForwarding
    BY <1>1 DEF ReadForwarding, ReadRoute, ReadAll, ReadFails, OpenInv, Up
<1>2. CASE ConfigLine \/ ConfigFails \/ ConfigEnd
    BY <1>2 DEF ConfigLine, ConfigFails, ConfigEnd, lvars, OpenInv, Up
<1>3. CASE EthOpens \/ EthFails \/ RipLine \/ RipLineTooMany
    BY <1>3 DEF EthOpens, EthFails, RipLine, RipLineTooMany, lvars, OpenInv, Up
<1>4. CASE RipNoFile \/ RipBadLine \/ RipEnd \/ SetTimers \/ StartLoop
    BY <1>4 DEF RipNoFile, RipBadLine, RipEnd, Return, SetTimers, StartLoop, lvars,
        OpenInv, Up
<1>5. CASE Forward
    BY <1>5 DEF Forward, StartSearch, SearchSlot, EndSearch, OpenInv, Up
<1>6. CASE UNCHANGED bootvars
    BY <1>6 DEF bootvars, lvars, OpenInv, Up
<1> QED BY <1>1, <1>2, <1>3, <1>4, <1>5, <1>6 DEF BootNext

LEMMA InitBoot == BootInit => RibInv /\ OpenInv
<1> SUFFICES ASSUME BootInit PROVE RibInv /\ OpenInv
    OBVIOUS
<1>1. Len(lines) = 0 /\ lines = <<>> /\ lines \in Seq(FileLine)
    BY DEF BootInit
<1>2. rib = Loaded(Unset)
    <2>1. \A s \in Rip!Slots : ~(s < 0)
        BY RibSizeAssumption DEF Rip!Slots
    <2> QED BY <1>1, <2>1 DEF BootInit, NoRoutes, Loaded
<1>3. RibInv
    BY <1>1, <1>2, RibSizeAssumption DEF BootInit, RibInv, BeforeRip
<1>4. OpenInv
    BY DEF BootInit, Init, OpenInv, Up
<1> QED BY <1>3, <1>4

LEMMA BInvHolds == BootSpec => []BInv
<1> QED BY BootUsesLookup, LookupTypeCorrect, InitBoot, RibStep, OpenStep, PTL
        DEF BootSpec, BInv

---------------------------------------------------------------------------
\* The state of the start has the declared types; every route read has a timer
\* that was either just allocated or set to be infinite.
THEOREM BootTypeCorrect == BootSpec => []BootTypeOK
<1>1. ASSUME BInv PROVE BootTypeOK
    <2>1. TypeOK /\ RibInv /\ OpenInv
        BY <1>1 DEF BInv
    <2>2. ASSUME NEW s \in Rip!Occupied(rib)
          PROVE  rib[s].time \in {Unset, Rip!INFINITE_TIMER} /\ ~rib[s].garbage
        <3>1. s \in Rip!Slots /\ rib[s] # NULL
            BY <2>2 DEF Rip!Occupied
        <3> QED BY <2>1, <3>1 DEF RibInv, Loaded
    <2>3. Len(lines) \in 0 .. RIP_ROUTE_TABLE_SIZE
        BY <2>1, RibSizeAssumption DEF RibInv
    <2>4. num_entries \in -1 .. RIP_ROUTE_TABLE_SIZE /\ K \in -1 .. RIP_ROUTE_TABLE_SIZE
        BY <2>1, <2>3, RibSizeAssumption DEF RibInv
    <2> QED BY <2>1, <2>2, <2>4 DEF BootTypeOK, RibInv, OpenInv
<1> QED BY <1>1, BInvHolds, PTL

\* After a file that was not malformed the loop starts from every line of it, in
\* order, counted, with no timer as it was allocated, for every file that fits.
THEOREM WholeFileIsStartedFrom == BootSpec => []StartsFromWholeFile
<1>1. BInv => StartsFromWholeFile
    BY DEF BInv, RibInv, StartsFromWholeFile, Loaded
<1> QED BY <1>1, BInvHolds, PTL

\* Whatever fails while the stack is opened, the daemon runs only with routes, a
\* complete configuration and the subscription.
THEOREM OpenStackRuns == BootSpec => []OnlyOpenStackRuns
<1>1. BInv => OnlyOpenStackRuns
    BY DEF BInv, OpenInv, OnlyOpenStackRuns, Up
<1> QED BY <1>1, BInvHolds, PTL

\* Inside the daemon the search keeps its promises.
THEOREM DaemonForwardsRight == BootSpec => [](LongestMatch /\ FirstLineWins)
<1> QED BY BootUsesLookup, SearchFindsLongestMatch, SearchKeepsFirstLine, PTL
=============================================================================
