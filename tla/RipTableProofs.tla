--------------------------- MODULE RipTableProofs ---------------------------
(* Facts about the table operators of RipTable, for every table and size. *)
EXTENDS RipTable, TLAPS, FiniteSetTheorems

\* A set of naturals that is not empty has a least element: the searches for
\* the first slot that passes a test find one when some slot passes it.
LEMMA LeastNatural ==
  ASSUME NEW S \in SUBSET Nat, S # {}
  PROVE  \E m \in S : \A k \in S : m <= k
<1> DEFINE T == {0 .. k : k \in S}
<1>1. T \subseteq FiniteSubsetsOf(Nat)
  <2>1. \A k \in S : 0 .. k \in SUBSET Nat /\ IsFiniteSet(0 .. k)
    BY FS_Interval
  <2>. QED BY <2>1 DEF FiniteSubsetsOf
<1>2. T # {}
  OBVIOUS
<1>3. PICK A \in T : \A B \in T : ~ (<<B, A>> \in StrictSubsetOrdering(Nat))
  BY <1>1, <1>2, FS_StrictSubsetOrderingWellFounded, WFMin
<1>4. PICK m \in S : A = 0 .. m
  OBVIOUS
<1>5. ASSUME NEW k \in S, k < m PROVE FALSE
  <2>1. 0 .. k \in T /\ 0 .. k \subseteq 0 .. m /\ 0 .. k # 0 .. m
    <3>1. m \in 0 .. m /\ m \notin 0 .. k  BY <1>5
    <3>. QED BY <3>1, <1>5
  <2>2. <<0 .. k, A>> \in StrictSubsetOrdering(Nat)
    BY <2>1, <1>4 DEF StrictSubsetOrdering
  <2>. QED BY <1>3, <2>1, <2>2
<1>. QED BY <1>5

---------------------------------------------------------------------------
\* rip_route_table_add finds an empty slot when there is one.
LEMMA FirstEmptyFact ==
  ASSUME NEW r, HasRoom(r)
  PROVE  FirstEmpty(r) \in Slots /\ r[FirstEmpty(r)] = NULL
<1> DEFINE S == {i \in Slots : r[i] = NULL}
<1>1. S \in SUBSET Nat /\ S # {}
  BY SizeAssumption DEF HasRoom, Slots
<1>2. \E m \in S : \A k \in S : m <= k
  BY <1>1, LeastNatural
<1>. QED BY <1>2 DEF FirstEmpty

\* compare_entries finds a slot holding a known destination.
LEMMA FirstOfFact ==
  ASSUME NEW r, NEW d, Known(r, d)
  PROVE  FirstOf(r, d) \in Slots /\ Holds(r, FirstOf(r, d), d)
<1> DEFINE S == {i \in Slots : Holds(r, i, d)}
<1>1. S \in SUBSET Nat /\ S # {}
  BY SizeAssumption DEF Known, Slots
<1>2. \E m \in S : \A k \in S : m <= k
  BY <1>1, LeastNatural
<1>. QED BY <1>2 DEF FirstOf

\* Timers set by the code stay within the lengths a route's timer may have.
LEMMA TimerValues ==
  TIMEOUT \in TimeLeft(TIMEOUT) /\ TIMER_ZERO \in TimeLeft(TIMEOUT)
BY TimeoutAssumption DEF TimeLeft, INFINITE_TIMER, TIMER_ZERO

\* Setting a route's timer and clearing its flag leaves the rest of it.
LEMMA FreshRoute ==
  ASSUME NEW aux \in Route, NEW t \in TimeLeft(TIMEOUT)
  PROVE  LET new == [aux EXCEPT !.time = t, !.garbage = FALSE]
         IN  /\ new \in Route
             /\ new.dest = aux.dest
             /\ new.time = t
             /\ ~new.garbage
BY DEF Route

---------------------------------------------------------------------------
(* What processing an entry does to a table, in one shape: slot i is        *)
(* emptied and slot k, empty or i itself, takes a route to the same         *)
(* destination.                                                             *)

Moved(r, i, k, new) == [j \in Slots |->
    IF j = k THEN new ELSE IF j = i THEN NULL ELSE r[j]]

\* The routes an entry can leave: a fresh or withdrawn route, unflagged, or the
\* old route in its place, perhaps with its timer collapsed.
Outcome(r, i, k, new) ==
    \/ ~new.garbage /\ new.time \in {TIMER_ZERO, TIMEOUT}
    \/ k = i /\ new = r[i]
    \/ k = i /\ new = [r[i] EXCEPT !.time = TIMER_ZERO]

\* rip_replace_entry keeps the shape: the old slot is emptied, a free one filled.
LEMMA ReplaceShape ==
  ASSUME NEW r \in Table, NEW i \in Slots, r[i] # NULL, NEW aux \in Route
  PROVE  LET k == ReplacedAt(r, i)
             new == [aux EXCEPT !.time = r[i].time, !.garbage = FALSE]
         IN  /\ k \in Slots
             /\ k = i \/ r[k] = NULL
             /\ Replace(r, i, aux) = Moved(r, i, k, new)
             /\ Replace(r, i, aux) \in Table
             /\ new \in Route
<1> DEFINE c == Remove(r, i)
           k == FirstEmpty(c)
           new == [aux EXCEPT !.time = r[i].time, !.garbage = FALSE]
<1>1. c \in Table /\ c[i] = NULL /\ \A j \in Slots : j # i => c[j] = r[j]
  BY DEF Remove, Table
<1>2. k \in Slots /\ c[k] = NULL
  BY <1>1, FirstEmptyFact DEF HasRoom
<1>3. r[i] \in Route
  BY DEF Table
<1>4. new \in Route
  BY <1>3 DEF Route
<1>5. Replace(r, i, aux) = [c EXCEPT ![k] = new]
  BY DEF Replace, Add, Route
<1>6. [c EXCEPT ![k] = new] = Moved(r, i, k, new)
  BY <1>1, <1>2 DEF Moved, Table
<1>7. Moved(r, i, k, new) \in Table
  BY <1>4, <1>2 DEF Moved, Table
<1>. QED BY <1>1, <1>2, <1>4, <1>5, <1>6, <1>7 DEF ReplacedAt

\* A route taken over and refreshed (better, changed or stale) keeps the shape.
LEMMA AdoptShape ==
  ASSUME NEW r \in Table, NEW i \in Slots, r[i] # NULL, NEW aux \in Route
  PROVE  LET k == ReplacedAt(r, i)
             new == [aux EXCEPT !.time = TIMEOUT, !.garbage = FALSE]
         IN  /\ k \in Slots
             /\ k = i \/ r[k] = NULL
             /\ Adopt(r, i, aux) = Moved(r, i, k, new)
             /\ new \in Route
<1> DEFINE k == ReplacedAt(r, i)
           mid == [aux EXCEPT !.time = r[i].time, !.garbage = FALSE]
           new == [aux EXCEPT !.time = TIMEOUT, !.garbage = FALSE]
<1>1. /\ k \in Slots
      /\ k = i \/ r[k] = NULL
      /\ Replace(r, i, aux) = Moved(r, i, k, mid)
      /\ Replace(r, i, aux) \in Table
  BY ReplaceShape
<1>2. new \in Route
  BY FreshRoute, TimerValues
<1>3. [mid EXCEPT !.time = TIMEOUT, !.garbage = FALSE] = new
  BY DEF Route
<1>4. Replace(r, i, aux)[k] = mid
  BY <1>1 DEF Moved
<1>5. Adopt(r, i, aux) = [Moved(r, i, k, mid) EXCEPT ![k] = new]
  BY <1>1, <1>3, <1>4 DEF Adopt, ResetEntryTimer
<1>6. [Moved(r, i, k, mid) EXCEPT ![k] = new] = Moved(r, i, k, new)
  BY <1>1 DEF Moved
<1>. QED BY <1>1, <1>2, <1>5, <1>6

\* A withdrawn route keeps the shape, with its timer collapsed.
LEMMA WithdrawShape ==
  ASSUME NEW r \in Table, NEW i \in Slots, r[i] # NULL, NEW aux \in Route
  PROVE  LET k == ReplacedAt(r, i)
             new == [aux EXCEPT !.time = TIMER_ZERO, !.garbage = FALSE]
         IN  /\ k \in Slots
             /\ k = i \/ r[k] = NULL
             /\ Withdraw(r, i, aux) = Moved(r, i, k, new)
             /\ new \in Route
<1> DEFINE c == SetDeleteFlag(r, i)
           k == ReplacedAt(c, i)
           new == [aux EXCEPT !.time = TIMER_ZERO, !.garbage = FALSE]
<1>0. r[i] \in Route
  BY DEF Table
<1>1. [r[i] EXCEPT !.time = TIMER_ZERO] \in Route
  BY <1>0, TimerValues DEF Route
<1>2. c = [r EXCEPT ![i] = [r[i] EXCEPT !.time = TIMER_ZERO]]
  BY DEF SetDeleteFlag
<1>3. /\ c \in Table
      /\ c[i] # NULL
      /\ c[i].time = TIMER_ZERO
      /\ \A j \in Slots : j # i => c[j] = r[j]
  BY <1>0, <1>1, <1>2, NullAssumption DEF Table, Route
<1>4. Remove(c, i) = Remove(r, i)
  BY <1>2 DEF Remove, Table
<1>5. k = ReplacedAt(r, i)
  BY <1>4 DEF ReplacedAt
<1>6. /\ k \in Slots
      /\ k = i \/ c[k] = NULL
      /\ Replace(c, i, aux) = Moved(c, i, k, [aux EXCEPT !.time = c[i].time, !.garbage = FALSE])
      /\ [aux EXCEPT !.time = c[i].time, !.garbage = FALSE] \in Route
  BY <1>3, ReplaceShape
<1>7. Moved(c, i, k, new) = Moved(r, i, k, new)
  BY <1>3, <1>6 DEF Moved
<1>8. Withdraw(r, i, aux) = Moved(r, i, k, new) /\ new \in Route
  BY <1>3, <1>6, <1>7 DEF Withdraw
<1>. QED BY <1>3, <1>5, <1>6, <1>8

\* Whatever compare_entries decides about a known destination, one slot of that
\* destination is replaced by one route to it.
LEMMA CompareKnownShape ==
  ASSUME NEW r \in Table, NEW i \in Slots, NEW aux \in Route,
         Holds(r, i, aux.dest)
  PROVE  \E k \in Slots, new \in Route :
           /\ k = i \/ r[k] = NULL
           /\ CompareKnown(r, i, aux) = Moved(r, i, k, new)
           /\ new.dest = aux.dest
           /\ Outcome(r, i, k, new)
<1>. r[i] # NULL /\ r[i].dest = aux.dest /\ r[i] \in Route
  BY DEF Holds, Table
<1> DEFINE a == [aux EXCEPT !.time = TIMEOUT, !.garbage = FALSE]
           w == [aux EXCEPT !.time = TIMER_ZERO, !.garbage = FALSE]
           z == [r[i] EXCEPT !.time = TIMER_ZERO]
           t == [r[i] EXCEPT !.time = TIMEOUT, !.garbage = FALSE]
           kk == ReplacedAt(r, i)
           Shape(r2) == \E k \in Slots, new \in Route :
                          /\ k = i \/ r[k] = NULL
                          /\ r2 = Moved(r, i, k, new)
                          /\ new.dest = aux.dest
                          /\ Outcome(r, i, k, new)
<1>1. Shape(Adopt(r, i, aux))
  <2>1. /\ kk \in Slots /\ (kk = i \/ r[kk] = NULL)
        /\ Adopt(r, i, aux) = Moved(r, i, kk, a) /\ a \in Route
    BY AdoptShape
  <2>2. a.dest = aux.dest /\ ~a.garbage /\ a.time = TIMEOUT
    BY FreshRoute, TimerValues
  <2>. QED BY <2>1, <2>2 DEF Outcome
<1>2. Shape(Withdraw(r, i, aux))
  <2>1. /\ kk \in Slots /\ (kk = i \/ r[kk] = NULL)
        /\ Withdraw(r, i, aux) = Moved(r, i, kk, w) /\ w \in Route
    BY WithdrawShape
  <2>2. w.dest = aux.dest /\ ~w.garbage /\ w.time = TIMER_ZERO
    BY FreshRoute, TimerValues
  <2>. QED BY <2>1, <2>2 DEF Outcome
<1>3. Shape(ResetEntryTimer(r, i))
  <2>1. t \in Route /\ t.dest = aux.dest /\ ~t.garbage /\ t.time = TIMEOUT
    BY FreshRoute, TimerValues
  <2>2. ResetEntryTimer(r, i) = [r EXCEPT ![i] = t]
    BY DEF ResetEntryTimer
  <2>3. [r EXCEPT ![i] = t] = Moved(r, i, i, t)
    BY DEF Moved, Table
  <2>. QED BY <2>1, <2>2, <2>3 DEF Outcome
<1>4. Shape(SetDeleteFlag(r, i))
  <2>1. z \in Route /\ z.dest = aux.dest
    BY TimerValues DEF Route
  <2>2. SetDeleteFlag(r, i) = [r EXCEPT ![i] = z]
    BY DEF SetDeleteFlag
  <2>3. [r EXCEPT ![i] = z] = Moved(r, i, i, z)
    BY DEF Moved, Table
  <2>. QED BY <2>1, <2>2, <2>3 DEF Outcome
<1>5. Shape(r)
  <2>1. r = Moved(r, i, i, r[i])
    BY DEF Moved, Table
  <2>. QED BY <2>1 DEF Outcome
<1>6. CompareKnown(r, i, aux) \in {Adopt(r, i, aux), Withdraw(r, i, aux),
                                   ResetEntryTimer(r, i), SetDeleteFlag(r, i), r}
  BY DEF CompareKnown
<1>7. Shape(CompareKnown(r, i, aux))
  <2>. HIDE DEF Shape
  <2>. QED BY <1>1, <1>2, <1>3, <1>4, <1>5, <1>6
<1>. QED BY <1>7

\* An entry that is not reported leaves the destination's metric as it was, even
\* when it takes the route over and moves it to another slot.
LEMMA UnreportedShape ==
  ASSUME NEW r \in Table, NEW i \in Slots, NEW aux \in Route,
         Holds(r, i, aux.dest),
         ~(r[i].next = aux.next /\ r[i].metric # aux.metric),
         ~(r[i].next # aux.next /\ r[i].metric > aux.metric)
  PROVE  \E k \in Slots, new \in Route :
           /\ k = i \/ r[k] = NULL
           /\ CompareKnown(r, i, aux) = Moved(r, i, k, new)
           /\ new.dest = aux.dest
           /\ new.metric = r[i].metric
<1>. r[i] # NULL /\ r[i].dest = aux.dest /\ r[i] \in Route
  BY DEF Holds, Table
<1> DEFINE a == [aux EXCEPT !.time = TIMEOUT, !.garbage = FALSE]
           z == [r[i] EXCEPT !.time = TIMER_ZERO]
           t == [r[i] EXCEPT !.time = TIMEOUT, !.garbage = FALSE]
           kk == ReplacedAt(r, i)
           Shape(r2) == \E k \in Slots, new \in Route :
                          /\ k = i \/ r[k] = NULL
                          /\ r2 = Moved(r, i, k, new)
                          /\ new.dest = aux.dest
                          /\ new.metric = r[i].metric
<1>1. ASSUME r[i].metric = aux.metric PROVE Shape(Adopt(r, i, aux))
  <2>1. /\ kk \in Slots /\ (kk = i \/ r[kk] = NULL)
        /\ Adopt(r, i, aux) = Moved(r, i, kk, a) /\ a \in Route
    BY AdoptShape
  <2>2. a.dest = aux.dest /\ a.metric = aux.metric
    BY DEF Route
  <2>. QED BY <1>1, <2>1, <2>2
<1>2. Shape(ResetEntryTimer(r, i))
  <2>1. t \in Route /\ t.dest = aux.dest
    BY FreshRoute, TimerValues
  <2>2. t.metric = r[i].metric
    BY DEF Route
  <2>3. ResetEntryTimer(r, i) = [r EXCEPT ![i] = t]
    BY DEF ResetEntryTimer
  <2>4. [r EXCEPT ![i] = t] = Moved(r, i, i, t)
    BY DEF Moved, Table
  <2>. QED BY <2>1, <2>2, <2>3, <2>4
<1>3. Shape(SetDeleteFlag(r, i))
  <2>1. z \in Route /\ z.dest = aux.dest /\ z.metric = r[i].metric
    BY TimerValues DEF Route
  <2>2. SetDeleteFlag(r, i) = [r EXCEPT ![i] = z]
    BY DEF SetDeleteFlag
  <2>3. [r EXCEPT ![i] = z] = Moved(r, i, i, z)
    BY DEF Moved, Table
  <2>. QED BY <2>1, <2>2, <2>3
<1>4. Shape(r)
  <2>1. r = Moved(r, i, i, r[i])
    BY DEF Moved, Table
  <2>. QED BY <2>1
<1>5. \/ r[i].metric = aux.metric /\ CompareKnown(r, i, aux) = Adopt(r, i, aux)
      \/ CompareKnown(r, i, aux) \in {ResetEntryTimer(r, i), SetDeleteFlag(r, i), r}
  BY DEF CompareKnown
<1>6. Shape(CompareKnown(r, i, aux))
  <2>. HIDE DEF Shape
  <2>. QED BY <1>1, <1>2, <1>3, <1>4, <1>5
<1>. QED BY <1>6

\* A route left by an entry is the sender's, with the metric it gave, unless the
\* entry came from another router than the next hop and changed nothing.  It has no
\* life only when it was withdrawn, and a flag only where there was one.
Attributed(r, i, k, new, aux) ==
    \/ /\ new.next = aux.next /\ new.metric = aux.metric
       /\ new.time = TIMEOUT \/ (new.time = TIMER_ZERO /\ aux.metric = RIP_INFINITY)
       /\ new.garbage => k = i /\ r[i].garbage
    \/ k = i /\ new = r[i] /\ r[i].next # aux.next

LEMMA AttributedShape ==
  ASSUME NEW r \in Table, NEW i \in Slots, NEW aux \in Route,
         Holds(r, i, aux.dest)
  PROVE  \E k \in Slots, new \in Route :
           /\ k = i \/ r[k] = NULL
           /\ CompareKnown(r, i, aux) = Moved(r, i, k, new)
           /\ new.dest = aux.dest
           /\ Attributed(r, i, k, new, aux)
<1>. r[i] # NULL /\ r[i].dest = aux.dest /\ r[i] \in Route
  BY DEF Holds, Table
<1> DEFINE a == [aux EXCEPT !.time = TIMEOUT, !.garbage = FALSE]
           w == [aux EXCEPT !.time = TIMER_ZERO, !.garbage = FALSE]
           z == [r[i] EXCEPT !.time = TIMER_ZERO]
           t == [r[i] EXCEPT !.time = TIMEOUT, !.garbage = FALSE]
           kk == ReplacedAt(r, i)
           Same == r[i].next = aux.next /\ r[i].metric = aux.metric
           Shape(r2) == \E k \in Slots, new \in Route :
                          /\ k = i \/ r[k] = NULL
                          /\ r2 = Moved(r, i, k, new)
                          /\ new.dest = aux.dest
                          /\ Attributed(r, i, k, new, aux)
<1>1. Shape(Adopt(r, i, aux))
  <2>1. /\ kk \in Slots /\ (kk = i \/ r[kk] = NULL)
        /\ Adopt(r, i, aux) = Moved(r, i, kk, a) /\ a \in Route
    BY AdoptShape
  <2>2. a.dest = aux.dest /\ a.next = aux.next /\ a.metric = aux.metric
    BY DEF Route
  <2>3. a.time = TIMEOUT /\ ~a.garbage
    BY FreshRoute, TimerValues
  <2>. QED BY <2>1, <2>2, <2>3 DEF Attributed
<1>2. ASSUME aux.metric = RIP_INFINITY PROVE Shape(Withdraw(r, i, aux))
  <2>1. /\ kk \in Slots /\ (kk = i \/ r[kk] = NULL)
        /\ Withdraw(r, i, aux) = Moved(r, i, kk, w) /\ w \in Route
    BY WithdrawShape
  <2>2. w.dest = aux.dest /\ w.next = aux.next /\ w.metric = aux.metric
    BY DEF Route
  <2>3. w.time = TIMER_ZERO /\ ~w.garbage
    BY FreshRoute, TimerValues
  <2>. QED BY <1>2, <2>1, <2>2, <2>3 DEF Attributed
<1>3. ASSUME Same PROVE Shape(ResetEntryTimer(r, i))
  <2>1. t \in Route
    BY FreshRoute, TimerValues
  <2>2. t.dest = aux.dest /\ t.next = r[i].next /\ t.metric = r[i].metric
    BY DEF Route
  <2>3. t.time = TIMEOUT /\ ~t.garbage
    BY FreshRoute, TimerValues
  <2>4. ResetEntryTimer(r, i) = [r EXCEPT ![i] = t]
    BY DEF ResetEntryTimer
  <2>5. [r EXCEPT ![i] = t] = Moved(r, i, i, t)
    BY DEF Moved, Table
  <2>. QED BY <1>3, <2>1, <2>2, <2>3, <2>4, <2>5 DEF Attributed
<1>4. ASSUME Same, aux.metric = RIP_INFINITY PROVE Shape(SetDeleteFlag(r, i))
  <2>1. z \in Route /\ z.dest = aux.dest
    BY TimerValues DEF Route
  <2>2. /\ z.next = r[i].next /\ z.metric = r[i].metric
        /\ z.time = TIMER_ZERO /\ z.garbage = r[i].garbage
    BY DEF Route
  <2>3. SetDeleteFlag(r, i) = [r EXCEPT ![i] = z]
    BY DEF SetDeleteFlag
  <2>4. [r EXCEPT ![i] = z] = Moved(r, i, i, z)
    BY DEF Moved, Table
  <2>. QED BY <1>4, <2>1, <2>2, <2>3, <2>4 DEF Attributed
<1>5. ASSUME r[i].next # aux.next PROVE Shape(r)
  <2>1. r = Moved(r, i, i, r[i])
    BY DEF Moved, Table
  <2>. QED BY <1>5, <2>1 DEF Attributed
<1>6. \/ CompareKnown(r, i, aux) = Adopt(r, i, aux)
      \/ aux.metric = RIP_INFINITY /\ CompareKnown(r, i, aux) = Withdraw(r, i, aux)
      \/ Same /\ CompareKnown(r, i, aux) = ResetEntryTimer(r, i)
      \/ /\ Same /\ aux.metric = RIP_INFINITY
         /\ CompareKnown(r, i, aux) = SetDeleteFlag(r, i)
      \/ r[i].next # aux.next /\ CompareKnown(r, i, aux) = r
  BY DEF CompareKnown
<1>7. Shape(CompareKnown(r, i, aux))
  <2>. HIDE DEF Shape
  <2>. QED BY <1>1, <1>2, <1>3, <1>4, <1>5, <1>6
<1>. QED BY <1>7

\* Learning a destination fills an empty slot with a fresh route.
LEMMA LearnShape ==
  ASSUME NEW r \in Table, HasRoom(r), NEW aux \in Route
  PROVE  LET k == FirstEmpty(r)
             new == [aux EXCEPT !.time = TIMEOUT, !.garbage = FALSE]
         IN  /\ k \in Slots
             /\ r[k] = NULL
             /\ Learn(r, aux) = [r EXCEPT ![k] = new]
             /\ new \in Route
<1> DEFINE k == FirstEmpty(r)
           mid == [aux EXCEPT !.garbage = FALSE]
           new == [aux EXCEPT !.time = TIMEOUT, !.garbage = FALSE]
<1>1. k \in Slots /\ r[k] = NULL
  BY FirstEmptyFact
<1>2. new \in Route
  BY FreshRoute, TimerValues
<1>3. Add(r, aux) = [r EXCEPT ![k] = mid]
  BY DEF Add
<1>4. [mid EXCEPT !.time = TIMEOUT, !.garbage = FALSE] = new
  BY DEF Route
<1>5. Learn(r, aux) = [[r EXCEPT ![k] = mid] EXCEPT ![k] = new]
  BY <1>1, <1>3, <1>4 DEF Learn, ResetEntryTimer, Table
<1>6. [[r EXCEPT ![k] = mid] EXCEPT ![k] = new] = [r EXCEPT ![k] = new]
  BY <1>1 DEF Table
<1>. QED BY <1>1, <1>2, <1>5, <1>6
=============================================================================
