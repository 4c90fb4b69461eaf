-------------------------- MODULE RipServerProofs --------------------------
(***************************************************************************)
(* What the daemon of RipServer keeps true for every number of slots,      *)
(* destinations and routers, every message and every length of the timers. *)
(***************************************************************************)
EXTENDS RipServerLife, RipTableProofs

---------------------------------------------------------------------------
(* The inductive invariant. *)

\* A route with life left and no flag either sits in a slot whose countdown is
\* disarmed or was refreshed in this turn and outlives it: however far the clock
\* moves before the collector runs, it is not taken for an expired route whose
\* countdown is over.
LifeOutlastsTurn ==
    \A i \in Slots :
        routes[i] # NULL /\ ~routes[i].garbage /\ routes[i].time > 0 =>
            \/ gc_timers[i] = INFINITE_TIMER
            \/ routes[i].time > MaxLag - lag

\* A route that expires between garbage_collector_start and garbage_collector
\* does so in a slot whose countdown is disarmed.
LateExpiryIsDisarmed ==
    pc = "gc" =>
        \A i \in Slots :
            routes[i] # NULL /\ ~routes[i].garbage /\ routes[i].time = TIMER_ZERO
              => gc_timers[i] = INFINITE_TIMER

TableInv == TypeOK /\ UniqueDest
CountdownInv == FlagMeansCountdown /\ LifeOutlastsTurn /\ LateExpiryIsDisarmed
IInv == TableInv /\ CountdownInv

---------------------------------------------------------------------------
(* The effect of one entry on the table, from the shapes of RipTableProofs. *)

\* The route built for the current entry is a route.
LEMMA AuxType ==
  ASSUME TypeOK, pc = "compare", entries # <<>>
  PROVE  Aux \in Route /\ Tail(entries) \in Seq(Entry)
<1>1. Head(entries) \in Entry /\ Tail(entries) \in Seq(Entry)
  BY DEF TypeOK
<1>2. Head(entries).dest \in Dest /\ Head(entries).metric \in Nat
  BY <1>1 DEF Entry
<1>3. src \in Router
  BY DEF TypeOK
<1>4. Aux \in Route
  BY <1>2, <1>3, TimerValues DEF Aux, RouteAux, Route
<1>. QED BY <1>1, <1>4

\* Processing an entry leaves the table alone, replaces one route by another to
\* the same destination, or puts a new destination in an empty slot.
LEMMA CompareEntryShape ==
  ASSUME TypeOK, CompareEntry
  PROVE  \/ routes' = routes /\ ~NeedsSlot(routes, Aux)
         \/ /\ ~NeedsSlot(routes, Aux)
            /\ \E i, k \in Slots, new \in Route :
                 /\ Holds(routes, i, Aux.dest)
                 /\ k = i \/ routes[k] = NULL
                 /\ routes' = Moved(routes, i, k, new)
                 /\ new.dest = Aux.dest
                 /\ Outcome(routes, i, k, new)
         \/ /\ NeedsSlot(routes, Aux)
            /\ \E k \in Slots, new \in Route :
                 /\ routes[k] = NULL
                 /\ routes' = [routes EXCEPT ![k] = new]
                 /\ new.dest = Aux.dest
                 /\ new.time = TIMEOUT
                 /\ ~new.garbage
<1>0. Aux \in Route /\ routes \in Table /\ routes' = CompareEntries(routes, Aux)
  BY AuxType DEF CompareEntry, TypeOK
<1>1. CASE Known(routes, Aux.dest)
  <2> DEFINE i == FirstOf(routes, Aux.dest)
  <2>1. i \in Slots /\ Holds(routes, i, Aux.dest)
    BY <1>1, FirstOfFact
  <2>2. routes' = CompareKnown(routes, i, Aux)
    BY <1>0, <1>1 DEF CompareEntries
  <2>3. ~NeedsSlot(routes, Aux)
    BY <1>1 DEF NeedsSlot
  <2>4. PICK k \in Slots, new \in Route :
           /\ k = i \/ routes[k] = NULL
           /\ CompareKnown(routes, i, Aux) = Moved(routes, i, k, new)
           /\ new.dest = Aux.dest
           /\ Outcome(routes, i, k, new)
    BY <1>0, <2>1, CompareKnownShape
  <2>. HIDE DEF i
  <2>. QED BY <2>1, <2>2, <2>3, <2>4
<1>2. CASE ~Known(routes, Aux.dest) /\ Acceptable(Aux)
  <2>1. NeedsSlot(routes, Aux) /\ HasRoom(routes)
    BY <1>2 DEF NeedsSlot, CompareEntry
  <2>2. routes' = Learn(routes, Aux)
    BY <1>0, <1>2 DEF CompareEntries
  <2> DEFINE k == FirstEmpty(routes)
             new == [Aux EXCEPT !.time = TIMEOUT, !.garbage = FALSE]
  <2>3. /\ k \in Slots /\ routes[k] = NULL
        /\ Learn(routes, Aux) = [routes EXCEPT ![k] = new] /\ new \in Route
    BY <1>0, <2>1, LearnShape
  <2>4. new.dest = Aux.dest /\ new.time = TIMEOUT /\ ~new.garbage
    BY <1>0, FreshRoute, TimerValues
  <2>. HIDE DEF k, new
  <2>. QED BY <2>1, <2>2, <2>3, <2>4
<1>3. CASE ~Known(routes, Aux.dest) /\ ~Acceptable(Aux)
  BY <1>0, <1>3 DEF CompareEntries, NeedsSlot
<1>. QED BY <1>1, <1>2, <1>3

---------------------------------------------------------------------------
(* Type correctness. *)

\* A table read from a file is a table.
LEMMA FileTableType ==
  ASSUME NEW f \in Files
  PROVE  FileTable(f) \in Table /\ Len(f) \in Nat /\ Len(f) <= RIP_ROUTE_TABLE_SIZE
<1>1. f \in Seq(FileRoute) /\ Len(f) \in Nat /\ Len(f) <= RIP_ROUTE_TABLE_SIZE
  BY FilesAssumption
<1>2. INFINITE_TIMER \in TimeLeft(TIMEOUT)
  BY TimeoutAssumption DEF TimeLeft, INFINITE_TIMER
<1>3. ASSUME NEW i \in Slots, i < Len(f)
      PROVE  [dest |-> f[i + 1].dest, next |-> f[i + 1].next,
              metric |-> f[i + 1].metric, time |-> INFINITE_TIMER,
              garbage |-> FALSE] \in Route
  <2>1. i + 1 \in 1 .. Len(f)
    BY <1>1, <1>3, SizeAssumption DEF Slots
  <2>2. f[i + 1] \in FileRoute
    BY <1>1, <2>1
  <2>. QED BY <1>2, <2>2 DEF FileRoute, Route
<1>. QED BY <1>1, <1>3 DEF FileTable, Table

LEMMA InitTypeOK == Init => TypeOK
<1>. SUFFICES ASSUME Init PROVE TypeOK
  OBVIOUS
<1>1. routes \in Table /\ num_entries \in Int
  BY FileTableType DEF Init
<1>2. gc_timers \in [Slots -> TimeLeft(GARBAGE_COLLECTOR)]
  <2>1. TIMER_ZERO \in TimeLeft(GARBAGE_COLLECTOR)
    BY GarbageAssumption DEF TimeLeft, TIMER_ZERO, INFINITE_TIMER
  <2>. QED BY <2>1 DEF Init
<1>3. update_timer \in Nat /\ lag \in 0 .. MaxLag
  BY UpdateAssumption, LagAssumption DEF Init
<1>4. src \in Router /\ entries \in Seq(Entry)
  BY SenderAssumption DEF Init
<1>. QED BY <1>1, <1>2, <1>3, <1>4 DEF Init, TypeOK

\* What a receive can put in the entries of the message is a sequence of them.
LEMMA BodyType ==
  ASSUME NEW body \in Body(MessageMetrics)
  PROVE  /\ body \in Seq(Entry)
         /\ [k \in 1 .. Len(body) |->
               [body[k] EXCEPT !.metric = UpdateMetric(@)]] \in Seq(Entry)
         /\ [k \in 1 .. Len(body) |-> body[k]] = body
         /\ body # <<>> => body[1] \in Entry
<1>1. PICK n \in 0 .. MaxEntries :
         body \in [1 .. n -> [dest: Dest, metric: MessageMetrics]]
  BY DEF Body
<1>2. body \in [1 .. n -> Entry] /\ n \in Nat
  <2>1. [dest: Dest, metric: MessageMetrics] \subseteq Entry
    BY MessageMetricAssumption DEF Entry
  <2>2. n \in Nat
    BY EntriesAssumption
  <2>. QED BY <1>1, <2>1, <2>2
<1>3. body \in Seq(Entry) /\ Len(body) = n
  BY <1>2
<1>4. ASSUME NEW k \in 1 .. n
      PROVE  [body[k] EXCEPT !.metric = UpdateMetric(@)] \in Entry
  <2>1. body[k] \in Entry
    BY <1>2
  <2>2. UpdateMetric(body[k].metric) \in Nat
    BY <2>1, MetricAssumption DEF UpdateMetric, Entry
  <2>. QED BY <2>1, <2>2 DEF Entry
<1>5. [k \in 1 .. Len(body) |-> [body[k] EXCEPT !.metric = UpdateMetric(@)]] \in Seq(Entry)
  BY <1>2, <1>3, <1>4
<1>. QED BY <1>2, <1>3, <1>5

\* The collector, its start and the clock keep tables and countdowns typed.
LEMMA SweepType ==
  ASSUME TypeOK
  PROVE  /\ Flagged(routes) \in Table
         /\ Swept(routes, gc_timers) \in Table
         /\ Disarmed(routes, gc_timers) \in [Slots -> TimeLeft(GARBAGE_COLLECTOR)]
         /\ \A dests : Unflagged(routes, dests) \in Table
<1>1. ASSUME NEW i \in Slots, NEW b \in BOOLEAN, routes[i] # NULL
      PROVE  [routes[i] EXCEPT !.garbage = b] \in Route
  BY <1>1 DEF TypeOK, Table, Route
<1>2. Flagged(routes) \in Table
  BY <1>1 DEF Flagged, Arms, TypeOK, Table
<1>3. Swept(routes, gc_timers) \in Table
  BY <1>1 DEF Swept, Revives, TypeOK, Table
<1>4. Disarmed(routes, gc_timers) \in [Slots -> TimeLeft(GARBAGE_COLLECTOR)]
  <2>1. INFINITE_TIMER \in TimeLeft(GARBAGE_COLLECTOR)
    BY GarbageAssumption DEF TimeLeft, INFINITE_TIMER
  <2>. QED BY <2>1 DEF Disarmed, TypeOK
<1>5. \A dests : Unflagged(routes, dests) \in Table
  BY <1>1 DEF Unflagged, Asked, TypeOK, Table
<1>. QED BY <1>2, <1>3, <1>4, <1>5

LEMMA ElapseType ==
  ASSUME NEW n \in Nat, NEW t \in TimeLeft(n)
  PROVE  Elapse(t) \in TimeLeft(n)
BY DEF Elapse, TimeLeft, INFINITE_TIMER

LEMMA TypeStep == TypeOK /\ [Next]_vars => TypeOK'
<1>. SUFFICES ASSUME TypeOK, [Next]_vars PROVE TypeOK'
  OBVIOUS
<1>0. \A S, k : HeadAfterSend(S, k) \subseteq BOOLEAN
  BY DEF HeadAfterSend, Unreachable, TypeOK
<1>1. CASE PeriodicUpdate
  BY <1>0, <1>1, UpdateAssumption DEF PeriodicUpdate, SendTable, Send, TypeOK, table, message
<1>2. CASE NoUpdateYet
  BY <1>2 DEF NoUpdateYet, TypeOK, table, message
<1>3. CASE RecvTimeout
  BY <1>3 DEF RecvTimeout, TypeOK, table, message
<1>4. CASE RecvResponse
  <2>1. PICK from \in Senders, body \in Body(MessageMetrics) :
          /\ Receive(from, body)
          /\ entries' = [k \in 1 .. Len(body) |->
               [body[k] EXCEPT !.metric = IF from = Self THEN @ ELSE UpdateMetric(@)]]
          /\ pc' = "compare"
    BY <1>4 DEF RecvResponse
  <2>2. entries' \in Seq(Entry)
    <3>1. CASE from # Self
      BY <2>1, <3>1, BodyType
    <3>2. CASE from = Self
      <4>1. PICK n \in 0 .. MaxEntries :
              body \in [1 .. n -> [dest: Dest, metric: MessageMetrics]]
        BY DEF Body
      <4>2. Len(body) = n /\ n \in Nat
        BY <4>1, EntriesAssumption
      <4>3. \A k \in 1 .. n : [body[k] EXCEPT !.metric = @] = body[k]
        BY <4>1
      <4>4. entries' = body
        BY <2>1, <3>2, <4>1, <4>2, <4>3
      <4>. QED BY <4>4, BodyType
    <3>. QED BY <3>1, <3>2
  <2>3. src' \in Router
    BY <2>1, SenderAssumption DEF Receive
  <2>. QED BY <2>1, <2>2, <2>3 DEF Receive, TypeOK, table
<1>5. CASE RecvRequest
  <2>1. PICK from \in Senders, body \in Body(MessageMetrics) :
          Receive(from, body) /\ entries' = body /\ pc' = "answer"
    BY <1>5 DEF RecvRequest
  <2>. QED BY <2>1, BodyType, SenderAssumption DEF Receive, TypeOK, table
<1>6. CASE RecvOther
  <2>1. PICK from \in Senders, body \in Body(MessageMetrics) :
          Receive(from, body) /\ entries' = <<>> /\ pc' = "gc_start"
    BY <1>6 DEF RecvOther
  <2>2. src' \in Router /\ entries' \in Seq(Entry)
    BY <2>1, SenderAssumption DEF Receive
  <2>3. head_inf' \in BOOLEAN
    BY <2>1 DEF Receive, TypeOK
  <2>. QED BY <2>1, <2>2, <2>3 DEF Receive, TypeOK, table
<1>7. CASE CompareEntry
  <2>1. routes' \in Table
    <3>1. CASE routes' = routes
      BY <3>1 DEF TypeOK
    <3>2. ASSUME NEW i \in Slots, NEW k \in Slots, NEW new \in Route,
                 routes' = Moved(routes, i, k, new)
          PROVE  routes' \in Table
      BY <3>2 DEF Moved, TypeOK, Table
    <3>3. ASSUME NEW k \in Slots, NEW new \in Route,
                 routes' = [routes EXCEPT ![k] = new]
          PROVE  routes' \in Table
      BY <3>3 DEF TypeOK, Table
    <3>. QED BY <1>7, <3>1, <3>2, <3>3, CompareEntryShape
  <2>2. entries' \in Seq(Entry)
    BY <1>7, AuxType DEF CompareEntry
  <2>3. changes' \in BOOLEAN /\ num_entries' \in Int
    BY <1>7 DEF CompareEntry, TypeOK
  <2>. QED BY <1>7, <2>1, <2>2, <2>3 DEF CompareEntry, TypeOK
<1>8. CASE AddToFullTable
  BY <1>8 DEF AddToFullTable, TypeOK, table, message
<1>9. CASE TriggeredUpdate
  BY <1>0, <1>9 DEF TriggeredUpdate, SendTable, Send, TypeOK, table
<1>10. CASE NothingChanged
  BY <1>10 DEF NothingChanged, TypeOK, table, message
<1>11. CASE AnswerWhole
  BY <1>0, <1>11 DEF AnswerWhole, SendTable, Send, TypeOK, table
<1>12. CASE AnswerSpecific
  BY <1>0, <1>12, SweepType DEF AnswerSpecific, Send, TypeOK
<1>13. CASE GarbageCollectorStart
  <2>1. GARBAGE_COLLECTOR \in TimeLeft(GARBAGE_COLLECTOR)
    BY GarbageAssumption DEF TimeLeft, INFINITE_TIMER
  <2>. QED BY <1>13, <2>1, SweepType DEF GarbageCollectorStart, TypeOK, message
<1>14. CASE GarbageCollector
  <2>1. num_entries' \in Int
    <3> DEFINE C == {i \in Slots : Collects(routes, gc_timers, i)}
    <3>1. IsFiniteSet(Slots) /\ C \in SUBSET Slots
      BY SizeAssumption, FS_Interval DEF Slots
    <3>2. Cardinality(C) \in Nat
      BY <3>1, FS_Subset, FS_CardinalityType
    <3>. QED BY <1>14, <3>2 DEF GarbageCollector, TypeOK
  <2>. QED BY <1>14, <2>1, SweepType, LagAssumption DEF GarbageCollector, TypeOK, message
<1>15. CASE Tick
  <2>1. routes' \in Table
    <3>1. ASSUME NEW i \in Slots, routes[i] # NULL
          PROVE  [routes[i] EXCEPT !.time = Elapse(@)] \in Route
      <4>1. routes[i] \in Route
        BY <3>1 DEF TypeOK, Table
      <4>2. Elapse(routes[i].time) \in TimeLeft(TIMEOUT)
        BY <4>1, ElapseType, TimeoutAssumption DEF Route
      <4>. QED BY <4>1, <4>2 DEF Route
    <3>. QED BY <1>15, <3>1 DEF Tick, Table
  <2>2. gc_timers' \in [Slots -> TimeLeft(GARBAGE_COLLECTOR)]
    <3>1. \A i \in Slots : Elapse(gc_timers[i]) \in TimeLeft(GARBAGE_COLLECTOR)
      BY ElapseType, GarbageAssumption DEF TypeOK
    <3>. QED BY <1>15, <3>1 DEF Tick
  <2>3. update_timer' \in Nat /\ lag' \in 0 .. MaxLag
    BY <1>15, LagAssumption DEF Tick, TypeOK, Elapse
  <2>. QED BY <1>15, <2>1, <2>2, <2>3 DEF Tick, TypeOK, message
<1>16. CASE UNCHANGED vars
  BY <1>16 DEF vars, TypeOK
<1>. QED BY <1>1, <1>2, <1>3, <1>4, <1>5, <1>6, <1>7, <1>8, <1>9, <1>10,
            <1>11, <1>12, <1>13, <1>14, <1>15, <1>16 DEF Next, Loop

\* Type correctness of the daemon: its table, countdowns, timers, message and
\* place in the loop stay within their types.
THEOREM TypeCorrect == Spec => []TypeOK
<1>. QED BY InitTypeOK, TypeStep, PTL DEF Spec

---------------------------------------------------------------------------
(* How each step touches the table.  Only five actions do. *)

Quiet ==
    \/ PeriodicUpdate \/ NoUpdateYet \/ RecvTimeout \/ RecvResponse
    \/ RecvRequest \/ RecvOther \/ AddToFullTable \/ TriggeredUpdate
    \/ NothingChanged \/ AnswerWhole

LEMMA NextCases ==
  Next => \/ Quiet \/ CompareEntry \/ AnswerSpecific
          \/ GarbageCollectorStart \/ GarbageCollector \/ Tick
BY DEF Next, Loop, Quiet

\* Sending and receiving leave the table and its countdowns as they are.
LEMMA QuietKeepsTable ==
  ASSUME Quiet \/ UNCHANGED vars
  PROVE  /\ routes' = routes /\ num_entries' = num_entries
         /\ gc_timers' = gc_timers /\ lag' = lag
         /\ pc' = "gc" => pc = "gc"
<1>1. CASE PeriodicUpdate \/ NoUpdateYet \/ RecvTimeout \/ AddToFullTable
  BY <1>1 DEF PeriodicUpdate, NoUpdateYet, RecvTimeout, AddToFullTable, table
<1>2. CASE RecvResponse \/ RecvRequest \/ RecvOther
  BY <1>2 DEF RecvResponse, RecvRequest, RecvOther, Receive, table
<1>3. CASE TriggeredUpdate \/ NothingChanged \/ AnswerWhole
  BY <1>3 DEF TriggeredUpdate, NothingChanged, AnswerWhole, table
<1>4. CASE UNCHANGED vars
  BY <1>4 DEF vars
<1>. QED BY <1>1, <1>2, <1>3, <1>4 DEF Quiet

\* Requests, the start of a countdown and the clock change routes in place.
LEMMA InPlace ==
  ASSUME TypeOK, AnswerSpecific \/ GarbageCollectorStart \/ Tick
  PROVE  \A i \in Slots :
           /\ routes'[i] = NULL <=> routes[i] = NULL
           /\ routes[i] # NULL => routes'[i].dest = routes[i].dest
<1>. SUFFICES ASSUME NEW i \in Slots, routes[i] # NULL
              PROVE  routes'[i] # NULL /\ routes'[i].dest = routes[i].dest
  BY DEF AnswerSpecific, GarbageCollectorStart, Tick, Unflagged, Asked, Flagged,
         Arms
<1>1. routes[i] \in Route
  BY DEF TypeOK, Table
<1>2. ASSUME NEW b \in BOOLEAN
      PROVE  /\ [routes[i] EXCEPT !.garbage = b] # NULL
             /\ [routes[i] EXCEPT !.garbage = b].dest = routes[i].dest
  BY <1>1, NullAssumption DEF Route
<1>3. CASE AnswerSpecific
  BY <1>2, <1>3 DEF AnswerSpecific, Unflagged
<1>4. CASE GarbageCollectorStart
  BY <1>2, <1>4 DEF GarbageCollectorStart, Flagged
<1>5. CASE Tick
  <2>1. Elapse(routes[i].time) \in TimeLeft(TIMEOUT)
    BY <1>1, ElapseType, TimeoutAssumption DEF Route
  <2>2. [routes[i] EXCEPT !.time = Elapse(@)] \in Route
    BY <1>1, <2>1 DEF Route
  <2>. QED BY <1>1, <1>5, <2>2, NullAssumption DEF Tick, Route
<1>. QED BY <1>3, <1>4, <1>5

\* The collector empties the slots it collects and keeps the other destinations.
LEMMA SweepEmpties ==
  ASSUME TypeOK, GarbageCollector
  PROVE  \A i \in Slots :
           /\ routes'[i] = NULL <=> routes[i] = NULL \/ Collects(routes, gc_timers, i)
           /\ routes'[i] # NULL => routes'[i].dest = routes[i].dest
<1>. SUFFICES ASSUME NEW i \in Slots
              PROVE  /\ routes'[i] = NULL <=> routes[i] = NULL \/ Collects(routes, gc_timers, i)
                     /\ routes'[i] # NULL => routes'[i].dest = routes[i].dest
  OBVIOUS
<1>1. routes'[i] = IF Collects(routes, gc_timers, i) THEN NULL
                   ELSE IF Revives(routes, i) THEN [routes[i] EXCEPT !.garbage = FALSE]
                   ELSE routes[i]
  BY DEF GarbageCollector, Swept
<1>2. CASE routes[i] = NULL
  BY <1>1, <1>2 DEF Revives, Collects
<1>3. CASE routes[i] # NULL
  <2>1. routes[i] \in Route
    BY <1>3 DEF TypeOK, Table
  <2>2. /\ [routes[i] EXCEPT !.garbage = FALSE] # NULL
        /\ [routes[i] EXCEPT !.garbage = FALSE].dest = routes[i].dest
    BY <2>1, NullAssumption DEF Route
  <2>. QED BY <1>1, <1>3, <2>2
<1>. QED BY <1>2, <1>3

---------------------------------------------------------------------------
(* One slot for each destination. *)

LEMMA InitUniqueDest == Init => UniqueDest
<1>. SUFFICES ASSUME Init,
                     NEW i \in Slots, NEW j \in Slots,
                     routes[i] # NULL, routes[j] # NULL,
                     routes[i].dest = routes[j].dest
              PROVE  i = j
  BY DEF UniqueDest
<1>1. PICK f \in Files : routes = FileTable(f)
  BY DEF Init
<1>2. Len(f) \in Nat
  BY FileTableType
<1>3. i < Len(f) /\ j < Len(f) /\ f[i + 1].dest = f[j + 1].dest
  BY <1>1 DEF FileTable
<1>4. i + 1 \in 1 .. Len(f) /\ j + 1 \in 1 .. Len(f)
  BY <1>2, <1>3, SizeAssumption DEF Slots
<1>5. i + 1 = j + 1
  BY <1>3, <1>4, FilesAssumption
<1>. QED BY <1>5, SizeAssumption DEF Slots

LEMMA UniqueDestStep ==
  ASSUME TypeOK, UniqueDest, [Next]_vars
  PROVE  UniqueDest'
<1>1. ASSUME \A i \in Slots : routes'[i] # NULL =>
               routes[i] # NULL /\ routes'[i].dest = routes[i].dest
      PROVE  UniqueDest'
  BY <1>1 DEF UniqueDest
<1>2. CASE Quiet \/ UNCHANGED vars
  BY <1>2, QuietKeepsTable DEF UniqueDest
<1>3. CASE CompareEntry
  <2>1. CASE routes' = routes
    BY <2>1 DEF UniqueDest
  <2>2. ASSUME NEW i \in Slots, NEW k \in Slots, NEW new \in Route,
               Holds(routes, i, Aux.dest), k = i \/ routes[k] = NULL,
               routes' = Moved(routes, i, k, new), new.dest = Aux.dest
        PROVE  UniqueDest'
    BY <2>2 DEF UniqueDest, Moved, Holds
  <2>3. ASSUME NEW k \in Slots, NEW new \in Route, NeedsSlot(routes, Aux),
               routes' = [routes EXCEPT ![k] = new], new.dest = Aux.dest
        PROVE  UniqueDest'
    <3>1. \A j \in Slots : routes[j] # NULL => routes[j].dest # Aux.dest
      BY <2>3 DEF NeedsSlot, Known, Holds
    <3>. QED BY <2>3, <3>1 DEF UniqueDest, TypeOK, Table
  <2>. QED BY <1>3, <2>1, <2>2, <2>3, CompareEntryShape
<1>4. CASE AnswerSpecific \/ GarbageCollectorStart \/ Tick
  BY <1>1, <1>4, InPlace
<1>5. CASE GarbageCollector
  BY <1>1, <1>5, SweepEmpties
<1>. QED BY <1>2, <1>3, <1>4, <1>5, NextCases

\* For any number of slots and destinations, no interleaving of announcements,
\* withdrawals, moves and collections leaves a destination in two slots.
THEOREM DestinationsAreUnique == Spec => []UniqueDest
<1>1. Init => TableInv
  BY InitTypeOK, InitUniqueDest DEF TableInv
<1>2. TableInv /\ [Next]_vars => TableInv'
  BY TypeStep, UniqueDestStep DEF TableInv
<1>3. TableInv => UniqueDest
  BY DEF TableInv
<1>. QED BY <1>1, <1>2, <1>3, PTL DEF Spec

---------------------------------------------------------------------------
(* The table never overflows when the network fits in it. *)

\* A full table of distinct destinations that misses one needs a larger network
\* than it has slots: the pigeonhole argument behind NeverDies.
LEMMA FullTableKnowsAll ==
  ASSUME TypeOK, UniqueDest, ~HasRoom(routes), NEW d \in Dest,
         IsFiniteSet(Dest), Cardinality(Dest) <= RIP_ROUTE_TABLE_SIZE
  PROVE  Known(routes, d)
<1>. SUFFICES ASSUME ~Known(routes, d) PROVE FALSE
  OBVIOUS
<1> DEFINE f == [i \in Slots |-> routes[i].dest]
           T == Dest \ {d}
<1>1. \A i \in Slots : routes[i] # NULL /\ routes[i] \in Route
  BY DEF HasRoom, TypeOK, Table
<1>2. f \in [Slots -> T]
  BY <1>1 DEF Known, Holds, Route
<1>3. IsFiniteSet(Slots) /\ Cardinality(Slots) = RIP_ROUTE_TABLE_SIZE
  BY SizeAssumption, FS_Interval DEF Slots
<1>4. IsFiniteSet(T) /\ Cardinality(T) = Cardinality(Dest) - 1 /\ Cardinality(Dest) \in Nat
  BY FS_RemoveElement, FS_CardinalityType
<1>5. Cardinality(T) < Cardinality(Slots)
  BY <1>3, <1>4, SizeAssumption
<1>. HIDE DEF f, T
<1>6. PICK i \in Slots, j \in Slots : i # j /\ f[i] = f[j]
  BY <1>2, <1>3, <1>4, <1>5, FS_PigeonHole
<1>7. routes[i].dest = routes[j].dest
  BY <1>6 DEF f
<1>. QED BY <1>1, <1>6, <1>7 DEF UniqueDest

\* The daemon never dies adding a route when the network has no more
\* destinations than the table has slots, however routes come and go.
THEOREM SmallNetworkNeverDies ==
  ASSUME IsFiniteSet(Dest), Cardinality(Dest) <= RIP_ROUTE_TABLE_SIZE
  PROVE  Spec => []NeverDies
<1>1. Init => TableInv /\ NeverDies
  BY InitTypeOK, InitUniqueDest DEF TableInv, Init, NeverDies
<1>2. TableInv /\ NeverDies /\ [Next]_vars => TableInv' /\ NeverDies'
  <2>. SUFFICES ASSUME TableInv, NeverDies, [Next]_vars PROVE NeverDies'
    BY TypeStep, UniqueDestStep DEF TableInv
  <2>1. ~AddToFullTable
    <3>. SUFFICES ASSUME AddToFullTable PROVE FALSE
      OBVIOUS
    <3>1. Aux \in Route /\ ~Known(routes, Aux.dest) /\ ~HasRoom(routes)
      BY AuxType DEF AddToFullTable, NeedsSlot, TableInv
    <3>2. Aux.dest \in Dest
      BY <3>1 DEF Route
    <3>. QED BY <3>1, <3>2, FullTableKnowsAll DEF TableInv
  <2>2. CASE Quiet
    BY <2>1, <2>2 DEF Quiet, NeverDies, PeriodicUpdate, NoUpdateYet, RecvTimeout,
       RecvResponse, RecvRequest, RecvOther, TriggeredUpdate, NothingChanged,
       AnswerWhole
  <2>3. CASE CompareEntry \/ AnswerSpecific
    BY <2>3 DEF NeverDies, CompareEntry, AnswerSpecific
  <2>4. CASE GarbageCollectorStart \/ GarbageCollector \/ Tick
    BY <2>4 DEF NeverDies, GarbageCollectorStart, GarbageCollector, Tick, message
  <2>5. CASE UNCHANGED vars
    BY <2>5 DEF NeverDies, vars
  <2>. QED BY <2>2, <2>3, <2>4, <2>5, NextCases
<1>. QED BY <1>1, <1>2, PTL DEF Spec

---------------------------------------------------------------------------
(* Countdowns and flags. *)

LEMMA InitCountdown == Init => CountdownInv
<1>. SUFFICES ASSUME Init PROVE CountdownInv
  OBVIOUS
<1>1. PICK f \in Files : routes = FileTable(f)
  BY DEF Init
<1>2. \A i \in Slots : routes[i] # NULL =>
         routes[i].time = INFINITE_TIMER /\ ~routes[i].garbage
  BY <1>1 DEF FileTable
<1>3. pc # "gc"
  BY DEF Init
<1>. QED BY <1>2, <1>3 DEF CountdownInv, FlagMeansCountdown, LifeOutlastsTurn,
            LateExpiryIsDisarmed, INFINITE_TIMER

\* One slot at a time: a slot that keeps its route and countdown keeps both
\* properties, and so does one that takes an unflagged expired or fresh route.
LEMMA CompareKeepsCountdown ==
  ASSUME TypeOK, CountdownInv, CompareEntry
  PROVE  CountdownInv'
<1>1. gc_timers' = gc_timers /\ lag' = lag /\ pc' = "compare"
  BY DEF CompareEntry
<1>2. LateExpiryIsDisarmed'
  BY <1>1 DEF LateExpiryIsDisarmed
<1>3. lag \in 0 .. MaxLag /\ TIMEOUT > MaxLag - lag /\ MaxLag \in Nat
  BY LagAssumption, TimeoutAssumption DEF TypeOK
<1> DEFINE Good(new, j) ==
      /\ new.garbage => new.time = TIMER_ZERO /\ gc_timers[j] \in 0 .. GARBAGE_COLLECTOR
      /\ ~new.garbage /\ new.time > 0 =>
           gc_timers[j] = INFINITE_TIMER \/ new.time > MaxLag - lag
<1>4. \A j \in Slots : routes[j] # NULL => Good(routes[j], j)
  BY DEF CountdownInv, FlagMeansCountdown, LifeOutlastsTurn
<1>5. SUFFICES \A j \in Slots : routes'[j] # NULL => Good(routes'[j], j)
  BY <1>1, <1>2, <1>5 DEF CountdownInv, FlagMeansCountdown, LifeOutlastsTurn
<1>6. CASE routes' = routes
  BY <1>4, <1>6
<1>7. ASSUME NEW i \in Slots, NEW k \in Slots, NEW new \in Route,
             Holds(routes, i, Aux.dest), Outcome(routes, i, k, new)
      PROVE  Good(new, k)
  <2>1. CASE ~new.garbage /\ new.time \in {TIMER_ZERO, TIMEOUT}
    BY <1>3, <2>1 DEF TIMER_ZERO
  <2>2. CASE k = i /\ new = routes[i]
    BY <1>4, <1>7, <2>2 DEF Holds
  <2>3. CASE k = i /\ new = [routes[i] EXCEPT !.time = TIMER_ZERO]
    <3>1. routes[i] \in Route /\ routes[i] # NULL
      BY <1>7 DEF TypeOK, Table, Holds
    <3>2. new.time = TIMER_ZERO /\ new.garbage = routes[i].garbage
      BY <2>3, <3>1 DEF Route
    <3>. QED BY <1>4, <2>3, <3>1, <3>2 DEF TIMER_ZERO
  <2>. QED BY <1>7, <2>1, <2>2, <2>3 DEF Outcome
<1>8. ASSUME NEW i \in Slots, NEW k \in Slots, NEW new \in Route,
             Holds(routes, i, Aux.dest), Outcome(routes, i, k, new),
             routes' = Moved(routes, i, k, new)
      PROVE  \A j \in Slots : routes'[j] # NULL => Good(routes'[j], j)
  <2>1. Good(new, k)
    BY <1>7, <1>8
  <2>2. \A j \in Slots : routes'[j] = IF j = k THEN new ELSE IF j = i THEN NULL
                                     ELSE routes[j]
    BY <1>8 DEF Moved
  <2>. HIDE DEF Good
  <2>. QED BY <1>4, <2>1, <2>2
<1>9. ASSUME NEW k \in Slots, NEW new \in Route, new.time = TIMEOUT, ~new.garbage,
             routes' = [routes EXCEPT ![k] = new]
      PROVE  \A j \in Slots : routes'[j] # NULL => Good(routes'[j], j)
  <2>1. Good(new, k)
    BY <1>3, <1>9
  <2>2. \A j \in Slots : routes'[j] = IF j = k THEN new ELSE routes[j]
    BY <1>9 DEF TypeOK, Table
  <2>. HIDE DEF Good
  <2>. QED BY <1>4, <2>1, <2>2
<1>. HIDE DEF Good
<1>. QED BY <1>6, <1>8, <1>9, CompareEntryShape

\* Clearing flags for a request only ever clears those of expired routes.
LEMMA RequestKeepsCountdown ==
  ASSUME TypeOK, CountdownInv, AnswerSpecific
  PROVE  CountdownInv'
<1>1. gc_timers' = gc_timers /\ lag' = lag /\ pc' = "gc_start"
  BY DEF AnswerSpecific
<1>2. ASSUME NEW i \in Slots, routes'[i] # NULL
      PROVE  /\ routes[i] # NULL
             /\ routes'[i].time = routes[i].time
             /\ routes'[i].garbage => routes[i].garbage /\ routes'[i] = routes[i]
  <2>1. routes[i] # NULL
    BY <1>2, InPlace
  <2>2. routes[i] \in Route
    BY <2>1 DEF TypeOK, Table
  <2>3. routes'[i] \in {routes[i], [routes[i] EXCEPT !.garbage = FALSE]}
    BY DEF AnswerSpecific, Unflagged
  <2>. QED BY <2>1, <2>2, <2>3 DEF Route
<1>3. FlagMeansCountdown'
  BY <1>1, <1>2 DEF CountdownInv, FlagMeansCountdown
<1>4. LifeOutlastsTurn'
  BY <1>1, <1>2 DEF CountdownInv, FlagMeansCountdown, LifeOutlastsTurn, TIMER_ZERO
<1>. QED BY <1>1, <1>3, <1>4 DEF CountdownInv, LateExpiryIsDisarmed

\* Arming a countdown flags exactly the expired routes without one.
LEMMA StartKeepsCountdown ==
  ASSUME TypeOK, CountdownInv, GarbageCollectorStart
  PROVE  CountdownInv'
<1>1. lag' = lag
  BY DEF GarbageCollectorStart
<1>2. ASSUME NEW i \in Slots, routes'[i] # NULL
      PROVE  \/ /\ ~Arms(routes, i) /\ routes'[i] = routes[i]
                /\ gc_timers'[i] = gc_timers[i]
             \/ /\ routes'[i].garbage /\ routes'[i].time = TIMER_ZERO
                /\ gc_timers'[i] = GARBAGE_COLLECTOR
  <2>1. CASE ~Arms(routes, i)
    BY <2>1 DEF GarbageCollectorStart, Flagged
  <2>2. CASE Arms(routes, i)
    <3>1. routes[i] \in Route /\ routes[i].time = TIMER_ZERO
      BY <2>2 DEF Arms, TypeOK, Table
    <3>2. routes'[i] = [routes[i] EXCEPT !.garbage = TRUE]
      BY <2>2 DEF GarbageCollectorStart, Flagged
    <3>3. gc_timers'[i] = GARBAGE_COLLECTOR
      BY <2>2 DEF GarbageCollectorStart
    <3>. QED BY <3>1, <3>2, <3>3 DEF Route
  <2>. QED BY <2>1, <2>2
<1>3. FlagMeansCountdown'
  BY <1>2, GarbageAssumption DEF CountdownInv, FlagMeansCountdown
<1>4. LifeOutlastsTurn'
  BY <1>1, <1>2 DEF CountdownInv, LifeOutlastsTurn
<1>5. LateExpiryIsDisarmed'
  BY <1>2 DEF LateExpiryIsDisarmed, Arms
<1>. QED BY <1>3, <1>4, <1>5 DEF CountdownInv

\* Every route the collector leaves alive has its countdown disarmed.
LEMMA CollectorKeepsCountdown ==
  ASSUME TypeOK, CountdownInv, GarbageCollector
  PROVE  CountdownInv'
<1>1. pc' = "update"
  BY DEF GarbageCollector
<1>2. ASSUME NEW i \in Slots, routes'[i] # NULL
      PROVE  \/ /\ Revives(routes, i) /\ ~routes'[i].garbage
                /\ gc_timers'[i] = INFINITE_TIMER
             \/ /\ ~Revives(routes, i) /\ routes[i] # NULL
                /\ routes'[i] = routes[i] /\ gc_timers'[i] = gc_timers[i]
  <2>1. ~Collects(routes, gc_timers, i) /\ routes[i] # NULL
    BY <1>2, SweepEmpties
  <2>2. routes[i] \in Route
    BY <2>1 DEF TypeOK, Table
  <2>3. CASE Revives(routes, i)
    BY <2>1, <2>2, <2>3 DEF GarbageCollector, Swept, Disarmed, Route
  <2>4. CASE ~Revives(routes, i)
    BY <2>1, <2>4 DEF GarbageCollector, Swept, Disarmed
  <2>. QED BY <2>3, <2>4
<1>3. FlagMeansCountdown'
  BY <1>2 DEF CountdownInv, FlagMeansCountdown
<1>4. LifeOutlastsTurn'
  BY <1>2 DEF LifeOutlastsTurn, Revives
<1>. QED BY <1>1, <1>3, <1>4 DEF CountdownInv, LateExpiryIsDisarmed

\* A tick can only make a route expire late in a slot whose countdown is
\* disarmed, because the turn of the loop is shorter than a route's life.
LEMMA TickKeepsCountdown ==
  ASSUME TypeOK, CountdownInv, Tick
  PROVE  CountdownInv'
<1>1. lag' = lag + 1 /\ lag < MaxLag /\ pc' = pc /\ lag \in Nat /\ MaxLag \in Nat
  BY LagAssumption DEF Tick, TypeOK
<1>2. ASSUME NEW i \in Slots, routes'[i] # NULL
      PROVE  /\ routes[i] # NULL
             /\ routes[i].time \in TimeLeft(TIMEOUT)
             /\ routes'[i].time = Elapse(routes[i].time)
             /\ routes'[i].garbage = routes[i].garbage
             /\ gc_timers[i] \in TimeLeft(GARBAGE_COLLECTOR)
             /\ gc_timers'[i] = Elapse(gc_timers[i])
  <2>1. routes[i] # NULL
    BY <1>2, InPlace
  <2>2. routes[i] \in Route
    BY <2>1 DEF TypeOK, Table
  <2>3. routes'[i] = [routes[i] EXCEPT !.time = Elapse(@)]
    BY <2>1 DEF Tick
  <2>. QED BY <2>1, <2>2, <2>3 DEF Route, Tick, TypeOK
<1>3. FlagMeansCountdown'
  BY <1>2, GarbageAssumption DEF CountdownInv, FlagMeansCountdown, Elapse, TIMER_ZERO
<1>4. LifeOutlastsTurn'
  BY <1>1, <1>2, TimeoutAssumption
  DEF CountdownInv, LifeOutlastsTurn, Elapse, TimeLeft, INFINITE_TIMER
<1>5. LateExpiryIsDisarmed'
  BY <1>1, <1>2, TimeoutAssumption
  DEF CountdownInv, LifeOutlastsTurn, LateExpiryIsDisarmed, Elapse, TimeLeft,
      INFINITE_TIMER, TIMER_ZERO
<1>. QED BY <1>3, <1>4, <1>5 DEF CountdownInv

LEMMA CountdownStep ==
  ASSUME TypeOK, CountdownInv, [Next]_vars
  PROVE  CountdownInv'
<1>1. CASE Quiet \/ UNCHANGED vars
  BY <1>1, QuietKeepsTable DEF CountdownInv, FlagMeansCountdown, LifeOutlastsTurn,
     LateExpiryIsDisarmed
<1>. QED BY <1>1, CompareKeepsCountdown, RequestKeepsCountdown, StartKeepsCountdown,
            CollectorKeepsCountdown, TickKeepsCountdown, NextCases

LEMMA IInvHolds == Spec => []IInv
<1>1. Init => IInv
  BY InitTypeOK, InitUniqueDest, InitCountdown DEF IInv, TableInv
<1>2. IInv /\ [Next]_vars => IInv'
  BY TypeStep, UniqueDestStep, CountdownStep DEF IInv, TableInv
<1>. QED BY <1>1, <1>2, PTL DEF Spec

\* A flagged route is expired and its countdown armed, whatever moves, requests
\* and refreshes came in between.
THEOREM FlagsHaveCountdowns == Spec => []FlagMeansCountdown
<1>1. IInv => FlagMeansCountdown
  BY DEF IInv, CountdownInv
<1>. QED BY <1>1, IInvHolds, PTL

\* An expired route whose countdown is not disarmed has been flagged.
LEMMA CollectedWasFlagged == IInv => NoStaleCountdown
BY DEF IInv, CountdownInv, LateExpiryIsDisarmed, NoStaleCountdown, Collects,
       INFINITE_TIMER, TIMER_ZERO

\* What the collector (files.c:176) is about to free has been flagged: it inherits
\* no countdown from an earlier tenant of its slot.
THEOREM CountdownsAreFresh == Spec => []NoStaleCountdown
<1>. QED BY CollectedWasFlagged, IInvHolds, PTL

---------------------------------------------------------------------------
(* When a destination may disappear. *)

\* Processing an entry loses no destination: the one it is about gets a slot, the
\* others keep theirs.
LEMMA CompareForgetsNothing ==
  ASSUME TypeOK, CompareEntry, NEW i \in Slots, routes[i] # NULL
  PROVE  Known(routes', routes[i].dest)
<1>1. CASE routes' = routes
  BY <1>1 DEF Known, Holds
<1>2. ASSUME NEW j \in Slots, NEW k \in Slots, NEW new \in Route,
             Holds(routes, j, Aux.dest), k = j \/ routes[k] = NULL,
             routes' = Moved(routes, j, k, new), new.dest = Aux.dest
      PROVE  Known(routes', routes[i].dest)
  <2>1. CASE i = j
    BY <1>2, <2>1, NullAssumption DEF Known, Holds, Moved
  <2>2. CASE i # j
    BY <1>2, <2>2 DEF Known, Holds, Moved
  <2>. QED BY <2>1, <2>2
<1>3. ASSUME NEW k \in Slots, NEW new \in Route, routes[k] = NULL,
             routes' = [routes EXCEPT ![k] = new]
      PROVE  Known(routes', routes[i].dest)
  BY <1>3 DEF Known, Holds, TypeOK, Table
<1>. QED BY <1>1, <1>2, <1>3, CompareEntryShape

\* Only the collector loses destinations, and only those it collects.
LEMMA ForgetStep ==
  ASSUME IInv, [Next]_vars, NEW i \in Slots, routes[i] # NULL,
         ~Known(routes', routes[i].dest)
  PROVE  /\ pc = "gc"
         /\ routes[i].garbage
         /\ routes[i].time = TIMER_ZERO
         /\ gc_timers[i] = TIMER_ZERO
<1>. TypeOK
  BY DEF IInv, TableInv
<1>1. CASE Quiet \/ UNCHANGED vars
  BY <1>1, QuietKeepsTable DEF Known, Holds
<1>2. CASE CompareEntry
  BY <1>2, CompareForgetsNothing
<1>3. CASE AnswerSpecific \/ GarbageCollectorStart \/ Tick
  BY <1>3, InPlace DEF Known, Holds
<1>4. CASE GarbageCollector
  <2>1. pc = "gc"
    BY <1>4 DEF GarbageCollector
  <2>2. Collects(routes, gc_timers, i)
    BY <1>4, SweepEmpties DEF Known, Holds
  <2>3. routes[i].garbage
    BY <2>1, <2>2, CollectedWasFlagged DEF NoStaleCountdown
  <2>. QED BY <2>1, <2>2, <2>3 DEF Collects
<1>. QED BY <1>1, <1>2, <1>3, <1>4, NextCases

\* However messages, moves and timers interleave, a destination leaves the table
\* only in the collector, flagged, expired and with its countdown over.
THEOREM DestinationsLeaveWhenDue == Spec => ForgottenOnlyWhenDue
<1>1. IInv /\ [Next]_vars =>
        [\A i \in Slots :
           routes[i] # NULL /\ ~Known(routes', routes[i].dest) =>
               /\ pc = "gc"
               /\ routes[i].garbage
               /\ routes[i].time = TIMER_ZERO
               /\ gc_timers[i] = TIMER_ZERO]_vars
  BY ForgetStep
<1>. QED BY <1>1, IInvHolds, PTL DEF Spec, ForgottenOnlyWhenDue

---------------------------------------------------------------------------
(* What compare_tables counts. *)

\* An entry that is not reported leaves what the router announces as it was.
LEMMA UnreportedKeepsAnnounced ==
  ASSUME TypeOK, CompareEntry, ~Reported(routes, Aux)
  PROVE  Announced(routes') = Announced(routes)
<1>0. Aux \in Route /\ routes \in Table /\ routes' = CompareEntries(routes, Aux)
  BY AuxType DEF CompareEntry, TypeOK
<1>1. CASE Known(routes, Aux.dest)
  <2> DEFINE i == FirstOf(routes, Aux.dest)
  <2>1. i \in Slots /\ Holds(routes, i, Aux.dest)
    BY <1>1, FirstOfFact
  <2>2. routes' = CompareKnown(routes, i, Aux)
    BY <1>0, <1>1 DEF CompareEntries
  <2>3. /\ ~(routes[i].next = Aux.next /\ routes[i].metric # Aux.metric)
        /\ ~(routes[i].next # Aux.next /\ routes[i].metric > Aux.metric)
    BY <1>1 DEF Reported
  <2>. HIDE DEF i
  <2>4. PICK k \in Slots, new \in Route :
           /\ k = i \/ routes[k] = NULL
           /\ routes' = Moved(routes, i, k, new)
           /\ new.dest = Aux.dest
           /\ new.metric = routes[i].metric
    BY <1>0, <2>1, <2>2, <2>3, UnreportedShape
  <2>5. new # NULL /\ routes[i] # NULL /\ routes[i].dest = Aux.dest
    BY <2>1, NullAssumption DEF Holds
  <2>6. ASSUME NEW j \in Slots, routes[j] # NULL
        PROVE  <<routes[j].dest, routes[j].metric>> \in Announced(routes')
    <3>1. CASE j = i
      <4>1. routes'[k] = new
        BY <2>4 DEF Moved
      <4>. QED BY <2>4, <2>5, <3>1, <4>1 DEF Announced
    <3>2. CASE j # i
      <4>1. routes'[j] = routes[j]
        BY <2>4, <2>6, <3>2 DEF Moved
      <4>. QED BY <2>6, <4>1 DEF Announced
    <3>. QED BY <3>1, <3>2
  <2>7. ASSUME NEW j \in Slots, routes'[j] # NULL
        PROVE  <<routes'[j].dest, routes'[j].metric>> \in Announced(routes)
    <3>1. CASE j = k
      <4>1. routes'[j] = new
        BY <2>4, <3>1 DEF Moved
      <4>. QED BY <2>1, <2>4, <2>5, <4>1 DEF Announced
    <3>2. CASE j # k
      <4>1. routes'[j] = routes[j]
        BY <2>4, <2>7, <3>2 DEF Moved
      <4>. QED BY <2>7, <4>1 DEF Announced
    <3>. QED BY <3>1, <3>2
  <2>8. Announced(routes) \subseteq Announced(routes')
    BY <2>6 DEF Announced
  <2>9. Announced(routes') \subseteq Announced(routes)
    BY <2>7 DEF Announced
  <2>. QED BY <2>8, <2>9
<1>2. CASE ~Known(routes, Aux.dest)
  <2>1. ~Acceptable(Aux)
    BY <1>2 DEF Reported
  <2>. QED BY <1>0, <1>2, <2>1 DEF CompareEntries
<1>. QED BY <1>1, <1>2

\* The clock changes no metric.
LEMMA TickKeepsAnnounced ==
  ASSUME TypeOK, Tick
  PROVE  Announced(routes') = Announced(routes)
<1>1. ASSUME NEW i \in Slots
      PROVE  /\ routes'[i] # NULL <=> routes[i] # NULL
             /\ routes[i] # NULL => /\ routes'[i].dest = routes[i].dest
                                    /\ routes'[i].metric = routes[i].metric
  <2>1. routes[i] # NULL => routes[i] \in Route
    BY DEF TypeOK, Table
  <2>2. routes[i] # NULL => routes'[i].metric = routes[i].metric
    BY <2>1 DEF Tick, Route
  <2>. QED BY <2>2, InPlace
<1>. QED BY <1>1 DEF Announced

\* Whatever alters what this router would announce while a message is processed
\* is counted, so that the triggered update goes out.
THEOREM ChangesAreCounted == Spec => EveryChangeIsCounted
<1>1. ASSUME TypeOK, [Next]_vars, pc = "compare",
             Announced(routes') # Announced(routes)
      PROVE  changes'
  <2>1. CASE Quiet \/ UNCHANGED vars
    BY <1>1, <2>1, QuietKeepsTable DEF Announced
  <2>2. CASE CompareEntry
    BY <1>1, <2>2, UnreportedKeepsAnnounced DEF CompareEntry
  <2>3. CASE Tick
    BY <1>1, <2>3, TickKeepsAnnounced
  <2>4. CASE AnswerSpecific \/ GarbageCollectorStart \/ GarbageCollector
    BY <1>1, <2>4 DEF AnswerSpecific, GarbageCollectorStart, GarbageCollector
  <2>. QED BY <1>1, <2>1, <2>2, <2>3, <2>4, NextCases
<1>2. TypeOK /\ [Next]_vars =>
        [pc = "compare" /\ Announced(routes') # Announced(routes) => changes']_vars
  BY <1>1
<1>. QED BY <1>2, TypeCorrect, PTL DEF Spec, EveryChangeIsCounted

---------------------------------------------------------------------------
(* The count of entries. *)

LEMMA OccupiedFinite == IsFiniteSet(Occupied(routes)) /\ Cardinality(Occupied(routes)) \in Nat
<1>1. IsFiniteSet(Slots)
  BY SizeAssumption, FS_Interval DEF Slots
<1>2. Occupied(routes) \in SUBSET Slots
  BY DEF Occupied
<1>. QED BY <1>1, <1>2, FS_Subset, FS_CardinalityType

\* The routes of a file fill the first slots.
LEMMA InitCount == Init => CountMatches
<1>. SUFFICES ASSUME Init PROVE CountMatches
  OBVIOUS
<1>1. PICK f \in Files : routes = FileTable(f) /\ num_entries = Len(f)
  BY DEF Init
<1>2. Len(f) \in Nat /\ Len(f) <= RIP_ROUTE_TABLE_SIZE /\ routes \in Table
  BY <1>1, FileTableType
<1>3. ASSUME NEW i \in Slots PROVE routes[i] # NULL <=> i < Len(f)
  <2>1. CASE i < Len(f)
    <3>1. routes[i].garbage = FALSE /\ routes[i] \in Route \cup {NULL}
      BY <1>1, <1>2, <2>1 DEF FileTable, Table
    <3>2. i + 1 \in 1 .. Len(f)
      BY <1>2, <2>1, SizeAssumption DEF Slots
    <3>3. f[i + 1] \in FileRoute
      BY <3>2, FilesAssumption
    <3>4. INFINITE_TIMER \in TimeLeft(TIMEOUT)
      BY TimeoutAssumption DEF TimeLeft, INFINITE_TIMER
    <3>5. [dest |-> f[i + 1].dest, next |-> f[i + 1].next,
           metric |-> f[i + 1].metric, time |-> INFINITE_TIMER,
           garbage |-> FALSE] \in Route
      BY <3>3, <3>4 DEF FileRoute, Route
    <3>. QED BY <1>1, <2>1, <3>5, NullAssumption DEF FileTable
  <2>2. CASE ~(i < Len(f))
    BY <1>1, <2>2 DEF FileTable
  <2>. QED BY <2>1, <2>2
<1>4. Occupied(routes) = 0 .. Len(f) - 1
  BY <1>2, <1>3, SizeAssumption DEF Occupied, Slots
<1>5. Cardinality(0 .. Len(f) - 1) = Len(f)
  <2>1. 0 \in Int /\ Len(f) - 1 \in Int
    BY <1>2
  <2>2. Cardinality(0 .. Len(f) - 1)
            = IF 0 > Len(f) - 1 THEN 0 ELSE Len(f) - 1 - 0 + 1
    BY <2>1, FS_Interval
  <2>. QED BY <1>2, <2>2
<1>. QED BY <1>1, <1>4, <1>5 DEF CountMatches

\* A replacement keeps the number of occupied slots, learning adds one.
LEMMA CompareKeepsCount ==
  ASSUME TypeOK, CountMatches, CompareEntry
  PROVE  CountMatches'
<1>0. /\ IsFiniteSet(Occupied(routes))
      /\ Cardinality(Occupied(routes)) \in Nat
      /\ num_entries = Cardinality(Occupied(routes))
      /\ num_entries' = IF NeedsSlot(routes, Aux) THEN num_entries + 1 ELSE num_entries
  BY OccupiedFinite DEF CountMatches, CompareEntry
<1>1. CASE routes' = routes /\ ~NeedsSlot(routes, Aux)
  BY <1>0, <1>1 DEF CountMatches
<1>2. ASSUME NEW i \in Slots, NEW k \in Slots, NEW new \in Route,
             ~NeedsSlot(routes, Aux), Holds(routes, i, Aux.dest),
             k = i \/ routes[k] = NULL, routes' = Moved(routes, i, k, new)
      PROVE  CountMatches'
  <2>1. Occupied(routes') = (Occupied(routes) \ {i}) \cup {k}
    BY <1>2, NullAssumption DEF Occupied, Moved, Holds
  <2>2. i \in Occupied(routes) /\ k \notin Occupied(routes) \ {i}
    BY <1>2 DEF Occupied, Holds
  <2>3. /\ IsFiniteSet(Occupied(routes) \ {i})
        /\ Cardinality(Occupied(routes) \ {i}) = Cardinality(Occupied(routes)) - 1
    BY <1>0, <2>2, FS_RemoveElement
  <2>4. Cardinality(Occupied(routes')) = Cardinality(Occupied(routes) \ {i}) + 1
    BY <2>1, <2>2, <2>3, FS_AddElement
  <2>5. Cardinality(Occupied(routes')) = num_entries'
    BY <1>0, <1>2, <2>3, <2>4
  <2>. QED BY <2>5 DEF CountMatches
<1>3. ASSUME NEW k \in Slots, NEW new \in Route, NeedsSlot(routes, Aux),
             routes[k] = NULL, routes' = [routes EXCEPT ![k] = new]
      PROVE  CountMatches'
  <2>1. Occupied(routes') = Occupied(routes) \cup {k} /\ k \notin Occupied(routes)
    BY <1>3, NullAssumption DEF Occupied, TypeOK, Table
  <2>2. Cardinality(Occupied(routes')) = Cardinality(Occupied(routes)) + 1
    BY <1>0, <2>1, FS_AddElement
  <2>. QED BY <1>0, <1>3, <2>2 DEF CountMatches
<1>. QED BY <1>1, <1>2, <1>3, CompareEntryShape

\* The collector takes off the count what it takes off the table.
LEMMA CollectorKeepsCount ==
  ASSUME TypeOK, CountMatches, GarbageCollector
  PROVE  CountMatches'
<1> DEFINE C == {i \in Slots : Collects(routes, gc_timers, i)}
<1>1. Occupied(routes') = Occupied(routes) \ C
  BY SweepEmpties DEF Occupied
<1>2. Occupied(routes) \cap C = C
  BY DEF Occupied, Collects
<1>3. Cardinality(Occupied(routes) \ C) = Cardinality(Occupied(routes)) - Cardinality(C)
  <2>. HIDE DEF C
  <2>. QED BY <1>2, OccupiedFinite, FS_Difference
<1>4. num_entries' = num_entries - Cardinality(C)
  BY DEF GarbageCollector
<1>. QED BY <1>1, <1>3, <1>4 DEF CountMatches

\* num_entries counts the occupied slots after any sequence of replacements,
\* insertions and collections.
THEOREM EntriesAreCounted == Spec => []CountMatches
<1>1. ASSUME TypeOK, CountMatches, [Next]_vars PROVE CountMatches'
  <2>1. CASE Quiet \/ UNCHANGED vars
    BY <1>1, <2>1, QuietKeepsTable DEF CountMatches
  <2>2. CASE AnswerSpecific \/ GarbageCollectorStart \/ Tick
    <3>1. Occupied(routes') = Occupied(routes)
      BY <1>1, <2>2, InPlace DEF Occupied
    <3>2. num_entries' = num_entries
      BY <2>2 DEF AnswerSpecific, GarbageCollectorStart, Tick
    <3>. QED BY <1>1, <3>1, <3>2 DEF CountMatches
  <2>. QED BY <1>1, <2>1, <2>2, CompareKeepsCount, CollectorKeepsCount, NextCases
<1>. QED BY <1>1, InitCount, TypeCorrect, PTL DEF Spec

---------------------------------------------------------------------------
(* What a crash means. *)

\* A table without an empty slot and without duplicates knows as many
\* destinations as it has slots.
LEMMA FullOfDistinct ==
  ASSUME TypeOK, UniqueDest, ~HasRoom(routes)
  PROVE  Cardinality({routes[i].dest : i \in Occupied(routes)}) = RIP_ROUTE_TABLE_SIZE
<1> DEFINE D == {routes[i].dest : i \in Occupied(routes)}
           f == [i \in Slots |-> routes[i].dest]
<1>1. Occupied(routes) = Slots
  BY DEF Occupied, HasRoom
<1>2. f \in Bijection(Slots, D)
  BY <1>1 DEF Bijection, Injection, Surjection, IsInjective, UniqueDest, Occupied
<1>3. IsFiniteSet(Slots) /\ Cardinality(Slots) = RIP_ROUTE_TABLE_SIZE
  BY SizeAssumption, FS_Interval DEF Slots
<1>. HIDE DEF D, f
<1>4. Cardinality(D) = Cardinality(Slots)
  BY <1>2, <1>3, FS_Bijection DEF ExistsBijection
<1>. QED BY <1>3, <1>4 DEF D

\* The daemon dies adding a route only when every slot holds a destination of its
\* own: no slot is lost to a duplicate or a forgotten route.
THEOREM CrashesOnlyWhenFull == Spec => []DiesOnlyWhenFull
<1>1. Init => DiesOnlyWhenFull
  BY DEF Init, DiesOnlyWhenFull
<1>2. ASSUME TypeOK, UniqueDest, DiesOnlyWhenFull, [Next]_vars
      PROVE  DiesOnlyWhenFull'
  <2>. SUFFICES ASSUME pc' = "crashed"
                PROVE  Cardinality({routes'[i].dest : i \in Occupied(routes')})
                           = RIP_ROUTE_TABLE_SIZE
    BY DEF DiesOnlyWhenFull
  <2>1. AddToFullTable \/ UNCHANGED vars
    BY <1>2 DEF Next, Loop, PeriodicUpdate, NoUpdateYet, RecvTimeout, RecvResponse,
       RecvRequest, RecvOther, CompareEntry, TriggeredUpdate, NothingChanged,
       AnswerWhole, AnswerSpecific, GarbageCollectorStart, GarbageCollector, Tick
  <2>2. CASE AddToFullTable
    <3>1. ~HasRoom(routes) /\ routes' = routes
      BY <2>2 DEF AddToFullTable, table
    <3>. QED BY <1>2, <3>1, FullOfDistinct
  <2>3. CASE UNCHANGED vars
    BY <1>2, <2>3 DEF DiesOnlyWhenFull, vars
  <2>. QED BY <2>1, <2>2, <2>3
<1>. QED BY <1>1, <1>2, TypeCorrect, DestinationsAreUnique, PTL DEF Spec

---------------------------------------------------------------------------
(* Every destination lives by the rules of RouteLife. *)

SlotStage(e) ==
    IF e.garbage THEN "dying"
    ELSE IF e.time < 0 THEN "static"
    ELSE IF e.time > 0 THEN "alive" ELSE "expired"

SlotLeft(e, countdown) == IF e.garbage THEN countdown ELSE 0

\* With one slot for each destination, the slot that holds it is the first.
LEMMA HolderIsFirst ==
  ASSUME NEW r, NEW d, NEW i \in Slots, Holds(r, i, d),
         \A j, k \in Slots :
            r[j] # NULL /\ r[k] # NULL /\ r[j].dest = r[k].dest => j = k
  PROVE  Known(r, d) /\ FirstOf(r, d) = i
<1>1. Known(r, d)
  BY DEF Known
<1>2. FirstOf(r, d) \in Slots /\ Holds(r, FirstOf(r, d), d)
  BY <1>1, FirstOfFact
<1>. QED BY <1>1, <1>2 DEF Holds

\* The stage of a destination is that of its slot.
LEMMA StageBefore ==
  ASSUME TypeOK, UniqueDest, NEW d \in Dest
  PROVE  /\ \A i \in Slots : Holds(routes, i, d) =>
              /\ StageOf(d) = SlotStage(routes[i])
              /\ LeftOf(d) = SlotLeft(routes[i], gc_timers[i])
         /\ ~Known(routes, d) => StageOf(d) = "unknown" /\ LeftOf(d) = 0
<1>1. ASSUME NEW i \in Slots, Holds(routes, i, d)
      PROVE  /\ StageOf(d) = SlotStage(routes[i])
             /\ LeftOf(d) = SlotLeft(routes[i], gc_timers[i])
  <2>1. Known(routes, d) /\ FirstOf(routes, d) = i
    BY <1>1, HolderIsFirst DEF UniqueDest
  <2>2. routes[i] \in Route
    BY <1>1 DEF Holds, TypeOK, Table
  <2>3. routes[i].time \in Int /\ routes[i].garbage \in BOOLEAN
    BY <2>2, TimeoutAssumption DEF Route, TimeLeft, INFINITE_TIMER
  <2>4. StageOf(d) = SlotStage(routes[i])
    BY <2>1, <2>3 DEF StageOf, RouteTo, SlotStage
  <2>5. StageOf(d) = "dying" <=> routes[i].garbage
    BY <2>3, <2>4 DEF SlotStage
  <2>. QED BY <2>1, <2>4, <2>5 DEF LeftOf, SlotLeft
<1>2. ~Known(routes, d) => StageOf(d) = "unknown" /\ LeftOf(d) = 0
  BY DEF StageOf, LeftOf
<1>. QED BY <1>1, <1>2

\* The same after a step.
LEMMA StageAfter ==
  ASSUME TypeOK', UniqueDest', NEW d \in Dest
  PROVE  /\ \A i \in Slots : Holds(routes', i, d) =>
              /\ StageOf(d)' = SlotStage(routes'[i])
              /\ LeftOf(d)' = SlotLeft(routes'[i], gc_timers'[i])
         /\ ~Known(routes', d) => StageOf(d)' = "unknown" /\ LeftOf(d)' = 0
<1>1. ASSUME NEW i \in Slots, Holds(routes', i, d)
      PROVE  /\ StageOf(d)' = SlotStage(routes'[i])
             /\ LeftOf(d)' = SlotLeft(routes'[i], gc_timers'[i])
  <2>1. Known(routes', d) /\ FirstOf(routes', d) = i
    BY <1>1, HolderIsFirst DEF UniqueDest
  <2>2. routes'[i] \in Route
    BY <1>1 DEF Holds, TypeOK, Table
  <2>3. routes'[i].time \in Int /\ routes'[i].garbage \in BOOLEAN
    BY <2>2, TimeoutAssumption DEF Route, TimeLeft, INFINITE_TIMER
  <2>4. StageOf(d)' = SlotStage(routes'[i])
    BY <2>1, <2>3 DEF StageOf, RouteTo, SlotStage
  <2>5. StageOf(d)' = "dying" <=> routes'[i].garbage
    BY <2>3, <2>4 DEF SlotStage
  <2>. QED BY <2>1, <2>4, <2>5 DEF LeftOf, SlotLeft
<1>2. ~Known(routes', d) => StageOf(d)' = "unknown" /\ LeftOf(d)' = 0
  BY DEF StageOf, LeftOf
<1>. QED BY <1>1, <1>2

\* A destination no slot of which has changed stays where it was.
LEMMA StageKept ==
  ASSUME TypeOK, UniqueDest, TypeOK', UniqueDest', NEW d \in Dest,
         \A i \in Slots : Holds(routes', i, d) <=> Holds(routes, i, d),
         \A i \in Slots : Holds(routes, i, d) =>
             /\ SlotStage(routes'[i]) = SlotStage(routes[i])
             /\ SlotLeft(routes'[i], gc_timers'[i]) = SlotLeft(routes[i], gc_timers[i])
  PROVE  StageOf(d)' = StageOf(d) /\ LeftOf(d)' = LeftOf(d)
<1>1. CASE Known(routes, d)
  BY <1>1, StageBefore, StageAfter DEF Known
<1>2. CASE ~Known(routes, d)
  BY <1>2, StageBefore, StageAfter DEF Known
<1>. QED BY <1>1, <1>2

\* Steps of RouteLife, seen from RipServer.
LEMMA LifeBecomes ==
  ASSUME NEW dests, NEW stage,
         \A d \in Dest :
            /\ StageOf(d)' = IF d \in dests THEN stage ELSE StageOf(d)
            /\ LeftOf(d)' = IF d \in dests THEN 0 ELSE LeftOf(d)
  PROVE  Life!Become(dests, stage)
BY DEF Life!Become

LEMMA LifeStutters ==
  ASSUME \A d \in Dest : StageOf(d)' = StageOf(d) /\ LeftOf(d)' = LeftOf(d)
  PROVE  UNCHANGED Life!lifevars
BY DEF Life!lifevars

LEMMA InitLife == Init => Life!Init
<1>. SUFFICES ASSUME Init PROVE Life!Init
  OBVIOUS
<1>1. TypeOK /\ UniqueDest
  BY InitTypeOK, InitUniqueDest
<1>2. PICK f \in Files : routes = FileTable(f)
  BY DEF Init
<1>3. \A i \in Slots : routes[i] # NULL =>
         routes[i].time = INFINITE_TIMER /\ ~routes[i].garbage
  BY <1>2 DEF FileTable
<1>4. ASSUME NEW d \in Dest
      PROVE  StageOf(d) \in {"unknown", "static"} /\ LeftOf(d) = 0
  <2>1. CASE ~Known(routes, d)
    BY <1>1, <2>1, StageBefore
  <2>2. CASE Known(routes, d)
    <3>1. PICK i \in Slots : Holds(routes, i, d)
      BY <2>2 DEF Known
    <3>2. StageOf(d) = SlotStage(routes[i]) /\ LeftOf(d) = SlotLeft(routes[i], gc_timers[i])
      BY <1>1, <3>1, StageBefore
    <3>3. routes[i].time = INFINITE_TIMER /\ ~routes[i].garbage
      BY <1>3, <3>1 DEF Holds
    <3>. QED BY <3>2, <3>3 DEF SlotStage, SlotLeft, INFINITE_TIMER
  <2>. QED BY <2>1, <2>2
<1>. QED BY <1>4 DEF Life!Init

\* An entry concerns one destination: it comes alive, expires or stays.
LEMMA CompareLife ==
  ASSUME TypeOK, UniqueDest, FlagMeansCountdown, TypeOK', UniqueDest', CompareEntry
  PROVE  [Life!Next]_(Life!lifevars)
<1>0. PICK a \in Dest : a = Aux.dest /\ gc_timers' = gc_timers
  BY AuxType DEF CompareEntry, Route
<1>1. CASE routes' = routes
  <2>1. \A d \in Dest : StageOf(d)' = StageOf(d) /\ LeftOf(d)' = LeftOf(d)
    BY <1>0, <1>1 DEF StageOf, LeftOf, RouteTo
  <2>. QED BY <2>1, LifeStutters
<1>2. ASSUME NEW k \in Slots, NEW new \in Route, new.dest = a, routes'[k] = new,
             \A d \in Dest \ {a} : \A j \in Slots :
                /\ Holds(routes', j, d) <=> Holds(routes, j, d)
                /\ Holds(routes, j, d) => routes'[j] = routes[j]
      PROVE  /\ StageOf(a)' = SlotStage(new) /\ LeftOf(a)' = SlotLeft(new, gc_timers[k])
             /\ \A d \in Dest \ {a} : StageOf(d)' = StageOf(d) /\ LeftOf(d)' = LeftOf(d)
  <2>1. Holds(routes', k, a)
    BY <1>2, NullAssumption DEF Holds
  <2>2. StageOf(a)' = SlotStage(new) /\ LeftOf(a)' = SlotLeft(new, gc_timers[k])
    BY <1>0, <1>2, <2>1, StageAfter
  <2>3. ASSUME NEW d \in Dest \ {a}
        PROVE  StageOf(d)' = StageOf(d) /\ LeftOf(d)' = LeftOf(d)
    BY <1>0, <1>2, StageKept
  <2>. QED BY <2>2, <2>3
<1>3. ASSUME NEW k \in Slots, NEW new \in Route, ~new.garbage, new.time = TIMEOUT,
             StageOf(a)' = SlotStage(new), LeftOf(a)' = SlotLeft(new, gc_timers[k]),
             \A d \in Dest \ {a} : StageOf(d)' = StageOf(d) /\ LeftOf(d)' = LeftOf(d)
      PROVE  Life!Next
  <2>1. StageOf(a)' = "alive" /\ LeftOf(a)' = 0
    BY <1>3, TimeoutAssumption DEF SlotStage, SlotLeft
  <2>2. Life!Become({a}, "alive")
    BY <1>3, <2>1, LifeBecomes
  <2>. QED BY <1>0, <2>2 DEF Life!Next, Life!Reach
<1>4. ASSUME NEW k \in Slots, NEW new \in Route, ~new.garbage, new.time = TIMER_ZERO,
             Known(routes, a),
             StageOf(a)' = SlotStage(new), LeftOf(a)' = SlotLeft(new, gc_timers[k]),
             \A d \in Dest \ {a} : StageOf(d)' = StageOf(d) /\ LeftOf(d)' = LeftOf(d)
      PROVE  Life!Next
  <2>1. StageOf(a)' = "expired" /\ LeftOf(a)' = 0
    BY <1>4 DEF SlotStage, SlotLeft, TIMER_ZERO
  <2>2. Life!Become({a}, "expired")
    BY <1>4, <2>1, LifeBecomes
  <2>3. StageOf(a) # "unknown"
    BY <1>4 DEF StageOf
  <2>4. Life!Withdraw(a)
    BY <1>0, <2>2, <2>3 DEF Life!Withdraw
  <2>. QED BY <1>0, <2>4 DEF Life!Next
<1>5. ASSUME NEW i \in Slots, NEW k \in Slots, NEW new \in Route,
             Holds(routes, i, a), k = i \/ routes[k] = NULL,
             routes' = Moved(routes, i, k, new), new.dest = a,
             Outcome(routes, i, k, new)
      PROVE  [Life!Next]_(Life!lifevars)
  <2>0. Known(routes, a) /\ routes[i] # NULL /\ routes[i] \in Route
    BY <1>5 DEF Known, Holds, TypeOK, Table
  <2>1. routes'[k] = new
    BY <1>5 DEF Moved
  <2>2. ASSUME NEW d \in Dest \ {a}, NEW j \in Slots
        PROVE  /\ Holds(routes', j, d) <=> Holds(routes, j, d)
               /\ Holds(routes, j, d) => routes'[j] = routes[j]
    BY <1>5, <2>2 DEF Moved, Holds
  <2>3. /\ StageOf(a)' = SlotStage(new) /\ LeftOf(a)' = SlotLeft(new, gc_timers[k])
        /\ \A d \in Dest \ {a} : StageOf(d)' = StageOf(d) /\ LeftOf(d)' = LeftOf(d)
    BY <1>2, <1>5, <2>1, <2>2
  <2>4. CASE ~new.garbage /\ new.time \in {TIMER_ZERO, TIMEOUT}
    BY <1>3, <1>4, <2>0, <2>3, <2>4
  <2>5. ASSUME k = i, SlotStage(new) = SlotStage(routes[i]),
               SlotLeft(new, gc_timers[i]) = SlotLeft(routes[i], gc_timers[i])
        PROVE  UNCHANGED Life!lifevars
    <3>1. StageOf(a) = SlotStage(routes[i]) /\ LeftOf(a) = SlotLeft(routes[i], gc_timers[i])
      BY <1>0, <1>5, StageBefore
    <3>2. \A d \in Dest : StageOf(d)' = StageOf(d) /\ LeftOf(d)' = LeftOf(d)
      BY <2>3, <2>5, <3>1
    <3>. QED BY <3>2, LifeStutters
  <2>6. CASE k = i /\ new = routes[i]
    BY <2>5, <2>6
  <2>7. CASE k = i /\ new = [routes[i] EXCEPT !.time = TIMER_ZERO]
    <3>1. new.time = TIMER_ZERO /\ new.garbage = routes[i].garbage
      BY <2>0, <2>7 DEF Route
    <3>2. CASE routes[i].garbage
      <4>1. SlotStage(new) = SlotStage(routes[i])
            /\ SlotLeft(new, gc_timers[i]) = SlotLeft(routes[i], gc_timers[i])
        BY <3>1, <3>2 DEF SlotStage, SlotLeft
      <4>. QED BY <2>5, <2>7, <4>1
    <3>3. CASE ~routes[i].garbage
      BY <1>4, <2>0, <2>3, <3>1, <3>3
    <3>. QED BY <3>2, <3>3
  <2>. QED BY <1>5, <2>4, <2>6, <2>7 DEF Outcome
<1>6. ASSUME NEW k \in Slots, NEW new \in Route, routes[k] = NULL,
             routes' = [routes EXCEPT ![k] = new], new.dest = a,
             new.time = TIMEOUT, ~new.garbage
      PROVE  Life!Next
  <2>1. \A j \in Slots : routes'[j] = IF j = k THEN new ELSE routes[j]
    BY <1>6 DEF TypeOK, Table
  <2>2. ASSUME NEW d \in Dest \ {a}, NEW j \in Slots
        PROVE  /\ Holds(routes', j, d) <=> Holds(routes, j, d)
               /\ Holds(routes, j, d) => routes'[j] = routes[j]
    BY <1>6, <2>1, <2>2 DEF Holds
  <2>3. /\ StageOf(a)' = SlotStage(new) /\ LeftOf(a)' = SlotLeft(new, gc_timers[k])
        /\ \A d \in Dest \ {a} : StageOf(d)' = StageOf(d) /\ LeftOf(d)' = LeftOf(d)
    BY <1>2, <1>6, <2>1, <2>2
  <2>. QED BY <1>3, <1>6, <2>3
<1>. QED BY <1>0, <1>1, <1>5, <1>6, CompareEntryShape

\* Where a destination's stage is read before and after a step that leaves it in
\* its slot.
LEMMA StagesInPlace ==
  ASSUME TypeOK, UniqueDest, TypeOK', UniqueDest',
         AnswerSpecific \/ GarbageCollectorStart \/ Tick, NEW d \in Dest
  PROVE  \/ /\ StageOf(d) = "unknown" /\ LeftOf(d) = 0
            /\ StageOf(d)' = "unknown" /\ LeftOf(d)' = 0
         \/ \E i \in Slots :
              /\ Holds(routes, i, d) /\ routes[i] \in Route /\ routes'[i] \in Route
              /\ StageOf(d) = SlotStage(routes[i])
              /\ LeftOf(d) = SlotLeft(routes[i], gc_timers[i])
              /\ StageOf(d)' = SlotStage(routes'[i])
              /\ LeftOf(d)' = SlotLeft(routes'[i], gc_timers'[i])
<1>1. \A i \in Slots : Holds(routes', i, d) <=> Holds(routes, i, d)
  BY InPlace DEF Holds
<1>2. CASE ~Known(routes, d)
  BY <1>1, <1>2, StageBefore, StageAfter DEF Known
<1>3. CASE Known(routes, d)
  <2>1. PICK i \in Slots : Holds(routes, i, d) /\ Holds(routes', i, d)
    BY <1>1, <1>3 DEF Known
  <2>2. routes[i] \in Route /\ routes'[i] \in Route
    BY <2>1 DEF Holds, TypeOK, Table
  <2>. QED BY <2>1, <2>2, StageBefore, StageAfter
<1>. QED BY <1>2, <1>3

\* A request by name starts the countdowns of the dying among those it names over.
LEMMA RequestLife ==
  ASSUME TypeOK, UniqueDest, FlagMeansCountdown, TypeOK', UniqueDest', AnswerSpecific
  PROVE  Life!Next
<1>0. PICK dests : routes' = Unflagged(routes, dests) /\ gc_timers' = gc_timers
  BY DEF AnswerSpecific
<1> DEFINE D == {d \in Dest : d \in dests /\ StageOf(d) = "dying"}
<1>1. ASSUME NEW d \in Dest
      PROVE  /\ StageOf(d)' = IF d \in dests /\ StageOf(d) = "dying"
                              THEN "expired" ELSE StageOf(d)
             /\ LeftOf(d)' = IF d \in dests /\ StageOf(d) = "dying" THEN 0 ELSE LeftOf(d)
  <2>1. CASE StageOf(d) = "unknown" /\ StageOf(d)' = "unknown" /\ LeftOf(d)' = 0
             /\ LeftOf(d) = 0
    BY <2>1
  <2>2. ASSUME NEW i \in Slots, Holds(routes, i, d),
               routes[i] \in Route, routes'[i] \in Route,
               StageOf(d) = SlotStage(routes[i]),
               LeftOf(d) = SlotLeft(routes[i], gc_timers[i]),
               StageOf(d)' = SlotStage(routes'[i]),
               LeftOf(d)' = SlotLeft(routes'[i], gc_timers'[i])
        PROVE  /\ StageOf(d)' = IF d \in dests /\ StageOf(d) = "dying"
                                THEN "expired" ELSE StageOf(d)
               /\ LeftOf(d)' = IF d \in dests /\ StageOf(d) = "dying" THEN 0 ELSE LeftOf(d)
    <3>0. /\ routes[i] # NULL /\ routes[i].dest = d
          /\ routes[i].garbage \in BOOLEAN /\ routes[i].time \in Int
      BY <2>2, TimeoutAssumption DEF Holds, Route, TimeLeft, INFINITE_TIMER
    <3>1. CASE d \notin dests
      <4>1. routes'[i] = routes[i]
        BY <1>0, <3>0, <3>1 DEF Unflagged, Asked
      <4>. QED BY <1>0, <2>2, <3>1, <4>1
    <3>2. CASE d \in dests
      <4>1. routes'[i] = [routes[i] EXCEPT !.garbage = FALSE]
        BY <1>0, <3>0, <3>2 DEF Unflagged, Asked
      <4>2. ~routes'[i].garbage /\ routes'[i].time = routes[i].time
        BY <2>2, <4>1 DEF Route
      <4>3. routes[i].garbage => routes[i].time = 0
        BY <3>0 DEF FlagMeansCountdown, TIMER_ZERO
      <4>4. CASE routes[i].garbage
        BY <2>2, <3>0, <3>2, <4>2, <4>3, <4>4 DEF SlotStage, SlotLeft
      <4>5. CASE ~routes[i].garbage
        BY <2>2, <3>0, <4>2, <4>5 DEF SlotStage, SlotLeft
      <4>. QED BY <4>4, <4>5
    <3>. QED BY <3>1, <3>2
  <2>. QED BY <2>1, <2>2, StagesInPlace
<1>2. Life!Become(D, "expired")
  BY <1>1, LifeBecomes
<1>3. D \subseteq Life!In("dying")
  BY DEF Life!In
<1>4. D \in SUBSET Dest
  OBVIOUS
<1>. HIDE DEF D
<1>. QED BY <1>2, <1>3, <1>4 DEF Life!Next, Life!Request

\* garbage_collector_start begins the countdown of every expired destination.
LEMMA StartLife ==
  ASSUME TypeOK, UniqueDest, TypeOK', UniqueDest', GarbageCollectorStart
  PROVE  Life!Next
<1>1. ASSUME NEW d \in Dest
      PROVE  /\ StageOf(d)' = IF StageOf(d) = "expired" THEN "dying" ELSE StageOf(d)
             /\ LeftOf(d)' = IF StageOf(d) = "expired" THEN GARBAGE_COLLECTOR ELSE LeftOf(d)
  <2>1. ASSUME NEW i \in Slots, Holds(routes, i, d),
               routes[i] \in Route, routes'[i] \in Route,
               StageOf(d) = SlotStage(routes[i]),
               LeftOf(d) = SlotLeft(routes[i], gc_timers[i]),
               StageOf(d)' = SlotStage(routes'[i]),
               LeftOf(d)' = SlotLeft(routes'[i], gc_timers'[i])
        PROVE  /\ StageOf(d)' = IF StageOf(d) = "expired" THEN "dying" ELSE StageOf(d)
               /\ LeftOf(d)' = IF StageOf(d) = "expired" THEN GARBAGE_COLLECTOR
                               ELSE LeftOf(d)
    <3>0. /\ routes[i] # NULL /\ routes[i].garbage \in BOOLEAN
          /\ routes[i].time \in Int
      BY <2>1, TimeoutAssumption DEF Holds, Route, TimeLeft, INFINITE_TIMER
    <3>1. StageOf(d) = "expired" <=> Arms(routes, i)
      BY <2>1, <3>0 DEF SlotStage, Arms, TIMER_ZERO
    <3>2. CASE Arms(routes, i)
      <4>1. routes'[i] = [routes[i] EXCEPT !.garbage = TRUE]
            /\ gc_timers'[i] = GARBAGE_COLLECTOR
        BY <3>2 DEF GarbageCollectorStart, Flagged
      <4>2. routes'[i].garbage
        BY <2>1, <4>1 DEF Route
      <4>. QED BY <2>1, <3>1, <3>2, <4>1, <4>2 DEF SlotStage, SlotLeft
    <3>3. CASE ~Arms(routes, i)
      <4>1. routes'[i] = routes[i] /\ gc_timers'[i] = gc_timers[i]
        BY <3>3 DEF GarbageCollectorStart, Flagged
      <4>. QED BY <2>1, <3>1, <3>3, <4>1
    <3>. QED BY <3>2, <3>3
  <2>. QED BY <2>1, StagesInPlace
<1>2. Life!StartCountdowns
  BY <1>1 DEF Life!StartCountdowns, Life!In
<1>. QED BY <1>2 DEF Life!Next

\* A tick lets live destinations expire and countdowns go on.
LEMMA TickLife ==
  ASSUME TypeOK, UniqueDest, FlagMeansCountdown, TypeOK', UniqueDest', Tick
  PROVE  Life!Next
<1> DEFINE X == {d \in Dest : StageOf(d) = "alive" /\ StageOf(d)' = "expired"}
<1>1. ASSUME NEW d \in Dest
      PROVE  /\ StageOf(d)' = StageOf(d) \/ (StageOf(d) = "alive" /\ StageOf(d)' = "expired")
             /\ LeftOf(d)' = IF LeftOf(d) > 0 THEN LeftOf(d) - 1 ELSE LeftOf(d)
  <2>1. CASE StageOf(d)' = "unknown" /\ StageOf(d) = "unknown"
             /\ LeftOf(d) = 0 /\ LeftOf(d)' = 0
    BY <2>1
  <2>2. ASSUME NEW i \in Slots, Holds(routes, i, d),
               routes[i] \in Route, routes'[i] \in Route,
               StageOf(d) = SlotStage(routes[i]),
               LeftOf(d) = SlotLeft(routes[i], gc_timers[i]),
               StageOf(d)' = SlotStage(routes'[i]),
               LeftOf(d)' = SlotLeft(routes'[i], gc_timers'[i])
        PROVE  /\ \/ StageOf(d)' = StageOf(d)
                  \/ StageOf(d) = "alive" /\ StageOf(d)' = "expired"
               /\ LeftOf(d)' = IF LeftOf(d) > 0 THEN LeftOf(d) - 1 ELSE LeftOf(d)
    <3>0. /\ routes[i] # NULL /\ routes[i].garbage \in BOOLEAN
          /\ routes[i].time \in TimeLeft(TIMEOUT)
      BY <2>2 DEF Holds, Route
    <3>1. routes'[i] = [routes[i] EXCEPT !.time = Elapse(@)]
          /\ gc_timers'[i] = Elapse(gc_timers[i])
      BY <3>0 DEF Tick
    <3>2. routes'[i].time = Elapse(routes[i].time) /\ routes'[i].garbage = routes[i].garbage
      BY <2>2, <3>1 DEF Route
    <3>3. CASE routes[i].garbage
      <4>1. routes[i].garbage => gc_timers[i] \in 0 .. GARBAGE_COLLECTOR
        BY <3>0 DEF FlagMeansCountdown
      <4>. QED BY <2>2, <3>1, <3>2, <3>3, <4>1 DEF SlotStage, SlotLeft, Elapse
    <3>4. CASE ~routes[i].garbage
      <4>1. LeftOf(d) = 0 /\ LeftOf(d)' = 0
        BY <2>2, <3>2, <3>4 DEF SlotLeft
      <4>2. \/ SlotStage(routes'[i]) = SlotStage(routes[i])
            \/ SlotStage(routes[i]) = "alive" /\ SlotStage(routes'[i]) = "expired"
        BY <3>0, <3>2, <3>4, TimeoutAssumption
        DEF SlotStage, Elapse, TimeLeft, INFINITE_TIMER
      <4>. QED BY <2>2, <4>1, <4>2
    <3>. QED BY <3>0, <3>3, <3>4
  <2>. QED BY <2>1, <2>2, StagesInPlace
<1>2. /\ X \in SUBSET Life!In("alive")
      /\ \A d \in Dest : StageOf(d)' = IF d \in X THEN "expired" ELSE StageOf(d)
  BY <1>1 DEF Life!In
<1>. HIDE DEF X
<1>3. Life!TimePasses
  BY <1>1, <1>2 DEF Life!TimePasses
<1>. QED BY <1>3 DEF Life!Next

\* The collector forgets exactly the destinations whose own countdown is over.
LEMMA CollectorLife ==
  ASSUME IInv, TypeOK', UniqueDest', GarbageCollector
  PROVE  Life!Next
<1>0. TypeOK /\ UniqueDest /\ FlagMeansCountdown /\ NoStaleCountdown /\ pc = "gc"
  BY CollectedWasFlagged DEF IInv, TableInv, CountdownInv, GarbageCollector
<1> DEFINE D == {d \in Dest : StageOf(d) = "dying" /\ LeftOf(d) = 0}
<1>1. ASSUME NEW d \in Dest
      PROVE  /\ StageOf(d)' = IF StageOf(d) = "dying" /\ LeftOf(d) = 0
                              THEN "unknown" ELSE StageOf(d)
             /\ LeftOf(d)' = LeftOf(d)
  <2>1. CASE ~Known(routes, d)
    <3>1. ~Known(routes', d)
      BY <1>0, <2>1, SweepEmpties DEF Known, Holds
    <3>. QED BY <1>0, <2>1, <3>1, StageBefore, StageAfter
  <2>2. CASE Known(routes, d)
    <3>1. PICK i \in Slots : Holds(routes, i, d)
      BY <2>2 DEF Known
    <3>2. /\ routes[i] # NULL /\ routes[i].dest = d /\ routes[i] \in Route
          /\ StageOf(d) = SlotStage(routes[i])
          /\ LeftOf(d) = SlotLeft(routes[i], gc_timers[i])
      BY <1>0, <3>1, StageBefore DEF Holds, TypeOK, Table
    <3>3. routes[i].garbage \in BOOLEAN /\ routes[i].time \in Int
      BY <3>2, TimeoutAssumption DEF Route, TimeLeft, INFINITE_TIMER
    <3>4. Collects(routes, gc_timers, i) <=> StageOf(d) = "dying" /\ LeftOf(d) = 0
      <4>1. Collects(routes, gc_timers, i) => routes[i].garbage
        BY <1>0 DEF NoStaleCountdown
      <4>2. routes[i].garbage => routes[i].time = 0
        BY <1>0, <3>2 DEF FlagMeansCountdown, TIMER_ZERO
      <4>3. StageOf(d) = "dying" <=> routes[i].garbage
        BY <3>2, <3>3 DEF SlotStage
      <4>. QED BY <3>2, <4>1, <4>2, <4>3 DEF Collects, SlotLeft, TIMER_ZERO
    <3>5. CASE Collects(routes, gc_timers, i)
      <4>1. \A j \in Slots : Holds(routes, j, d) => j = i
        BY <1>0, <3>2 DEF UniqueDest, Holds
      <4>2. ~Known(routes', d)
        BY <1>0, <3>5, <4>1, SweepEmpties DEF Known, Holds
      <4>. QED BY <1>0, <3>4, <3>5, <4>2, StageAfter
    <3>6. CASE ~Collects(routes, gc_timers, i)
      <4>1. routes'[i] # NULL /\ routes'[i].dest = d
        BY <1>0, <3>2, <3>6, SweepEmpties
      <4>2. /\ StageOf(d)' = SlotStage(routes'[i])
            /\ LeftOf(d)' = SlotLeft(routes'[i], gc_timers'[i])
        BY <4>1, StageAfter DEF Holds
      <4>3. CASE Revives(routes, i)
        <5>1. ~routes[i].garbage
          BY <1>0, <3>2, <3>3, <4>3 DEF FlagMeansCountdown, Revives, TIMER_ZERO
        <5>2. routes'[i] = [routes[i] EXCEPT !.garbage = FALSE]
          BY <3>6, <4>3 DEF GarbageCollector, Swept
        <5>3. ~routes'[i].garbage /\ routes'[i].time = routes[i].time
          BY <3>2, <5>2 DEF Route
        <5>. QED BY <3>2, <3>3, <3>4, <3>6, <4>2, <5>1, <5>3 DEF SlotStage, SlotLeft
      <4>4. CASE ~Revives(routes, i)
        <5>1. routes'[i] = routes[i] /\ gc_timers'[i] = gc_timers[i]
          BY <3>6, <4>4 DEF GarbageCollector, Swept, Disarmed
        <5>. QED BY <3>2, <3>4, <3>6, <4>2, <5>1
      <4>. QED BY <4>3, <4>4
    <3>. QED BY <3>5, <3>6
  <2>. QED BY <2>1, <2>2
<1>2. Life!Become(D, "unknown")
  BY <1>1, LifeBecomes
<1>3. D = {d \in Life!In("dying") : [e \in Dest |-> LeftOf(e)][d] = 0}
  BY DEF Life!In
<1>. HIDE DEF D
<1>4. Life!Forget
  BY <1>2, <1>3 DEF Life!Forget
<1>. QED BY <1>4 DEF Life!Next

\* The daemon implements RouteLife: although slots are reused, routes move between
\* them and countdowns stay with the slots, every destination is learned, refreshed,
\* withdrawn, counted down and forgotten by the rules of its own life alone.
THEOREM DaemonImplementsRouteLife == Spec => ImplementsRouteLife
<1>1. Init => Life!Init
  BY InitLife
<1>2. IInv /\ [Next]_vars => [Life!Next]_(Life!lifevars)
  <2>. SUFFICES ASSUME IInv, [Next]_vars PROVE [Life!Next]_(Life!lifevars)
    OBVIOUS
  <2>1. TypeOK /\ UniqueDest /\ FlagMeansCountdown
    BY DEF IInv, TableInv, CountdownInv
  <2>2. TypeOK' /\ UniqueDest'
    BY <2>1, TypeStep, UniqueDestStep
  <2>3. CASE Quiet \/ UNCHANGED vars
    <3>1. routes' = routes /\ gc_timers' = gc_timers
      BY <2>3, QuietKeepsTable
    <3>2. \A d \in Dest : StageOf(d)' = StageOf(d) /\ LeftOf(d)' = LeftOf(d)
      BY <3>1 DEF StageOf, LeftOf, RouteTo
    <3>. QED BY <3>2, LifeStutters
  <2>4. CASE CompareEntry
    BY <2>1, <2>2, <2>4, CompareLife
  <2>5. CASE AnswerSpecific
    BY <2>1, <2>2, <2>5, RequestLife
  <2>6. CASE GarbageCollectorStart
    BY <2>1, <2>2, <2>6, StartLife
  <2>7. CASE GarbageCollector
    BY <2>2, <2>7, CollectorLife
  <2>8. CASE Tick
    BY <2>1, <2>2, <2>8, TickLife
  <2>. QED BY <2>3, <2>4, <2>5, <2>6, <2>7, <2>8, NextCases
<1>. QED BY <1>1, <1>2, IInvHolds, PTL DEF Spec, ImplementsRouteLife, Life!Spec
=============================================================================
