-------------------------- MODULE RipNetworkProofs --------------------------
(***************************************************************************)
(* What a network of daemons keeps true of the route to a destination, for *)
(* every number of routers, every topology, every loss, delay and crash.   *)
(***************************************************************************)
EXTENDS RipNetwork, RipTableProofs

---------------------------------------------------------------------------
(* The inductive invariant: tables and messages under way are honest. *)

Honest(n, metric) == metric >= Dist[n] \/ metric >= RIP_INFINITY

HonestTable(n, r) ==
    /\ r \in Table
    /\ \A i \in Slots : r[i] # NULL => Honest(n, r[i].metric)

\* A message for n, one hop nearer.
HonestMessage(n, m) ==
    /\ m \in Message
    /\ m.metric + 1 >= Dist[n] \/ m.metric >= RIP_INFINITY

HonestBoxes(boxes) ==
    /\ boxes \in [Node -> Seq(Message)]
    /\ \A n \in Node : \A k \in 1 .. Len(boxes[n]) : HonestMessage(n, boxes[n][k])

NInv ==
    /\ TypeOK
    /\ \A n \in Node : HonestTable(n, routes[n])
    /\ HonestBoxes(inbox)

---------------------------------------------------------------------------
(* One slot, one destination. *)

LEMMA OneSlot == Slots = {0} /\ Target \in Dest
BY OneDestination DEF Slots

\* Distances are naturals.
LEMMA DistType == \A n \in Node : Dist[n] \in Nat
BY DistAssumption

LEMMA NoRoutesFact == NoRoutes \in Table /\ \A i \in Slots : NoRoutes[i] = NULL
BY DEF NoRoutes, Table

\* A router's own file gives a distance that is no lie.
LEMMA FileHonest ==
  ASSUME NEW n \in Node
  PROVE  HonestTable(n, FileTable(n))
<1>1. CASE n # Origin
  BY <1>1, NoRoutesFact DEF FileTable, HonestTable
<1>2. CASE n = Origin
  <2> DEFINE line == [dest |-> Target, next |-> Gateway, metric |-> 0,
                      time |-> INFINITE_TIMER, garbage |-> FALSE]
             e == FirstEmpty(NoRoutes)
             kept == [line EXCEPT !.garbage = FALSE]
  <2>1. e \in Slots /\ NoRoutes[e] = NULL
    BY NoRoutesFact, OneSlot, FirstEmptyFact DEF HasRoom
  <2>2. INFINITE_TIMER \in TimeLeft(TIMEOUT)
    BY TimeoutAssumption DEF TimeLeft, INFINITE_TIMER
  <2>3. kept \in Route /\ kept.metric = 0
    BY <2>2, OneSlot, NodeAssumption DEF Route
  <2>4. FileTable(n) = [NoRoutes EXCEPT ![e] = kept]
    BY <1>2 DEF FileTable, Add
  <2>. HIDE DEF e, kept
  <2>5. \A i \in Slots : FileTable(n)[i] # NULL => FileTable(n)[i] = kept
    BY <2>1, <2>4, NoRoutesFact DEF Table
  <2>6. FileTable(n) \in Table
    BY <2>1, <2>3, <2>4, NoRoutesFact DEF Table
  <2>7. Honest(n, 0)
    BY <1>2, DistAssumption DEF Honest
  <2>. QED BY <2>3, <2>5, <2>6, <2>7 DEF HonestTable
<1>. QED BY <1>1, <1>2

---------------------------------------------------------------------------
(* What an entry does to one table. *)

\* A route left by an entry has the metric heard or the one it had.
LEMMA EntryMetric ==
  ASSUME NEW r \in Table, NEW aux \in Route
  PROVE  /\ CompareEntries(r, aux) \in Table
         /\ \A j \in Slots : CompareEntries(r, aux)[j] # NULL =>
              \/ CompareEntries(r, aux)[j].metric = aux.metric
              \/ r[j] # NULL /\ CompareEntries(r, aux)[j].metric = r[j].metric
<1> DEFINE Good(r2) ==
      /\ r2 \in Table
      /\ \A j \in Slots : r2[j] # NULL =>
           \/ r2[j].metric = aux.metric
           \/ r[j] # NULL /\ r2[j].metric = r[j].metric
<1>1. CASE Known(r, aux.dest)
  <2> DEFINE i == FirstOf(r, aux.dest)
  <2>1. i \in Slots /\ Holds(r, i, aux.dest)
    BY <1>1, FirstOfFact
  <2>. HIDE DEF i
  <2>2. PICK k \in Slots, new \in Route :
           /\ CompareKnown(r, i, aux) = Moved(r, i, k, new)
           /\ Attributed(r, i, k, new, aux)
    BY <2>1, AttributedShape
  <2>3. new.metric = aux.metric \/ (k = i /\ new = r[i])
    BY <2>2 DEF Attributed
  <2>4. r[i] # NULL
    BY <2>1 DEF Holds
  <2>5. Good(Moved(r, i, k, new))
    BY <2>3, <2>4 DEF Moved, Table
  <2>6. CompareEntries(r, aux) = Moved(r, i, k, new)
    BY <1>1, <2>2 DEF CompareEntries, i
  <2>. HIDE DEF Good
  <2>7. Good(CompareEntries(r, aux))
    BY <2>5, <2>6
  <2>. QED BY <2>7 DEF Good
<1>2. CASE ~Known(r, aux.dest) /\ Acceptable(aux)
  <2> DEFINE k == FirstEmpty(r)
             new == [aux EXCEPT !.time = TIMEOUT, !.garbage = FALSE]
  <2>1. HasRoom(r)
    BY <1>2, OneSlot, OneDestination DEF HasRoom, Known, Holds, Table, Route
  <2>2. k \in Slots /\ Learn(r, aux) = [r EXCEPT ![k] = new] /\ new \in Route
    BY <2>1, LearnShape
  <2>3. new.metric = aux.metric
    BY DEF Route
  <2>4. CompareEntries(r, aux) = [r EXCEPT ![k] = new]
    BY <1>2, <2>2 DEF CompareEntries
  <2>. HIDE DEF k, new
  <2>5. Good([r EXCEPT ![k] = new])
    BY <2>2, <2>3 DEF Table
  <2>. HIDE DEF Good
  <2>6. Good(CompareEntries(r, aux))
    BY <2>4, <2>5
  <2>. QED BY <2>6 DEF Good
<1>3. CASE ~Known(r, aux.dest) /\ ~Acceptable(aux)
  BY <1>3 DEF CompareEntries
<1>. QED BY <1>1, <1>2, <1>3

\* A metric one hop too small for n is not believed: update_metrics adds the hop.
LEMMA EntryHonest ==
  ASSUME NEW n \in Node, NEW r, HonestTable(n, r), NEW m, HonestMessage(n, m)
  PROVE  HonestTable(n, CompareEntries(r, Heard(m)))
<1> DEFINE aux == Heard(m)
<1>1. m.src \in Router /\ m.metric \in Nat
  BY NodeAssumption DEF HonestMessage, Message
<1>2. /\ UpdateMetric(m.metric) \in Nat
      /\ Honest(n, UpdateMetric(m.metric))
  BY <1>1, DistType, MetricAssumption DEF HonestMessage, UpdateMetric, Honest
<1>3. aux \in Route /\ aux.metric = UpdateMetric(m.metric)
  BY <1>1, <1>2, OneSlot, TimerValues DEF Heard, RouteAux, Route
<1>. HIDE DEF aux
<1>4. HonestTable(n, CompareEntries(r, aux))
  BY <1>2, <1>3, EntryMetric DEF HonestTable
<1>. QED BY <1>4 DEF aux

\* Collecting and flagging change no metric.
LEMMA CollectHonest ==
  ASSUME NEW n \in Node, NEW r, HonestTable(n, r),
         gc_timers[n] \in [Slots -> TimeLeft(GARBAGE_COLLECTOR)]
  PROVE  /\ HonestTable(n, Collected(n, r))
         /\ Countdowns(n, r) \in [Slots -> TimeLeft(GARBAGE_COLLECTOR)]
<1>0. INFINITE_TIMER \in TimeLeft(GARBAGE_COLLECTOR)
      /\ GARBAGE_COLLECTOR \in TimeLeft(GARBAGE_COLLECTOR)
  BY TimesAssumption DEF TimeLeft, INFINITE_TIMER
<1>1. ASSUME NEW i \in Slots
      PROVE  /\ Collected(n, r)[i] # NULL => r[i] # NULL
             /\ Collected(n, r)[i] # NULL =>
                  /\ Collected(n, r)[i] \in Route
                  /\ Collected(n, r)[i].metric = r[i].metric
  <2> DEFINE f == Flagged(r)
             c == Collected(n, r)
  <2>1. r[i] # NULL => r[i] \in Route
    BY DEF HonestTable, Table
  <2>2. ASSUME r[i] # NULL, NEW b \in BOOLEAN
        PROVE  /\ [r[i] EXCEPT !.garbage = b] \in Route
               /\ [r[i] EXCEPT !.garbage = b].metric = r[i].metric
    BY <2>1, <2>2 DEF Route
  <2>3. f[i] = IF Arms(r, i) THEN [r[i] EXCEPT !.garbage = TRUE] ELSE r[i]
    BY DEF Flagged
  <2>4. /\ f[i] # NULL => r[i] # NULL
        /\ r[i] # NULL => f[i] \in Route /\ f[i].metric = r[i].metric
    BY <2>1, <2>2, <2>3 DEF Arms
  <2>5. c[i] \in {NULL, f[i]} \/ (f[i] # NULL /\ c[i] = [f[i] EXCEPT !.garbage = FALSE])
    BY DEF Collected, Swept, Revives
  <2>6. f[i] \in Route => /\ [f[i] EXCEPT !.garbage = FALSE] \in Route
                          /\ [f[i] EXCEPT !.garbage = FALSE].metric = f[i].metric
    BY DEF Route
  <2>. HIDE DEF f, c
  <2>7. /\ c[i] # NULL => r[i] # NULL
        /\ c[i] # NULL => c[i] \in Route /\ c[i].metric = r[i].metric
    BY <2>4, <2>5, <2>6
  <2>. QED BY <2>7 DEF c
<1>2. Collected(n, r) \in Table
  <2>1. \A i \in Slots : Collected(n, r)[i] \in Route \cup {NULL}
    BY <1>1
  <2>2. Collected(n, r) = [i \in Slots |-> Collected(n, r)[i]]
    BY DEF Collected, Swept
  <2>. QED BY <2>1, <2>2 DEF Table
<1>3. HonestTable(n, Collected(n, r))
  BY <1>1, <1>2 DEF HonestTable
<1>4. Armed(r, gc_timers[n]) \in [Slots -> TimeLeft(GARBAGE_COLLECTOR)]
  BY <1>0 DEF Armed
<1>5. Countdowns(n, r) \in [Slots -> TimeLeft(GARBAGE_COLLECTOR)]
  BY <1>0, <1>4 DEF Countdowns, Disarmed
<1>. QED BY <1>3, <1>5

---------------------------------------------------------------------------
(* What is under way. *)

\* A neighbour's honest metric is at most one hop short for whoever hears it, so
\* whichever copies are lost the queues stay honest.
LEMMA SendHonest ==
  ASSUME NEW n \in Node, NEW r, HonestTable(n, r),
         NEW boxes, HonestBoxes(boxes), Send(n, r, boxes)
  PROVE  HonestBoxes(inbox')
<1>1. CASE Occupied(r) = {}
  BY <1>1 DEF Send
<1>2. CASE Occupied(r) # {}
  <2> DEFINE msg == [src |-> n, metric |-> r[0].metric]
  <2>1. PICK heard \in SUBSET Hearers(n) :
          inbox' = [m \in Node |->
               IF m \in heard /\ Len(boxes[m]) < MaxInbox
               THEN Append(boxes[m], msg) ELSE boxes[m]]
    BY <1>2 DEF Send
  <2>2. /\ r[0] \in Route
        /\ Honest(n, r[0].metric)
    BY <1>2, OneSlot DEF Occupied, HonestTable, Table
  <2>3. ASSUME NEW m \in heard PROVE HonestMessage(m, msg)
    <3>1. m \in Node /\ <<n, m>> \in Links
      BY <2>3 DEF Hearers
    <3>2. Dist[m] <= Dist[n] + 1
      <4>1. Dist[<<n, m>>[2]] <= Dist[<<n, m>>[1]] + 1
        BY <3>1, DistAssumption
      <4>. QED BY <4>1
    <3>3. r[0].metric \in Nat
      BY <2>2 DEF Route
    <3>4. msg \in Message
      BY <3>3 DEF Message
    <3>. QED BY <2>2, <3>1, <3>2, <3>3, <3>4, DistType, MetricAssumption
         DEF HonestMessage, Honest
  <2>. HIDE DEF msg
  <2>4. ASSUME NEW m \in Node
        PROVE  /\ inbox'[m] \in Seq(Message)
               /\ \A k \in 1 .. Len(inbox'[m]) : HonestMessage(m, inbox'[m][k])
    <3>1. boxes[m] \in Seq(Message)
      BY DEF HonestBoxes
    <3>2. CASE m \in heard /\ inbox'[m] = Append(boxes[m], msg)
      <4>1. HonestMessage(m, msg) /\ msg \in Message
        BY <2>3, <3>2 DEF HonestMessage
      <4>2. Append(boxes[m], msg) \in Seq(Message)
        BY <3>1, <4>1
      <4>3. ASSUME NEW k \in 1 .. Len(Append(boxes[m], msg))
            PROVE  HonestMessage(m, Append(boxes[m], msg)[k])
        <5>1. CASE k \in 1 .. Len(boxes[m])
          <6>1. Append(boxes[m], msg)[k] = boxes[m][k]
            BY <3>1, <4>1, <5>1
          <6>. QED BY <5>1, <6>1 DEF HonestBoxes
        <5>2. CASE k = Len(boxes[m]) + 1
          <6>1. Append(boxes[m], msg)[k] = msg
            BY <3>1, <4>1, <5>2
          <6>. QED BY <4>1, <6>1
        <5>. QED BY <3>1, <4>1, <4>3, <5>1, <5>2
      <4>. QED BY <3>2, <4>2, <4>3
    <3>3. CASE inbox'[m] = boxes[m]
      BY <3>3 DEF HonestBoxes
    <3>. QED BY <2>1, <3>2, <3>3
  <2>5. inbox' \in [Node -> Seq(Message)]
    BY <2>1, <2>4
  <2>. QED BY <2>4, <2>5 DEF HonestBoxes
<1>. QED BY <1>1, <1>2

\* Taking the first message off a queue leaves honest ones.
LEMMA TailHonest ==
  ASSUME NEW n \in Node, HonestBoxes(inbox), inbox[n] # <<>>
  PROVE  /\ HonestMessage(n, Head(inbox[n]))
         /\ HonestBoxes([inbox EXCEPT ![n] = Tail(@)])
<1>1. inbox[n] \in Seq(Message)
  BY DEF HonestBoxes
<1>2. HonestMessage(n, Head(inbox[n]))
  BY <1>1 DEF HonestBoxes
<1>3. ASSUME NEW k \in 1 .. Len(Tail(inbox[n]))
      PROVE  HonestMessage(n, Tail(inbox[n])[k])
  <2>1. k + 1 \in 1 .. Len(inbox[n]) /\ Tail(inbox[n])[k] = inbox[n][k + 1]
    BY <1>1, <1>3
  <2>. QED BY <2>1 DEF HonestBoxes
<1>4. Tail(inbox[n]) \in Seq(Message)
  BY <1>1
<1>. QED BY <1>2, <1>3, <1>4 DEF HonestBoxes

---------------------------------------------------------------------------
(* Every step keeps the invariant. *)

LEMMA InitNInv == Init => NInv
<1>. SUFFICES ASSUME Init PROVE NInv
  OBVIOUS
<1>1. \A n \in Node : HonestTable(n, routes[n])
  BY FileHonest DEF Init
<1>2. routes \in [Node -> Table]
  BY <1>1 DEF Init, HonestTable
<1>3. HonestBoxes(inbox)
  <2>1. <<>> \in Seq(Message) /\ Len(<<>>) = 0
    OBVIOUS
  <2>2. \A n \in Node : inbox[n] = <<>>
    BY DEF Init
  <2>3. inbox \in [Node -> Seq(Message)]
    BY <2>1 DEF Init
  <2>. QED BY <2>1, <2>2, <2>3 DEF HonestBoxes
<1>4. NoCountdown \in [Slots -> TimeLeft(GARBAGE_COLLECTOR)]
  BY TimesAssumption DEF NoCountdown, TimeLeft, INFINITE_TIMER, TIMER_ZERO
<1>5. update_timer \in [Node -> Nat]
  BY TimesAssumption DEF Init
<1>. QED BY <1>1, <1>2, <1>3, <1>4, <1>5 DEF Init, NInv, TypeOK, HonestBoxes

\* A step that gives one router an honest table and typed countdowns.
LEMMA CollectStep ==
  ASSUME NInv, NEW n \in Node, NEW r, HonestTable(n, r), Collect(n, r)
  PROVE  /\ routes' \in [Node -> Table]
         /\ gc_timers' \in [Node -> [Slots -> TimeLeft(GARBAGE_COLLECTOR)]]
         /\ \A m \in Node : HonestTable(m, routes'[m])
<1>1. /\ HonestTable(n, Collected(n, r))
      /\ Countdowns(n, r) \in [Slots -> TimeLeft(GARBAGE_COLLECTOR)]
  BY CollectHonest DEF NInv, TypeOK
<1>2. /\ routes' = [routes EXCEPT ![n] = Collected(n, r)]
      /\ gc_timers' = [gc_timers EXCEPT ![n] = Countdowns(n, r)]
  BY DEF Collect
<1>3. Collected(n, r) \in Table
  BY <1>1 DEF HonestTable
<1>. QED BY <1>1, <1>2, <1>3 DEF NInv, TypeOK

LEMMA NInvStep == NInv /\ [Next]_nvars => NInv'
<1>. SUFFICES ASSUME NInv, [Next]_nvars PROVE NInv'
  OBVIOUS
<1>0. NInv' <=> /\ TypeOK'
                /\ \A n \in Node : HonestTable(n, routes'[n])
                /\ HonestBoxes(inbox')
  BY DEF NInv
<1>1. ASSUME NEW n \in Node, Announce(n) PROVE NInv'
  <2>1. HonestBoxes(inbox')
    BY <1>1, SendHonest DEF Announce, NInv
  <2>2. update_timer' \in [Node -> Nat]
    BY <1>1, TimesAssumption DEF Announce, NInv, TypeOK
  <2>. QED BY <1>0, <1>1, <2>1, <2>2 DEF Announce, NInv, TypeOK, HonestBoxes
<1>2. ASSUME NEW n \in Node, Quiet(n) PROVE NInv'
  <2>1. HonestTable(n, routes[n]) /\ Collect(n, routes[n])
    BY <1>2 DEF Quiet, NInv
  <2>. QED BY <1>0, <1>2, <2>1, CollectStep DEF Quiet, NInv, TypeOK, HonestBoxes
<1>3. ASSUME NEW n \in Node, Receive(n) PROVE NInv'
  <2> DEFINE aux == Heard(Head(inbox[n]))
             r == CompareEntries(routes[n], aux)
             rest == [inbox EXCEPT ![n] = Tail(@)]
  <2>1. /\ Collect(n, r)
        /\ Send(n, r, rest) \/ inbox' = rest
        /\ UNCHANGED <<up, update_timer, lossy>>
    BY <1>3 DEF Receive
  <2>2. HonestMessage(n, Head(inbox[n])) /\ HonestBoxes(rest)
    BY <1>3, TailHonest DEF Receive, NInv
  <2>3. HonestTable(n, r)
    BY <2>2, EntryHonest DEF NInv
  <2>. HIDE DEF r, rest
  <2>4. HonestBoxes(inbox')
    BY <2>1, <2>2, <2>3, SendHonest
  <2>. QED BY <1>0, <2>1, <2>3, <2>4, CollectStep DEF NInv, TypeOK, HonestBoxes
<1>4. ASSUME NEW n \in Node, Crash(n) PROVE NInv'
  <2>1. HonestTable(n, NoRoutes) /\ NoRoutes \in Table
    BY NoRoutesFact DEF HonestTable
  <2>2. NoCountdown \in [Slots -> TimeLeft(GARBAGE_COLLECTOR)]
    BY TimesAssumption DEF NoCountdown, TimeLeft, INFINITE_TIMER, TIMER_ZERO
  <2>3. HonestBoxes(inbox')
    <3>1. inbox' = [inbox EXCEPT ![n] = <<>>]
      BY <1>4 DEF Crash
    <3>2. <<>> \in Seq(Message) /\ Len(<<>>) = 0
      OBVIOUS
    <3>3. \A m \in Node : inbox'[m] = <<>> \/ inbox'[m] = inbox[m]
      BY <3>1 DEF NInv, HonestBoxes
    <3>. QED BY <3>1, <3>2, <3>3 DEF NInv, HonestBoxes
  <2>4. \A m \in Node : HonestTable(m, routes'[m])
    BY <1>4, <2>1 DEF Crash, NInv, TypeOK
  <2>. QED BY <1>0, <1>4, <2>1, <2>2, <2>3, <2>4 DEF Crash, NInv, TypeOK, HonestBoxes
<1>5. ASSUME NEW n \in Node, Restart(n) PROVE NInv'
  <2>1. HonestTable(n, FileTable(n)) /\ FileTable(n) \in Table
    BY FileHonest DEF HonestTable
  <2>2. update_timer' \in [Node -> Nat]
    BY <1>5, TimesAssumption DEF Restart, NInv, TypeOK
  <2>3. \A m \in Node : HonestTable(m, routes'[m])
    BY <1>5, <2>1 DEF Restart, NInv, TypeOK
  <2>. QED BY <1>0, <1>5, <2>1, <2>2, <2>3 DEF Restart, NInv, TypeOK
<1>6. CASE Stabilise
  BY <1>0, <1>6 DEF Stabilise, NInv, TypeOK
<1>7. CASE Tick
  <2>1. ASSUME NEW n \in Node, NEW i \in Slots
        PROVE  /\ routes[n][i] # NULL => /\ routes'[n][i] \in Route
                                         /\ routes'[n][i].metric = routes[n][i].metric
               /\ routes[n][i] = NULL => routes'[n][i] = NULL
    <3>1. routes'[n][i] = IF routes[n][i] = NULL THEN NULL
                          ELSE [routes[n][i] EXCEPT !.time = Elapse(@)]
      BY <1>7 DEF Tick
    <3>2. ASSUME routes[n][i] # NULL
          PROVE  /\ [routes[n][i] EXCEPT !.time = Elapse(@)] \in Route
                 /\ [routes[n][i] EXCEPT !.time = Elapse(@)].metric = routes[n][i].metric
      <4>1. routes[n][i] \in Route
        BY <3>2 DEF NInv, TypeOK, Table
      <4>2. Elapse(routes[n][i].time) \in TimeLeft(TIMEOUT)
        BY <4>1, TimeoutAssumption DEF Route, Elapse, TimeLeft, INFINITE_TIMER
      <4>. QED BY <4>1, <4>2 DEF Route
    <3>. QED BY <3>1, <3>2
  <2>2. ASSUME NEW n \in Node PROVE HonestTable(n, routes'[n])
    <3>1. routes'[n] = [i \in Slots |-> routes'[n][i]]
      BY <1>7 DEF Tick
    <3>2. routes'[n] \in Table
      BY <2>1, <3>1 DEF Table
    <3>. QED BY <2>1, <3>2 DEF HonestTable, NInv
  <2>3. routes' \in [Node -> Table]
    BY <1>7, <2>2 DEF Tick, HonestTable
  <2>4. gc_timers' \in [Node -> [Slots -> TimeLeft(GARBAGE_COLLECTOR)]]
    <3>1. ASSUME NEW n \in Node, NEW i \in Slots
          PROVE  Elapse(gc_timers[n][i]) \in TimeLeft(GARBAGE_COLLECTOR)
      BY TimesAssumption DEF NInv, TypeOK, Elapse, TimeLeft, INFINITE_TIMER
    <3>. QED BY <1>7, <3>1 DEF Tick
  <2>5. update_timer' \in [Node -> Nat]
    BY <1>7 DEF Tick, NInv, TypeOK, Elapse
  <2>. QED BY <1>0, <1>7, <2>2, <2>3, <2>4, <2>5 DEF Tick, NInv, TypeOK, HonestBoxes
<1>8. CASE UNCHANGED nvars
  BY <1>0, <1>8 DEF nvars, NInv, TypeOK
<1>. QED BY <1>1, <1>2, <1>3, <1>4, <1>5, <1>6, <1>7, <1>8 DEF Next, Loops

LEMMA NInvHolds == Spec => []NInv
<1>. QED BY InitNInv, NInvStep, PTL DEF Spec

\* Tables, timers and queues of every router keep their types through losses,
\* crashes and restarts.
THEOREM NetworkTypeCorrect == Spec => []TypeOK
<1>1. NInv => TypeOK
  BY DEF NInv
<1>. QED BY <1>1, NInvHolds, PTL

\* In every network, whatever is lost, late or forgotten in a crash and however
\* old the tables that are taught, no router believes a destination nearer than
\* it is: the metric of a route is its true distance at least.
THEOREM MetricsAreHonest == Spec => []MetricIsHonest
<1>1. NInv => MetricIsHonest
  <2>. SUFFICES ASSUME NInv, NEW n \in Node, Known(routes[n], Target)
                PROVE  Honest(n, routes[n][FirstOf(routes[n], Target)].metric)
    BY DEF MetricIsHonest, Honest
  <2>1. /\ FirstOf(routes[n], Target) \in Slots
        /\ routes[n][FirstOf(routes[n], Target)] # NULL
    BY FirstOfFact DEF Holds
  <2>. QED BY <2>1 DEF NInv, HonestTable
<1>. QED BY <1>1, NInvHolds, PTL
=============================================================================
