-------------------------- MODULE RipHistoryProofs --------------------------
(***************************************************************************)
(* The table believes its next hops, and a route's life counts from their  *)
(* last word, for every number of routers, destinations and slots.  Both   *)
(* rest on UniqueDest: an entry corrects the one slot of its destination.  *)
(***************************************************************************)
EXTENDS RipHistory, RipServerProofs

HTypeOK ==
    /\ heard \in [Router -> [Dest -> Int]]
    /\ confirmed \in [Dest -> Nat]

HInv == HTypeOK /\ BelievesNextHop /\ LifeCountsFromNextHop

---------------------------------------------------------------------------
\* The history follows the daemon: each of its steps is one of the daemon.
LEMMA HistoryStepsServer == [HNext]_hvars => [Next]_vars
BY DEF HNext, HCompareEntry, HGarbageCollectorStart, HTick, HOther, hvars, Next, Loop

LEMMA HistoryRefines == HSpec => Spec
<1>1. HInit => Init
  BY DEF HInit
<1>. QED BY <1>1, HistoryStepsServer, PTL DEF HSpec, Spec

\* What a slot holds after an entry: a route to another destination, as before;
\* one the sender has just announced; or one through another next hop, untouched.
LEMMA SlotAfterEntry ==
  ASSUME TypeOK, UniqueDest, CompareEntry, NEW s \in Slots, routes'[s] # NULL
  PROVE  \/ routes'[s].dest # Aux.dest /\ routes[s] = routes'[s]
         \/ /\ routes'[s].dest = Aux.dest
            /\ routes'[s].next = src
            /\ routes'[s].metric = Aux.metric
            /\ \/ routes'[s].time = TIMEOUT
               \/ routes'[s].time = TIMER_ZERO /\ Aux.metric = RIP_INFINITY
            /\ routes'[s].garbage =>
                   routes[s] # NULL /\ routes[s].garbage /\ routes[s].dest = Aux.dest
         \/ /\ routes'[s].dest = Aux.dest
            /\ routes[s] = routes'[s]
            /\ routes[s].next # src
<1>0. /\ Aux \in Route /\ Aux.next = src
      /\ routes \in Table /\ routes' = CompareEntries(routes, Aux)
  BY AuxType DEF CompareEntry, TypeOK, Aux, RouteAux
<1>1. CASE Known(routes, Aux.dest)
  <2> DEFINE i == FirstOf(routes, Aux.dest)
  <2>1. i \in Slots /\ Holds(routes, i, Aux.dest)
    BY <1>1, FirstOfFact
  <2>2. routes' = CompareKnown(routes, i, Aux)
    BY <1>0, <1>1 DEF CompareEntries
  <2>. HIDE DEF i
  <2>3. PICK k \in Slots, new \in Route :
           /\ k = i \/ routes[k] = NULL
           /\ routes' = Moved(routes, i, k, new)
           /\ new.dest = Aux.dest
           /\ Attributed(routes, i, k, new, Aux)
    BY <1>0, <2>1, <2>2, AttributedShape
  <2>4. CASE s = k
    <3>1. routes'[s] = new
      BY <2>3, <2>4 DEF Moved
    <3>. QED BY <1>0, <2>1, <2>3, <2>4, <3>1 DEF Attributed, Holds
  <2>5. CASE s # k
    <3>1. s # i /\ routes'[s] = routes[s]
      BY <2>3, <2>5 DEF Moved
    <3>2. routes[s].dest # Aux.dest
      BY <2>1, <3>1 DEF UniqueDest, Holds
    <3>. QED BY <3>1, <3>2
  <2>. QED BY <2>4, <2>5
<1>2. CASE ~Known(routes, Aux.dest) /\ Acceptable(Aux)
  <2>1. HasRoom(routes) /\ routes' = Learn(routes, Aux)
    BY <1>0, <1>2 DEF CompareEntries, NeedsSlot, CompareEntry
  <2> DEFINE k == FirstEmpty(routes)
             new == [Aux EXCEPT !.time = TIMEOUT, !.garbage = FALSE]
  <2>2. k \in Slots /\ Learn(routes, Aux) = [routes EXCEPT ![k] = new]
    BY <1>0, <2>1, LearnShape
  <2>3. /\ new.dest = Aux.dest /\ new.next = src
        /\ new.metric = Aux.metric /\ new.time = TIMEOUT /\ ~new.garbage
    BY <1>0 DEF Route
  <2>. HIDE DEF k, new
  <2>4. CASE s = k
    BY <1>0, <2>1, <2>2, <2>3, <2>4 DEF Table
  <2>5. CASE s # k
    BY <1>0, <1>2, <2>1, <2>2, <2>5 DEF Table, Known, Holds
  <2>. QED BY <2>4, <2>5
<1>3. CASE ~Known(routes, Aux.dest) /\ ~Acceptable(Aux)
  <2>1. routes' = routes
    BY <1>0, <1>3 DEF CompareEntries
  <2>. QED BY <1>3, <2>1 DEF Known, Holds
<1>. QED BY <1>1, <1>2, <1>3

\* Every other step of the loop leaves what a route says and its time alone.
LEMMA OthersKeepRoutes ==
  ASSUME TypeOK,
         \/ Quiet \/ UNCHANGED vars \/ AnswerSpecific
         \/ GarbageCollectorStart \/ GarbageCollector,
         NEW s \in Slots, routes'[s] # NULL
  PROVE  /\ routes[s] # NULL
         /\ routes'[s].dest = routes[s].dest
         /\ routes'[s].next = routes[s].next
         /\ routes'[s].metric = routes[s].metric
         /\ routes'[s].time = routes[s].time
<1>1. CASE Quiet \/ UNCHANGED vars
  BY <1>1, QuietKeepsTable
<1>2. CASE AnswerSpecific \/ GarbageCollectorStart
  <2>1. routes[s] # NULL /\ routes[s] \in Route
    BY <1>2, InPlace DEF TypeOK, Table
  <2>2. CASE AnswerSpecific
    BY <2>1, <2>2 DEF AnswerSpecific, Unflagged, Route
  <2>3. CASE GarbageCollectorStart
    BY <2>1, <2>3 DEF GarbageCollectorStart, Flagged, Route
  <2>. QED BY <1>2, <2>2, <2>3
<1>3. CASE GarbageCollector
  <2>1. routes[s] # NULL /\ ~Collects(routes, gc_timers, s) /\ routes[s] \in Route
    BY <1>3, SweepEmpties DEF TypeOK, Table
  <2>. QED BY <1>3, <2>1 DEF GarbageCollector, Swept, Route
<1>. QED BY <1>1, <1>2, <1>3

---------------------------------------------------------------------------
LEMMA InitHInv == HInit => HInv
<1>. SUFFICES ASSUME HInit PROVE HInv
  OBVIOUS
<1>1. PICK f \in Files : routes = FileTable(f)
  BY DEF HInit, Init
<1>2. \A i \in Slots : routes[i] # NULL => routes[i].time = INFINITE_TIMER
  BY <1>1 DEF FileTable
<1>3. HTypeOK
  BY TimeoutAssumption, GarbageAssumption DEF HInit, HTypeOK, Ages, Unheard
<1>. QED BY <1>2, <1>3 DEF HInv, BelievesNextHop, LifeCountsFromNextHop, Learned,
            INFINITE_TIMER

\* An entry: the slot of its destination follows the sender or another next hop
\* that keeps its word; the other slots are not concerned.
LEMMA EntryStep ==
  ASSUME TypeOK, UniqueDest, UniqueDest', HInv, HCompareEntry
  PROVE  HInv'
<1>0. CompareEntry /\ src \in Router /\ Aux.dest \in Dest /\ Aux.metric \in Nat
  BY AuxType DEF HCompareEntry, CompareEntry, TypeOK, Route
<1>1. /\ heard' = [heard EXCEPT ![src][Aux.dest] = Aux.metric]
      /\ confirmed' = [confirmed EXCEPT ![Aux.dest] = IF Vouches(Aux) THEN 0 ELSE @]
      /\ heard \in [Router -> [Dest -> Int]] /\ confirmed \in [Dest -> Nat]
  BY DEF HCompareEntry, HInv, HTypeOK
<1>2. HTypeOK'
  BY <1>0, <1>1 DEF HTypeOK
<1>3. \A s \in Slots : routes[s] # NULL => routes[s] \in Route
  BY DEF TypeOK, Table
<1>4. ASSUME NEW s \in Slots, routes'[s] # NULL, routes'[s].time # INFINITE_TIMER
      PROVE  heard'[routes'[s].next][routes'[s].dest] = routes'[s].metric
  <2>1. CASE routes'[s].dest # Aux.dest /\ routes[s] = routes'[s]
    <3>1. heard[routes[s].next][routes[s].dest] = routes[s].metric
      BY <1>4, <2>1 DEF HInv, BelievesNextHop, Learned
    <3>. QED BY <1>0, <1>1, <1>3, <1>4, <2>1, <3>1 DEF Route
  <2>2. CASE /\ routes'[s].dest = Aux.dest /\ routes'[s].next = src
             /\ routes'[s].metric = Aux.metric
    BY <1>0, <1>1, <2>2
  <2>3. CASE /\ routes'[s].dest = Aux.dest /\ routes[s] = routes'[s]
             /\ routes[s].next # src
    <3>1. heard[routes[s].next][routes[s].dest] = routes[s].metric
      BY <1>4, <2>3 DEF HInv, BelievesNextHop, Learned
    <3>. QED BY <1>0, <1>1, <1>3, <1>4, <2>3, <3>1 DEF Route
  <2>. QED BY <1>0, <1>4, <2>1, <2>2, <2>3, SlotAfterEntry
<1>5. ASSUME NEW s \in Slots, routes'[s] # NULL, routes'[s].time > 0,
             routes'[s].metric # RIP_INFINITY
      PROVE  confirmed'[routes'[s].dest] + routes'[s].time = TIMEOUT
  <2>1. CASE routes'[s].dest # Aux.dest /\ routes[s] = routes'[s]
    <3>1. confirmed[routes[s].dest] + routes[s].time = TIMEOUT
      BY <1>5, <2>1 DEF HInv, LifeCountsFromNextHop
    <3>2. confirmed'[routes[s].dest] = confirmed[routes[s].dest]
      BY <1>0, <1>1, <1>3, <1>5, <2>1 DEF Route
    <3>. QED BY <2>1, <3>1, <3>2
  <2>2. CASE /\ routes'[s].dest = Aux.dest /\ routes'[s].next = src
             /\ routes'[s].metric = Aux.metric
             /\ \/ routes'[s].time = TIMEOUT
                \/ routes'[s].time = TIMER_ZERO
    <3>1. routes'[s].time = TIMEOUT
      BY <1>5, <2>2 DEF TIMER_ZERO
    <3>2. Vouches(Aux)
      BY <1>5, <2>2 DEF Vouches, Holds, Aux, RouteAux
    <3>3. confirmed'[Aux.dest] = 0
      BY <1>0, <1>1, <3>2
    <3>. QED BY <2>2, <3>1, <3>3, TimeoutAssumption
  <2>3. CASE /\ routes'[s].dest = Aux.dest /\ routes[s] = routes'[s]
             /\ routes[s].next # src
    <3>1. ~Vouches(Aux)
      <4>. SUFFICES ASSUME NEW i \in Slots, Holds(routes', i, Aux.dest),
                           routes'[i].next = Aux.next
                    PROVE  FALSE
        BY DEF Vouches
      <4>1. i = s
        BY <1>5, <2>3 DEF UniqueDest, Holds
      <4>. QED BY <2>3, <4>1 DEF Aux, RouteAux
    <3>2. confirmed' = confirmed
      BY <1>1, <3>1
    <3>. QED BY <1>5, <2>3, <3>2 DEF HInv, LifeCountsFromNextHop
  <2>. QED BY <1>0, <1>5, <2>1, <2>2, <2>3, SlotAfterEntry
<1>. QED BY <1>2, <1>4, <1>5 DEF HInv, BelievesNextHop, LifeCountsFromNextHop, Learned

\* The clock takes from a life what it adds to the time since it was given.
LEMMA HTickStep ==
  ASSUME TypeOK, HInv, HTick
  PROVE  HInv'
<1>0. Tick /\ heard' = heard /\ Ages \in Nat /\ TIMEOUT \in Nat /\ TIMEOUT <= Ages
  BY TimeoutAssumption, GarbageAssumption DEF HTick, Ages
<1>1. confirmed' = [d \in Dest |-> Older(confirmed[d], Ages)]
  BY DEF HTick
<1>2. HTypeOK'
  BY <1>0, <1>1 DEF HInv, HTypeOK, Older
<1>3. ASSUME NEW s \in Slots, routes'[s] # NULL
      PROVE  /\ routes[s] # NULL
             /\ routes[s].dest \in Dest /\ routes[s].time \in Int
             /\ routes'[s].dest = routes[s].dest
             /\ routes'[s].next = routes[s].next
             /\ routes'[s].metric = routes[s].metric
             /\ routes'[s].time = Elapse(routes[s].time)
  <2>1. routes[s] # NULL /\ routes[s] \in Route
    BY <1>0, <1>3, InPlace DEF TypeOK, Table
  <2>. QED BY <1>0, <2>1 DEF Tick, Route, TimeLeft, INFINITE_TIMER
<1>4. BelievesNextHop'
  BY <1>0, <1>3 DEF HInv, BelievesNextHop, Learned, Elapse, INFINITE_TIMER
<1>5. LifeCountsFromNextHop'
  <2>. SUFFICES ASSUME NEW s \in Slots, routes'[s] # NULL, routes'[s].time > 0,
                       routes'[s].metric # RIP_INFINITY
                PROVE  confirmed'[routes'[s].dest] + routes'[s].time = TIMEOUT
    BY DEF LifeCountsFromNextHop
  <2> DEFINE d == routes[s].dest
  <2>1. routes[s].time > 0 /\ routes'[s].time = routes[s].time - 1
    BY <1>3 DEF Elapse
  <2>2. confirmed[d] \in Nat /\ confirmed[d] + routes[s].time = TIMEOUT
    BY <1>3, <2>1 DEF HInv, HTypeOK, LifeCountsFromNextHop
  <2>3. confirmed[d] < Ages
    BY <1>0, <1>3, <2>1, <2>2
  <2>4. confirmed'[d] = confirmed[d] + 1
    BY <1>1, <1>3, <2>3 DEF Older
  <2>5. \A w, a \in Int, v, b \in Int :
            w = v + 1 /\ a = b - 1 /\ v + b = TIMEOUT => w + a = TIMEOUT
    BY <1>0
  <2>. HIDE DEF d
  <2>6. confirmed'[d] + routes'[s].time = TIMEOUT
    BY <1>3, <2>1, <2>2, <2>4, <2>5
  <2>. QED BY <1>3, <2>6 DEF d
<1>. QED BY <1>2, <1>4, <1>5 DEF HInv

\* The rest of the loop touches neither the history nor what it speaks of.
LEMMA HOtherStep ==
  ASSUME TypeOK, HInv,
         HGarbageCollectorStart \/ HOther \/ UNCHANGED hvars
  PROVE  HInv'
<1>1. heard' = heard /\ confirmed' = confirmed
  BY DEF HGarbageCollectorStart, HOther, hvars
<1>2. \/ Quiet \/ UNCHANGED vars \/ AnswerSpecific
      \/ GarbageCollectorStart \/ GarbageCollector
  <2>1. ASSUME HOther PROVE ~CompareEntry
    BY <2>1 DEF HOther, CompareEntry
  <2>. QED BY <2>1 DEF HGarbageCollectorStart, HOther, Loop, Quiet, hvars
<1>3. ASSUME NEW s \in Slots, routes'[s] # NULL
      PROVE  /\ routes[s] # NULL
             /\ routes'[s].dest = routes[s].dest
             /\ routes'[s].next = routes[s].next
             /\ routes'[s].metric = routes[s].metric
             /\ routes'[s].time = routes[s].time
  BY <1>2, <1>3, OthersKeepRoutes
<1>. QED BY <1>1, <1>3 DEF HInv, HTypeOK, BelievesNextHop, LifeCountsFromNextHop,
            Learned

LEMMA HInvHolds == HSpec => []HInv
<1>1. TypeOK /\ UniqueDest /\ UniqueDest' /\ HInv /\ [HNext]_hvars => HInv'
  BY EntryStep, HTickStep, HOtherStep DEF HNext
<1>. QED BY <1>1, InitHInv, HistoryRefines, TypeCorrect, DestinationsAreUnique, PTL
         DEF HSpec

\* A learned route carries the metric its next hop gave last, however entries of
\* different routers, requests, moves and collections interleave.
THEOREM TableBelievesNextHop == HSpec => []BelievesNextHop
<1>1. HInv => BelievesNextHop
  BY DEF HInv
<1>. QED BY <1>1, HInvHolds, PTL

\* The life left to a reachable route and the time since its next hop vouched for
\* it make up TIMEOUT: nothing else prolongs or shortens it.
THEOREM LivesCountFromNextHop == HSpec => []LifeCountsFromNextHop
<1>1. HInv => LifeCountsFromNextHop
  BY DEF HInv
<1>. QED BY <1>1, HInvHolds, PTL

---------------------------------------------------------------------------
(* Why a forgotten destination was silent.                                  *)

\* A flagged route's countdown and the time since it was flagged make up the whole
\* countdown; an expired reachable route has not been vouched for in TIMEOUT, and
\* a flagged one in as much longer as it has been flagged.
SilenceOf(r, gc, c, fl, s) ==
    LET d == r[s].dest IN
    r[s] # NULL =>
        /\ r[s].garbage => fl[d] + gc[s] = GARBAGE_COLLECTOR
        /\ r[s].metric # RIP_INFINITY =>
               /\ r[s].time = TIMER_ZERO => c[d] >= TIMEOUT
               /\ r[s].garbage => c[d] >= TIMEOUT + fl[d]

SilenceInv ==
    /\ flagged \in [Dest -> Nat]
    /\ \A s \in Slots : SilenceOf(routes, gc_timers, confirmed, flagged, s)

LEMMA InitSilence == HInit => SilenceInv
<1>. SUFFICES ASSUME HInit PROVE SilenceInv
  OBVIOUS
<1>1. PICK f \in Files : routes = FileTable(f)
  BY DEF HInit, Init
<1>2. \A i \in Slots : routes[i] # NULL =>
         routes[i].time = INFINITE_TIMER /\ ~routes[i].garbage
  BY <1>1 DEF FileTable
<1>. QED BY <1>2 DEF HInit, SilenceInv, SilenceOf, INFINITE_TIMER, TIMER_ZERO

\* Routes of other destinations and untouched ones keep their history; one the
\* sender announces is refreshed, or withdrawn and then its metric says so.
LEMMA EntryKeepsSilence ==
  ASSUME TypeOK, UniqueDest, UniqueDest', FlagMeansCountdown', HTypeOK,
         SilenceInv, HCompareEntry
  PROVE  SilenceInv'
<1>0. CompareEntry /\ src \in Router /\ Aux.dest \in Dest
  BY AuxType DEF HCompareEntry, CompareEntry, TypeOK, Route
<1>1. /\ confirmed' = [confirmed EXCEPT ![Aux.dest] = IF Vouches(Aux) THEN 0 ELSE @]
      /\ flagged' = flagged /\ gc_timers' = gc_timers
      /\ confirmed \in [Dest -> Nat]
  BY DEF HCompareEntry, CompareEntry, HTypeOK
<1>2. ASSUME NEW s \in Slots, routes'[s] # NULL
      PROVE  SilenceOf(routes', gc_timers', confirmed', flagged', s)
  <2>0. SilenceOf(routes, gc_timers, confirmed, flagged, s)
    BY DEF SilenceInv
  <2>1. CASE routes'[s].dest # Aux.dest /\ routes[s] = routes'[s]
    <3>1. routes[s] \in Route
      BY <1>2, <2>1 DEF TypeOK, Table
    <3>2. confirmed'[routes[s].dest] = confirmed[routes[s].dest]
      BY <1>1, <2>1, <3>1 DEF Route
    <3>. QED BY <1>1, <2>0, <2>1, <3>2 DEF SilenceOf
  <2>2. CASE /\ routes'[s].dest = Aux.dest
             /\ routes'[s].metric = Aux.metric
             /\ \/ routes'[s].time = TIMEOUT
                \/ routes'[s].time = TIMER_ZERO /\ Aux.metric = RIP_INFINITY
             /\ routes'[s].garbage =>
                    routes[s] # NULL /\ routes[s].garbage /\ routes[s].dest = Aux.dest
    <3>1. TIMEOUT # TIMER_ZERO
      BY TimeoutAssumption DEF TIMER_ZERO
    <3>2. routes'[s].garbage => routes'[s].time = TIMER_ZERO
      BY <1>2 DEF FlagMeansCountdown
    <3>3. routes'[s].garbage =>
              flagged'[routes'[s].dest] + gc_timers'[s] = GARBAGE_COLLECTOR
      BY <1>1, <2>0, <2>2 DEF SilenceOf
    <3>. QED BY <2>2, <3>1, <3>2, <3>3 DEF SilenceOf
  <2>3. CASE /\ routes'[s].dest = Aux.dest /\ routes[s] = routes'[s]
             /\ routes[s].next # src
    <3>1. ~Vouches(Aux)
      <4>. SUFFICES ASSUME NEW i \in Slots, Holds(routes', i, Aux.dest),
                           routes'[i].next = Aux.next
                    PROVE  FALSE
        BY DEF Vouches
      <4>1. i = s
        BY <1>2, <2>3 DEF UniqueDest, Holds
      <4>. QED BY <2>3, <4>1 DEF Aux, RouteAux
    <3>2. confirmed' = confirmed
      BY <1>1, <3>1
    <3>. QED BY <1>1, <2>0, <2>3, <3>2 DEF SilenceOf
  <2>. QED BY <1>0, <1>2, <2>1, <2>2, <2>3, SlotAfterEntry
<1>3. ASSUME NEW s \in Slots, routes'[s] = NULL
      PROVE  SilenceOf(routes', gc_timers', confirmed', flagged', s)
  BY <1>3 DEF SilenceOf
<1>. QED BY <1>1, <1>2, <1>3 DEF SilenceInv

\* A countdown starts for expired routes only, which have been silent for TIMEOUT.
LEMMA StartKeepsSilence ==
  ASSUME TypeOK, UniqueDest, HTypeOK, SilenceInv, HGarbageCollectorStart
  PROVE  SilenceInv'
<1>1. /\ GarbageCollectorStart /\ confirmed' = confirmed
      /\ confirmed \in [Dest -> Nat] /\ flagged \in [Dest -> Nat]
      /\ flagged' = [d \in Dest |->
             IF \E i \in Slots : Arms(routes, i) /\ routes[i].dest = d
             THEN 0 ELSE flagged[d]]
      /\ GARBAGE_COLLECTOR \in Nat /\ TIMEOUT \in Nat
  BY GarbageAssumption, TimeoutAssumption
  DEF HGarbageCollectorStart, HTypeOK, SilenceInv
<1>2. ASSUME NEW s \in Slots, routes'[s] # NULL
      PROVE  SilenceOf(routes', gc_timers', confirmed', flagged', s)
  <2>0. SilenceOf(routes, gc_timers, confirmed, flagged, s)
    BY DEF SilenceInv
  <2>1. routes[s] # NULL /\ routes[s] \in Route /\ routes[s].dest \in Dest
    BY <1>1, <1>2, InPlace DEF TypeOK, Table, Route
  <2>2. CASE Arms(routes, s)
    <3>1. /\ routes'[s] = [routes[s] EXCEPT !.garbage = TRUE]
          /\ gc_timers'[s] = GARBAGE_COLLECTOR /\ routes[s].time = TIMER_ZERO
      BY <1>1, <2>2 DEF GarbageCollectorStart, Flagged, Arms
    <3>2. /\ routes'[s].dest = routes[s].dest /\ routes'[s].metric = routes[s].metric
          /\ routes'[s].time = routes[s].time
      BY <2>1, <3>1 DEF Route
    <3>3. flagged'[routes[s].dest] = 0
      BY <1>1, <2>1, <2>2
    <3>4. routes[s].metric # RIP_INFINITY => confirmed[routes[s].dest] >= TIMEOUT
      BY <2>0, <2>1, <3>1 DEF SilenceOf
    <3>. QED BY <1>1, <3>1, <3>2, <3>3, <3>4 DEF SilenceOf
  <2>3. CASE ~Arms(routes, s)
    <3>1. routes'[s] = routes[s] /\ gc_timers'[s] = gc_timers[s]
      BY <1>1, <2>3 DEF GarbageCollectorStart, Flagged
    <3>2. \A i \in Slots : Arms(routes, i) => routes[i].dest # routes[s].dest
      BY <2>1, <2>3 DEF UniqueDest, Arms
    <3>3. flagged'[routes[s].dest] = flagged[routes[s].dest]
      BY <1>1, <2>1, <3>2
    <3>. QED BY <1>1, <2>0, <3>1, <3>3 DEF SilenceOf
  <2>. QED BY <2>2, <2>3
<1>3. ASSUME NEW s \in Slots, routes'[s] = NULL
      PROVE  SilenceOf(routes', gc_timers', confirmed', flagged', s)
  BY <1>3 DEF SilenceOf
<1>4. flagged' \in [Dest -> Nat]
  BY <1>1
<1>. QED BY <1>2, <1>3, <1>4 DEF SilenceInv

\* What a tick adds to the ages, up to their bounds, it takes from the timers.
LEMMA TickKeepsSilence ==
  ASSUME TypeOK, FlagMeansCountdown, HInv, SilenceInv, HTick
  PROVE  SilenceInv'
<1>1. /\ Tick /\ confirmed \in [Dest -> Nat] /\ flagged \in [Dest -> Nat]
      /\ confirmed' = [d \in Dest |-> Older(confirmed[d], Ages)]
      /\ flagged' = [d \in Dest |-> Older(flagged[d], GARBAGE_COLLECTOR)]
      /\ GARBAGE_COLLECTOR \in Nat /\ TIMEOUT \in Nat \ {0}
  BY GarbageAssumption, TimeoutAssumption DEF HTick, HInv, HTypeOK, SilenceInv
<1>2. ASSUME NEW s \in Slots, routes'[s] # NULL
      PROVE  SilenceOf(routes', gc_timers', confirmed', flagged', s)
  <2> DEFINE d == routes[s].dest
             c == confirmed[d]   fl == flagged[d]   g == gc_timers[s]
             t == routes[s].time
  <2>0. SilenceOf(routes, gc_timers, confirmed, flagged, s)
    BY DEF SilenceInv
  <2>1. routes[s] # NULL /\ routes[s] \in Route
    BY <1>1, <1>2, InPlace DEF TypeOK, Table
  <2>2. /\ routes'[s].dest = d /\ routes'[s].metric = routes[s].metric
        /\ routes'[s].garbage = routes[s].garbage
        /\ routes'[s].time = Elapse(t) /\ t \in Int /\ d \in Dest
    BY <1>1, <2>1 DEF Tick, Route, TimeLeft, INFINITE_TIMER
  <2>3. /\ gc_timers'[s] = Elapse(g)
        /\ confirmed'[d] = Older(c, Ages)
        /\ flagged'[d] = Older(fl, GARBAGE_COLLECTOR)
        /\ c \in Nat /\ fl \in Nat
    BY <1>1, <2>2 DEF Tick
  <2>4. routes[s].garbage => g \in 0 .. GARBAGE_COLLECTOR /\ fl + g = GARBAGE_COLLECTOR
    BY <2>0, <2>1 DEF SilenceOf, FlagMeansCountdown
  <2>5. routes[s].metric # RIP_INFINITY =>
            /\ t = TIMER_ZERO => c >= TIMEOUT
            /\ routes[s].garbage => c >= TIMEOUT + fl
            /\ t > 0 => c + t = TIMEOUT
    BY <2>0, <2>1 DEF SilenceOf, HInv, LifeCountsFromNextHop
  <2>. HIDE DEF c, fl, g, t, d
  <2>6. routes[s].garbage => Older(fl, GARBAGE_COLLECTOR) + Elapse(g) = GARBAGE_COLLECTOR
    BY <1>1, <2>3, <2>4 DEF Older, Elapse
  <2>7. routes[s].metric # RIP_INFINITY /\ Elapse(t) = TIMER_ZERO => Older(c, Ages) >= TIMEOUT
    BY <1>1, <2>2, <2>3, <2>5 DEF Older, Elapse, Ages, TIMER_ZERO
  <2>8. routes[s].metric # RIP_INFINITY /\ routes[s].garbage =>
            Older(c, Ages) >= TIMEOUT + Older(fl, GARBAGE_COLLECTOR)
    BY <1>1, <2>3, <2>4, <2>5 DEF Older, Ages
  <2>. QED BY <2>2, <2>3, <2>6, <2>7, <2>8 DEF SilenceOf
<1>3. ASSUME NEW s \in Slots, routes'[s] = NULL
      PROVE  SilenceOf(routes', gc_timers', confirmed', flagged', s)
  BY <1>3 DEF SilenceOf
<1>4. flagged' \in [Dest -> Nat]
  BY <1>1 DEF Older
<1>. QED BY <1>2, <1>3, <1>4 DEF SilenceInv

\* A request can only clear flags, the collector leaves flagged routes it does not
\* free as they are, and the rest of the loop touches no route.
LEMMA OtherKeepsSilence ==
  ASSUME TypeOK, SilenceInv, HOther \/ UNCHANGED hvars
  PROVE  SilenceInv'
<1>1. confirmed' = confirmed /\ flagged' = flagged
  BY DEF HOther, hvars
<1>2. Quiet \/ UNCHANGED vars \/ AnswerSpecific \/ GarbageCollector
  <2>1. ASSUME HOther PROVE ~CompareEntry /\ ~GarbageCollectorStart
    BY <2>1 DEF HOther, CompareEntry, GarbageCollectorStart
  <2>. QED BY <2>1 DEF HOther, Loop, Quiet, hvars
<1>3. ASSUME NEW s \in Slots, routes'[s] # NULL
      PROVE  /\ routes[s] # NULL
             /\ routes'[s].dest = routes[s].dest
             /\ routes'[s].metric = routes[s].metric
             /\ routes'[s].time = routes[s].time
             /\ routes'[s].garbage => routes[s].garbage /\ gc_timers'[s] = gc_timers[s]
  <2>1. /\ routes[s] # NULL /\ routes[s] \in Route
        /\ routes'[s].dest = routes[s].dest
        /\ routes'[s].metric = routes[s].metric
        /\ routes'[s].time = routes[s].time
    BY <1>2, <1>3, OthersKeepRoutes DEF TypeOK, Table
  <2>2. CASE Quiet \/ UNCHANGED vars
    BY <2>1, <2>2, QuietKeepsTable
  <2>3. CASE AnswerSpecific
    BY <2>1, <2>3 DEF AnswerSpecific, Unflagged, Route
  <2>4. CASE GarbageCollector
    <3>1. ~Collects(routes, gc_timers, s)
      BY <1>3, <2>4, SweepEmpties
    <3>. QED BY <2>1, <2>4, <3>1 DEF GarbageCollector, Swept, Disarmed, Route
  <2>. QED BY <1>2, <2>1, <2>2, <2>3, <2>4
<1>4. ASSUME NEW s \in Slots, routes'[s] # NULL
      PROVE  SilenceOf(routes', gc_timers', confirmed', flagged', s)
  <2>1. SilenceOf(routes, gc_timers, confirmed, flagged, s)
    BY DEF SilenceInv
  <2>. QED BY <1>1, <1>3, <1>4, <2>1 DEF SilenceOf
<1>5. ASSUME NEW s \in Slots, routes'[s] = NULL
      PROVE  SilenceOf(routes', gc_timers', confirmed', flagged', s)
  BY <1>5 DEF SilenceOf
<1>. QED BY <1>1, <1>4, <1>5 DEF SilenceInv

LEMMA SilenceHolds == HSpec => []SilenceInv
<1>1. /\ TypeOK /\ UniqueDest /\ UniqueDest' /\ FlagMeansCountdown
      /\ FlagMeansCountdown' /\ HInv /\ SilenceInv /\ [HNext]_hvars
      => SilenceInv'
  BY EntryKeepsSilence, StartKeepsSilence, TickKeepsSilence, OtherKeepsSilence
  DEF HNext, HInv
<1>. QED BY <1>1, InitSilence, HInvHolds, HistoryRefines, TypeCorrect,
            DestinationsAreUnique, FlagsHaveCountdowns, PTL DEF HSpec

\* A route is forgotten only after its full garbage countdown, and only if its next
\* hop withdrew it or has kept silent for TIMEOUT before that.
THEOREM ForgottenMeansSilent == HSpec => ForgottenOnlyAfterSilence
<1>1. ASSUME IInv, HInv, SilenceInv, [HNext]_hvars, NEW i \in Slots,
             routes[i] # NULL, ~Known(routes', routes[i].dest)
      PROVE  LET d == routes[i].dest IN
             /\ flagged[d] >= GARBAGE_COLLECTOR
             /\ \/ heard[routes[i].next][d] = RIP_INFINITY
                \/ confirmed[d] >= Ages
  <2> DEFINE d == routes[i].dest
  <2>1. /\ routes[i].garbage /\ routes[i].time = TIMER_ZERO
        /\ gc_timers[i] = TIMER_ZERO
    BY <1>1, HistoryStepsServer, ForgetStep
  <2>2. routes[i] \in Route /\ d \in Dest
    BY <1>1 DEF IInv, TableInv, TypeOK, Table, Route
  <2>3. flagged[d] \in Nat /\ GARBAGE_COLLECTOR \in Nat /\ confirmed[d] \in Nat
    BY <1>1, <2>2, GarbageAssumption DEF SilenceInv, HInv, HTypeOK
  <2>4. SilenceOf(routes, gc_timers, confirmed, flagged, i)
    BY <1>1 DEF SilenceInv
  <2>5. flagged[d] = GARBAGE_COLLECTOR
    BY <1>1, <2>1, <2>3, <2>4 DEF SilenceOf, TIMER_ZERO
  <2>6. CASE routes[i].metric = RIP_INFINITY
    <3>1. heard[routes[i].next][d] = RIP_INFINITY
      BY <1>1, <2>1, <2>6
      DEF HInv, BelievesNextHop, Learned, INFINITE_TIMER, TIMER_ZERO
    <3>. QED BY <2>3, <2>5, <3>1
  <2>7. CASE routes[i].metric # RIP_INFINITY
    <3>1. confirmed[d] >= TIMEOUT + flagged[d]
      BY <1>1, <2>1, <2>4, <2>7 DEF SilenceOf
    <3>. QED BY <2>3, <2>5, <3>1 DEF Ages
  <2>. QED BY <2>6, <2>7
<1>2. IInv /\ HInv /\ SilenceInv /\ [HNext]_hvars =>
        [\A i \in Slots :
           routes[i] # NULL /\ ~Known(routes', routes[i].dest) =>
               LET d == routes[i].dest IN
               /\ flagged[d] >= GARBAGE_COLLECTOR
               /\ \/ heard[routes[i].next][d] = RIP_INFINITY
                  \/ confirmed[d] >= Ages]_hvars
  BY <1>1
<1>. QED BY <1>2, HistoryRefines, IInvHolds, HInvHolds, SilenceHolds, PTL
         DEF HSpec, ForgottenOnlyAfterSilence
=============================================================================
