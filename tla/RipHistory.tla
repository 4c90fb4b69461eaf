----------------------------- MODULE RipHistory -----------------------------
(***************************************************************************)
(* What the daemon of RipServer owes its neighbours, stated over the       *)
(* history of what they said.  Three history variables follow every step   *)
(* of RipServer and never restrict it.                                     *)
(***************************************************************************)
EXTENDS RipServer

VARIABLES
    heard,      \* last metric each router gave each destination
    confirmed,  \* ticks since the next hop of a destination last vouched for it
    flagged     \* ticks since the destination's garbage countdown was armed

hvars == <<vars, heard, confirmed, flagged>>

Unheard == -1
Ages == TIMEOUT + GARBAGE_COLLECTOR

\* An age is counted up to the bound some property compares it with.
Older(age, bound) == IF age < bound THEN age + 1 ELSE age

HInit ==
    /\ Init
    /\ heard = [n \in Router |-> [d \in Dest |-> Unheard]]
    /\ confirmed = [d \in Dest |-> Ages]
    /\ flagged = [d \in Dest |-> 0]

\* The table now routes d by the sender of a reachable entry, at its metric.
Vouches(aux) ==
    /\ aux.metric # RIP_INFINITY
    /\ \E i \in Slots : /\ Holds(routes', i, aux.dest)
                        /\ routes'[i].next = aux.next
                        /\ routes'[i].metric = aux.metric

HCompareEntry ==
    /\ CompareEntry
    /\ heard' = [heard EXCEPT ![src][Aux.dest] = Aux.metric]
    /\ confirmed' = [confirmed EXCEPT ![Aux.dest] = IF Vouches(Aux) THEN 0 ELSE @]
    /\ UNCHANGED flagged

HGarbageCollectorStart ==
    /\ GarbageCollectorStart
    /\ flagged' = [d \in Dest |->
           IF \E i \in Slots : Arms(routes, i) /\ routes[i].dest = d
           THEN 0 ELSE flagged[d]]
    /\ UNCHANGED <<heard, confirmed>>

HTick ==
    /\ Tick
    /\ confirmed' = [d \in Dest |-> Older(confirmed[d], Ages)]
    /\ flagged' = [d \in Dest |-> Older(flagged[d], GARBAGE_COLLECTOR)]
    /\ UNCHANGED heard

HOther ==
    /\ Loop
    /\ pc # "gc_start"
    /\ pc = "compare" => entries = <<>> \/ pc' = "crashed"
    /\ UNCHANGED <<heard, confirmed, flagged>>

HNext == HCompareEntry \/ HGarbageCollectorStart \/ HTick \/ HOther

HSpec == HInit /\ [][HNext]_hvars

---------------------------------------------------------------------------
Learned(i) == routes[i] # NULL /\ routes[i].time # INFINITE_TIMER

\* A learned route carries the metric its next hop gave last: no overheard,
\* reordered or competing announcement leaves the table believing a metric
\* its next hop has since corrected.
BelievesNextHop ==
    \A i \in Slots :
        Learned(i) => heard[routes[i].next][routes[i].dest] = routes[i].metric

\* A reachable route's remaining life counts from the last time its own next hop
\* vouched for it: moving slots, requests and other routers' news never prolong
\* it.  (UnreachableGetsNoLife says what becomes of unreachable ones.)
LifeCountsFromNextHop ==
    \A i \in Slots :
        routes[i] # NULL /\ routes[i].time > 0 /\ routes[i].metric # RIP_INFINITY =>
            confirmed[routes[i].dest] + routes[i].time = TIMEOUT

\* An unreachable route is on its way out: it has no life left.  The code breaks
\* this when another router announces the destination unreachable too.
UnreachableGetsNoLife ==
    \A i \in Slots :
        Learned(i) /\ routes[i].metric = RIP_INFINITY => routes[i].time = TIMER_ZERO

\* A route is forgotten only after its full garbage countdown, and only if its
\* next hop withdrew it or has not vouched for it for TIMEOUT before that.
ForgottenOnlyAfterSilence ==
    [][\A i \in Slots :
         routes[i] # NULL /\ ~Known(routes', routes[i].dest) =>
             LET d == routes[i].dest IN
             /\ flagged[d] >= GARBAGE_COLLECTOR
             /\ \/ heard[routes[i].next][d] = RIP_INFINITY
                \/ confirmed[d] >= Ages]_hvars
=============================================================================
