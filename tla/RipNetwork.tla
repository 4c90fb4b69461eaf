----------------------------- MODULE RipNetwork -----------------------------
(***************************************************************************)
(* Several RIP daemons and what becomes of the route to one destination.   *)
(* The destination is in the rip_table.txt of one router, Origin; the      *)
(* others learn it from announcements, which every neighbour hears on its  *)
(* own, late or not at all.  Daemons are killed and started again.         *)
(*                                                                         *)
(* A turn of the daemon's loop is two steps here: the periodic update, and *)
(* the receive with what follows it (RipServer has the steps in between).  *)
(* A message is the metric announced; one that does not mention the        *)
(* destination changes nothing at its receivers and is left out.           *)
(***************************************************************************)
EXTENDS RipTable

CONSTANTS
    Node,                \* routers that run the daemon, by their address
    Links,               \* <<n, m>> when m hears the multicasts of n
    Target,              \* the destination
    Origin,              \* the router that has it in its file
    Gateway,             \* the next hop the file gives
    Dist,                \* hops from Origin, or any lower bound of them
    GARBAGE_COLLECTOR,   \* length of the garbage countdown, in ticks
    UpdateTimes,         \* values of UPDATE_TIME + random(-15, 15) s, in ticks
    MaxInbox,            \* datagrams a socket queue holds
    Mortal               \* routers that may be killed

ASSUME OneDestination == Dest = {Target} /\ RIP_ROUTE_TABLE_SIZE = 1
ASSUME NodeAssumption ==
    Node \subseteq Router /\ Gateway \in Router /\ Origin \in Node /\ Mortal \subseteq Node
ASSUME LinksAssumption == Links \subseteq Node \X Node
ASSUME DistAssumption ==
    /\ Dist \in [Node -> Nat]
    /\ Dist[Origin] = 0
    /\ \A l \in Links : Dist[l[2]] <= Dist[l[1]] + 1
ASSUME TimesAssumption ==
    /\ GARBAGE_COLLECTOR \in Nat \ {0}
    /\ UpdateTimes \subseteq Nat \ {0} /\ UpdateTimes # {}
ASSUME InboxAssumption == MaxInbox \in Nat

Message == [src: Node, metric: Nat]

VARIABLES
    up,
    routes,         \* each router's table
    gc_timers,
    update_timer,
    inbox,          \* announcements on their way to each router, in order
    lossy           \* the network may still lose or delay announcements

nvars == <<up, routes, gc_timers, update_timer, inbox, lossy>>

TypeOK ==
    /\ up \in [Node -> BOOLEAN]
    /\ routes \in [Node -> Table]
    /\ gc_timers \in [Node -> [Slots -> TimeLeft(GARBAGE_COLLECTOR)]]
    /\ update_timer \in [Node -> Nat]
    /\ inbox \in [Node -> Seq(Message)]
    /\ lossy \in BOOLEAN

---------------------------------------------------------------------------
NoRoutes == [i \in Slots |-> NULL]
NoCountdown == [i \in Slots |-> TIMER_ZERO]

\* Mutant: the line's timer is that of a learned route.
MutFileTable(n) ==
    IF n = Origin
    THEN Add(NoRoutes, [dest |-> Target, next |-> Gateway, metric |-> 0,
                        time |-> TIMEOUT, garbage |-> FALSE])
    ELSE NoRoutes

\* rip_route_table_read and main: Origin's line, which never times out.
FileTable(n) ==
    IF n = Origin
    THEN Add(NoRoutes, [dest |-> Target, next |-> Gateway, metric |-> 0,
                        time |-> INFINITE_TIMER, garbage |-> FALSE])
    ELSE NoRoutes

Init ==
    /\ up = [n \in Node |-> TRUE]
    /\ routes = [n \in Node |-> FileTable(n)]
    /\ gc_timers = [n \in Node |-> NoCountdown]
    /\ update_timer \in [Node -> UpdateTimes]
    /\ inbox = [n \in Node |-> <<>>]
    /\ lossy = TRUE

\* A response of n with table r to the multicast group: one copy for every
\* neighbour, each lost on its own while the network is lossy or when the
\* socket queue is full.
Hearers(n) == {m \in Node : <<n, m>> \in Links /\ up[m]}

Send(n, r, boxes) ==
    IF Occupied(r) = {} THEN inbox' = boxes
    ELSE \E heard \in SUBSET Hearers(n) :
        /\ ~lossy => heard = Hearers(n)
        /\ inbox' = [m \in Node |->
               IF m \in heard /\ Len(boxes[m]) < MaxInbox
               THEN Append(boxes[m], [src |-> n, metric |-> r[0].metric])
               ELSE boxes[m]]

Announce(n) ==
    /\ up[n]
    /\ update_timer[n] = TIMER_ZERO
    /\ Send(n, routes[n], inbox)
    /\ \E t \in UpdateTimes : update_timer' = [update_timer EXCEPT ![n] = t]
    /\ UNCHANGED <<up, routes, gc_timers, lossy>>

---------------------------------------------------------------------------
\* The end of a turn: garbage_collector_start, then garbage_collector.
Armed(r, gc) == [i \in Slots |-> IF Arms(r, i) THEN GARBAGE_COLLECTOR ELSE gc[i]]

Collected(n, r) == Swept(Flagged(r), Armed(r, gc_timers[n]))

Countdowns(n, r) == Disarmed(Flagged(r), Armed(r, gc_timers[n]))

Collect(n, r) ==
    /\ routes' = [routes EXCEPT ![n] = Collected(n, r)]
    /\ gc_timers' = [gc_timers EXCEPT ![n] = Countdowns(n, r)]

\* rip_recv times out: nothing has arrived yet.
Quiet(n) ==
    /\ up[n]
    /\ Collect(n, routes[n])
    /\ UNCHANGED <<up, update_timer, inbox, lossy>>

\* Mutant: the metric is taken as it comes.
MutHeard(m) == RouteAux([dest |-> Target, metric |-> m.metric], m.src)

\* A response is compared with the table and a change announced at once.  That a
\* response is our own (update_metrics) never comes up: Hearers has no router
\* hear itself.
Heard(m) == RouteAux([dest |-> Target, metric |-> UpdateMetric(m.metric)], m.src)

Receive(n) ==
    /\ up[n]
    /\ inbox[n] # <<>>
    /\ LET aux == Heard(Head(inbox[n]))
           r == CompareEntries(routes[n], aux)
           rest == [inbox EXCEPT ![n] = Tail(@)]
       IN /\ Collect(n, r)
          /\ IF Reported(routes[n], aux) THEN Send(n, r, rest) ELSE inbox' = rest
    /\ UNCHANGED <<up, update_timer, lossy>>

---------------------------------------------------------------------------
\* SIGINT, a crash or a power cut: nothing is written anywhere.
Crash(n) ==
    /\ n \in Mortal
    /\ up[n]
    /\ up' = [up EXCEPT ![n] = FALSE]
    /\ routes' = [routes EXCEPT ![n] = NoRoutes]
    /\ gc_timers' = [gc_timers EXCEPT ![n] = NoCountdown]
    /\ update_timer' = [update_timer EXCEPT ![n] = 0]
    /\ inbox' = [inbox EXCEPT ![n] = <<>>]
    /\ UNCHANGED lossy

Restart(n) ==
    /\ ~up[n]
    /\ up' = [up EXCEPT ![n] = TRUE]
    /\ routes' = [routes EXCEPT ![n] = FileTable(n)]
    /\ \E t \in UpdateTimes : update_timer' = [update_timer EXCEPT ![n] = t]
    /\ UNCHANGED <<gc_timers, inbox, lossy>>

Stabilise ==
    /\ lossy
    /\ lossy' = FALSE
    /\ UNCHANGED <<up, routes, gc_timers, update_timer, inbox>>

\* A loop that has come round since the last tick has nothing left to do.
CameRound(n) ==
    /\ update_timer[n] # TIMER_ZERO
    /\ routes[n] = Collected(n, routes[n])
    /\ gc_timers[n] = Countdowns(n, routes[n])

\* Every timerms timer runs on.  A tick is several seconds and a turn of a loop
\* about one: every loop comes round in it, and a reliable network delivers.
Tick ==
    /\ \A n \in Node : up[n] => CameRound(n)
    /\ ~lossy => \A n \in Node : inbox[n] = <<>>
    /\ routes' = [n \in Node |-> [i \in Slots |->
           IF routes[n][i] = NULL THEN NULL
           ELSE [routes[n][i] EXCEPT !.time = Elapse(@)]]]
    /\ gc_timers' = [n \in Node |-> [i \in Slots |-> Elapse(gc_timers[n][i])]]
    /\ update_timer' = [n \in Node |-> Elapse(update_timer[n])]
    /\ UNCHANGED <<up, inbox, lossy>>

Loops == \E n \in Node : Announce(n) \/ Receive(n) \/ Quiet(n)

Next ==
    \/ Loops \/ Tick
    \/ \E n \in Node : Crash(n) \/ Restart(n)
    \/ Stabilise

Spec == Init /\ [][Next]_nvars

\* The clock advances for ever.  A tick waits for every running loop to come
\* round and, once the network is reliable, for every announcement, so the loops
\* go on too; nobody promises that a router stays up or that the network behaves.
FairSpec == Spec /\ []<><<Tick>>_nvars

---------------------------------------------------------------------------
\* Whatever is lost, late or forgotten in a crash, no router believes the
\* destination nearer than it is.
MetricIsHonest ==
    \A n \in Node :
        Known(routes[n], Target) =>
            LET m == routes[n][FirstOf(routes[n], Target)].metric
            IN m >= Dist[n] \/ m >= RIP_INFINITY


\* Once the network is reliable and every router stays up, each keeps coming
\* back to the shortest route, although it may forget it in between.
AtDistance(n) == \E i \in Slots :
    Holds(routes[n], i, Target) /\ routes[n][i].metric = Dist[n]

ReachableRelearned ==
    <>[](~lossy /\ \A n \in Node : up[n]) => \A n \in Node : []<>AtDistance(n)
=============================================================================
