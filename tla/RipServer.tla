----------------------------- MODULE RipServer -----------------------------
(***************************************************************************)
(* The RIP daemon of src/rip_server: one thread that repeats the loop of   *)
(* ripv2_server.c:main over the route table, the per-slot garbage          *)
(* countdowns and the single message buffer it both receives into and      *)
(* sends from.  pc names the place in the loop; one turn goes              *)
(*                                                                         *)
(*   update -> recv -> (compare | answer)? -> gc_start -> gc -> update     *)
(*                                                                         *)
(* Time passes between any two steps (Tick), at most MaxLag ticks a turn.  *)
(* Peers and clients are the environment: a receive yields any message.    *)
(***************************************************************************)
EXTENDS RipTable

CONSTANTS
    Self,                \* ipv4_hostaddr
    Senders,             \* source addresses of the datagrams received
    GARBAGE_COLLECTOR,   \* length of the garbage countdown, in ticks
    UpdateTimes,         \* values of UPDATE_TIME + random(-15, 15) s, in ticks
    MaxLag,              \* ticks one turn of the loop may last
    MessageMetrics,      \* metrics entries carry on the wire
    RIP_ENTRIES,         \* entries a datagram has room for, 25 in the code
    MaxEntries,          \* bound on the entries of a received datagram
    Files                \* contents of rip_table.txt: sequences of routes

ASSUME SenderAssumption == Senders \subseteq Router /\ Self \in Router
ASSUME GarbageAssumption == GARBAGE_COLLECTOR \in Nat \ {0}
ASSUME UpdateAssumption == UpdateTimes \subseteq Nat \ {0} /\ UpdateTimes # {}
ASSUME LagAssumption == MaxLag \in Nat /\ MaxLag < TIMEOUT
ASSUME MessageMetricAssumption == MessageMetrics \subseteq Nat
ASSUME EntriesAssumption == MaxEntries \in Nat /\ RIP_ENTRIES \in Nat

Entry == [dest: Dest, metric: Nat]

\* A file lists each destination once and fits in the table.
FileRoute == [dest: Dest, next: Router, metric: Nat]
ASSUME FilesAssumption ==
    \A f \in Files :
        /\ f \in Seq(FileRoute)
        /\ Len(f) <= RIP_ROUTE_TABLE_SIZE
        /\ \A j, k \in 1 .. Len(f) : f[j].dest = f[k].dest => j = k

VARIABLES
    routes,        \* table->routes
    num_entries,   \* table->num_entries
    gc_timers,     \* garbage_collector_timers
    update_timer,
    pc,
    entries,       \* entries of the current message not yet processed
    src,           \* its source address
    changes,       \* compare_tables has counted a change
    head_inf,      \* message_ptr->entry[0].metric is RIP_INFINITY
    sent,          \* what the last step sent, if anything
    lag            \* ticks since this turn of the loop began

table == <<routes, num_entries, gc_timers>>
message == <<entries, src, changes>>
vars == <<routes, num_entries, gc_timers, update_timer, pc, entries, src,
          changes, head_inf, sent, lag>>

TypeOK ==
    /\ routes \in Table
    /\ num_entries \in Int
    /\ gc_timers \in [Slots -> TimeLeft(GARBAGE_COLLECTOR)]
    /\ update_timer \in Nat
    /\ pc \in {"update", "recv", "compare", "answer", "gc_start", "gc", "crashed"}
    /\ entries \in Seq(Entry)
    /\ src \in Router
    /\ changes \in BOOLEAN
    /\ head_inf \in BOOLEAN
    /\ sent \in {"none", "periodic", "triggered", "whole", "specific"}
    /\ lag \in 0 .. MaxLag

---------------------------------------------------------------------------
\* A table read from a file: its routes in the first slots, never timing out.
FileTable(f) == [i \in Slots |->
    IF i < Len(f)
    THEN [dest |-> f[i + 1].dest, next |-> f[i + 1].next,
          metric |-> f[i + 1].metric, time |-> INFINITE_TIMER, garbage |-> FALSE]
    ELSE NULL]

\* The countdowns are a zero-initialised global; nothing sets them at start.
Init ==
    /\ \E f \in Files : routes = FileTable(f) /\ num_entries = Len(f)
    /\ gc_timers = [i \in Slots |-> TIMER_ZERO]
    /\ update_timer \in UpdateTimes
    /\ pc = "update"
    /\ entries = <<>> /\ src = Self /\ changes = FALSE
    /\ head_inf = FALSE
    /\ sent = "none"
    /\ lag = 0

\* send_rip_response builds the message in the shared buffer from n routes, those
\* of the slots S.  Below 25 the first of them becomes entry[0]; from 25 on its
\* counter is uninitialised, so entry[0] may be left alone or written by any of
\* the routes copied.
Unreachable(i) == routes[i].metric = RIP_INFINITY

HeadAfterSend(S, n) ==
    IF S = {} THEN {head_inf}
    ELSE IF n < RIP_ENTRIES
         THEN {Unreachable(i) : i \in {k \in S : \A j \in S : k <= j}}
    ELSE {head_inf} \cup {Unreachable(i) : i \in S}

Send(kind, S, n) == sent' = kind /\ head_inf' \in HeadAfterSend(S, n)

SendTable(kind) == Send(kind, Occupied(routes), num_entries)

\* ripv2_server.c:83-94
PeriodicUpdate ==
    /\ pc = "update"
    /\ update_timer = TIMER_ZERO
    /\ SendTable("periodic")
    /\ update_timer' \in UpdateTimes
    /\ pc' = "recv"
    /\ UNCHANGED <<table, message, lag>>

\* Mutant: the update timer starts over on every turn.
MutNoUpdateYet ==
    /\ pc = "update"
    /\ update_timer # TIMER_ZERO
    /\ pc' = "recv"
    /\ update_timer' \in UpdateTimes
    /\ sent' = "none"
    /\ UNCHANGED <<table, message, head_inf, lag>>

NoUpdateYet ==
    /\ pc = "update"
    /\ update_timer # TIMER_ZERO
    /\ pc' = "recv"
    /\ sent' = "none"
    /\ UNCHANGED <<table, message, update_timer, head_inf, lag>>

---------------------------------------------------------------------------
\* rip_recv gives up after MIN_TIMER with 0 bytes.
RecvTimeout ==
    /\ pc = "recv"
    /\ pc' = "gc_start"
    /\ sent' = "none"
    /\ UNCHANGED <<table, message, update_timer, head_inf, lag>>

\* The datagram overwrites the buffer, except entry[0] when it carries none.
Receive(from, body) ==
    /\ pc = "recv"
    /\ src' = from
    /\ head_inf' = IF body = <<>> THEN head_inf
                                  ELSE body[1].metric = RIP_INFINITY
    /\ sent' = "none"
    /\ UNCHANGED <<table, update_timer, changes, lag>>

Body(metrics) ==
    UNION {[1 .. n -> [dest: Dest, metric: metrics]] : n \in 0 .. MaxEntries}

\* A response (command 2): update_metrics has run before the first comparison.
RecvResponse ==
    \E from \in Senders, body \in Body(MessageMetrics) :
        /\ Receive(from, body)
        /\ entries' = [k \in 1 .. Len(body) |->
               [body[k] EXCEPT !.metric = IF from = Self THEN @ ELSE UpdateMetric(@)]]
        /\ pc' = "compare"

\* A request (command 1).
RecvRequest ==
    \E from \in Senders, body \in Body(MessageMetrics) :
        /\ Receive(from, body)
        /\ entries' = body
        /\ pc' = "answer"

\* Any other command is converted and then ignored.
RecvOther ==
    \E from \in Senders, body \in Body(MessageMetrics) :
        /\ Receive(from, body)
        /\ entries' = <<>>
        /\ pc' = "gc_start"

---------------------------------------------------------------------------
\* One turn of compare_tables' loop.
Aux == RouteAux(Head(entries), src)

CompareEntry ==
    /\ pc = "compare"
    /\ entries # <<>>
    /\ NeedsSlot(routes, Aux) => HasRoom(routes)
    /\ routes' = CompareEntries(routes, Aux)
    /\ num_entries' = IF NeedsSlot(routes, Aux) THEN num_entries + 1 ELSE num_entries
    /\ changes' = (changes \/ Reported(routes, Aux))
    /\ entries' = Tail(entries)
    /\ sent' = "none"
    /\ UNCHANGED <<gc_timers, update_timer, pc, src, head_inf, lag>>

\* rip_route_table_add on a full table dereferences routes[-1].
AddToFullTable ==
    /\ pc = "compare"
    /\ entries # <<>>
    /\ NeedsSlot(routes, Aux)
    /\ ~HasRoom(routes)
    /\ pc' = "crashed"
    /\ sent' = "none"
    /\ UNCHANGED <<table, message, update_timer, head_inf, lag>>

TriggeredUpdate ==
    /\ pc = "compare"
    /\ entries = <<>>
    /\ changes
    /\ SendTable("triggered")
    /\ changes' = FALSE
    /\ pc' = "gc_start"
    /\ UNCHANGED <<table, update_timer, entries, src, lag>>

\* Mutant: the changes are forgotten.
MutNothingChanged ==
    /\ pc = "compare"
    /\ entries = <<>>
    /\ changes' = FALSE
    /\ pc' = "gc_start"
    /\ sent' = "none"
    /\ UNCHANGED <<table, entries, src, update_timer, head_inf, lag>>

NothingChanged ==
    /\ pc = "compare"
    /\ entries = <<>>
    /\ ~changes
    /\ pc' = "gc_start"
    /\ sent' = "none"
    /\ UNCHANGED <<table, message, update_timer, head_inf, lag>>

\* entry[0] of the buffer decides which request it is (ripv2_server.c:133).
AnswerWhole ==
    /\ pc = "answer"
    /\ head_inf
    /\ SendTable("whole")
    /\ entries' = <<>>
    /\ pc' = "gc_start"
    /\ UNCHANGED <<table, update_timer, src, changes, lag>>

\* table_to_send finds a route once for every entry of the request that has its
\* address, at most as many as the request, which fits.
Matches == {p \in Slots \X DOMAIN entries :
                routes[p[1]] # NULL /\ routes[p[1]].dest = entries[p[2]].dest}

AnswerSpecific ==
    LET dests == {entries[k].dest : k \in DOMAIN entries} IN
    /\ pc = "answer"
    /\ ~head_inf
    /\ routes' = Unflagged(routes, dests)
    /\ Send("specific", Asked(routes, dests), Cardinality(Matches))
    /\ entries' = <<>>
    /\ pc' = "gc_start"
    /\ UNCHANGED <<num_entries, gc_timers, update_timer, src, changes, lag>>

---------------------------------------------------------------------------
GarbageCollectorStart ==
    /\ pc = "gc_start"
    /\ routes' = Flagged(routes)
    /\ gc_timers' = [i \in Slots |->
           IF Arms(routes, i) THEN GARBAGE_COLLECTOR ELSE gc_timers[i]]
    /\ pc' = "gc"
    /\ sent' = "none"
    /\ UNCHANGED <<num_entries, update_timer, message, head_inf, lag>>

\* Mutant: one decrement however many routes are freed.
MutGarbageCollector ==
    /\ pc = "gc"
    /\ routes' = Swept(routes, gc_timers)
    /\ gc_timers' = Disarmed(routes, gc_timers)
    /\ num_entries' = IF \E i \in Slots : Collects(routes, gc_timers, i)
                      THEN num_entries - 1 ELSE num_entries
    /\ pc' = "update"
    /\ sent' = "none"
    /\ lag' = 0
    /\ UNCHANGED <<update_timer, message, head_inf>>

\* The end of a turn of the loop.
GarbageCollector ==
    /\ pc = "gc"
    /\ routes' = Swept(routes, gc_timers)
    /\ gc_timers' = Disarmed(routes, gc_timers)
    /\ num_entries' = num_entries
           - Cardinality({i \in Slots : Collects(routes, gc_timers, i)})
    /\ pc' = "update"
    /\ sent' = "none"
    /\ lag' = 0
    /\ UNCHANGED <<update_timer, message, head_inf>>

---------------------------------------------------------------------------
\* Every timerms timer runs on; the loop takes at most MaxLag ticks a turn.
Tick ==
    /\ pc # "crashed"
    /\ lag < MaxLag
    /\ lag' = lag + 1
    /\ routes' = [i \in Slots |->
           IF routes[i] = NULL THEN NULL
           ELSE [routes[i] EXCEPT !.time = Elapse(@)]]
    /\ gc_timers' = [i \in Slots |-> Elapse(gc_timers[i])]
    /\ update_timer' = Elapse(update_timer)
    /\ sent' = "none"
    /\ UNCHANGED <<num_entries, pc, message, head_inf>>

Loop ==
    \/ PeriodicUpdate \/ NoUpdateYet
    \/ RecvTimeout \/ RecvResponse \/ RecvRequest \/ RecvOther
    \/ CompareEntry \/ AddToFullTable \/ TriggeredUpdate \/ NothingChanged
    \/ AnswerWhole \/ AnswerSpecific
    \/ GarbageCollectorStart \/ GarbageCollector

Next == Loop \/ Tick

Spec == Init /\ [][Next]_vars

\* The thread is scheduled and blocks only in rip_recv, which times out; the
\* clock advances.
FairSpec == Spec /\ WF_vars(Loop) /\ WF_vars(Tick)

---------------------------------------------------------------------------
(* Safety. *)

\* Whatever the order of messages, withdrawals and moves to other slots, two
\* slots never hold the same destination: compare_entries stops at the first
\* match and would leave a second one to go stale.
UniqueDest ==
    \A i, j \in Slots :
        /\ routes[i] # NULL /\ routes[j] # NULL
        /\ routes[i].dest = routes[j].dest
        => i = j

\* num_entries, which sizes every message sent, counts the occupied slots.
CountMatches == num_entries = Cardinality(Occupied(routes))

\* Between turns a flagged route is expired and its slot's countdown is armed,
\* although routes move between slots and the countdowns do not.
FlagMeansCountdown ==
    \A i \in Slots :
        routes[i] # NULL /\ routes[i].garbage =>
            /\ routes[i].time = TIMER_ZERO
            /\ gc_timers[i] \in 0 .. GARBAGE_COLLECTOR

\* The collector never meets an unflagged expired route in a slot whose
\* countdown ended for an earlier tenant of the slot.
NoStaleCountdown ==
    pc = "gc" =>
        \A i \in Slots :
            Collects(routes, gc_timers, i) => routes[i].garbage

\* A destination disappears from the table only when the collector removes an
\* expired route that garbage_collector_start had flagged; replacing a route
\* never loses its destination, and a file route is never collected.
ForgottenOnlyWhenDue ==
    [][\A i \in Slots :
         routes[i] # NULL /\ ~Known(routes', routes[i].dest) =>
             /\ pc = "gc"
             /\ routes[i].garbage
             /\ routes[i].time = TIMER_ZERO
             /\ gc_timers[i] = TIMER_ZERO]_vars

\* The daemon dies adding a route only when every slot holds a destination of
\* its own; dead routes awaiting collection count.
DiesOnlyWhenFull ==
    pc = "crashed" =>
        Cardinality({routes[i].dest : i \in Occupied(routes)}) = RIP_ROUTE_TABLE_SIZE

\* With no more destinations in the network than slots it never dies so.
NeverDies == pc # "crashed"

\* A message that alters what this router would announce, some destination's
\* metric or its presence, is counted as a change to announce.
Announced(r) == {<<r[i].dest, r[i].metric>> : i \in {k \in Slots : r[k] # NULL}}

EveryChangeIsCounted ==
    [][pc = "compare" /\ Announced(routes') # Announced(routes) => changes']_vars

---------------------------------------------------------------------------
(* What the comments say and the code does not do.                          *)

\* A file route, whose timer never runs, gives way only to a better route.
FileRouteOutlivesEqual ==
    [][\A i, j \in Slots :
         /\ routes[i] # NULL /\ routes[i].time = INFINITE_TIMER
         /\ Holds(routes', j, routes[i].dest) /\ routes'[j].time # INFINITE_TIMER
         => routes'[j].metric < routes[i].metric]_vars

---------------------------------------------------------------------------
(* Liveness. *)

\* Periodic updates go on for ever, however many messages arrive.
UpdatesKeepComing == []<>(sent = "periodic")

\* A change the neighbours have not heard of is announced.
ChangeIsAnnounced == changes ~> sent = "triggered"

\* Once nobody mentions a destination any more, a route to it that is not a
\* file route ends up collected.
Silent(d) == \A k \in DOMAIN entries : entries[k].dest # d

Settled(d) == \A i \in Slots : Holds(routes, i, d) => routes[i].time < 0

SilentRouteCollected ==
    \A d \in Dest : <>[]Silent(d) => <>[]Settled(d)
=============================================================================
