------------------------------ MODULE RipTable ------------------------------
(***************************************************************************)
(* The RIP route table of src/files/ripv2.c: a fixed array of slots, each  *)
(* NULL or holding a route, and the functions that search, fill, replace   *)
(* and garbage-collect its slots.  A table is a function from slots to     *)
(* routes; the operators below return the table a C function leaves.       *)
(*                                                                         *)
(* A route keeps the fields the code compares: destination address, next   *)
(* hop, metric, the time left on its timer and the garbage flag.  The mask *)
(* and interface name are carried by the code but no decision reads them.  *)
(***************************************************************************)
EXTENDS Integers, Sequences, FiniteSets

CONSTANTS
    Dest,                   \* destination addresses (ipv4_addr of a route)
    Router,                 \* next-hop addresses, senders included
    NULL,                   \* the empty slot
    RIP_ROUTE_TABLE_SIZE,   \* number of slots, 30 in the code
    RIP_INFINITY,           \* the unreachable metric, 16 in the code
    TIMEOUT                 \* life of a refreshed route, in clock ticks

ASSUME SizeAssumption == RIP_ROUTE_TABLE_SIZE \in Nat \ {0}
ASSUME MetricAssumption == RIP_INFINITY \in Nat \ {0}
ASSUME TimeoutAssumption == TIMEOUT \in Nat \ {0}

INFINITE_TIMER == -1
TIMER_ZERO == 0

Slots == 0 .. RIP_ROUTE_TABLE_SIZE - 1

\* What timerms_left reports: negative for an infinite timer, 0 once expired.
TimeLeft(bound) == INFINITE_TIMER .. bound

Route == [dest: Dest, next: Router, metric: Nat,
          time: TimeLeft(TIMEOUT), garbage: BOOLEAN]

ASSUME NullAssumption == NULL \notin Route

Table == [Slots -> Route \cup {NULL}]

\* Mutant: an infinite timer counts down like any other.
MutElapse(t) == t - 1

\* One clock tick of a timer: infinite and expired timers stay as they are.
Elapse(t) == IF t > 0 THEN t - 1 ELSE t

---------------------------------------------------------------------------
(* Looking a slot up. *)

Occupied(r) == {i \in Slots : r[i] # NULL}

\* The slot compare_entries stops at: the first with the same destination.
Holds(r, i, d) == r[i] # NULL /\ r[i].dest = d

\* Mutant: only the first slot is compared.
MutKnown(r, d) == Holds(r, 0, d)

Known(r, d) == \E i \in Slots : Holds(r, i, d)

FirstOf(r, d) == CHOOSE i \in Slots :
    Holds(r, i, d) /\ \A j \in Slots : Holds(r, j, d) => i <= j

\* Mutant: the last slot is never considered.
MutHasRoom(r) == \E i \in Slots : i + 1 < RIP_ROUTE_TABLE_SIZE /\ r[i] = NULL

HasRoom(r) == \E i \in Slots : r[i] = NULL

FirstEmpty(r) == CHOOSE i \in Slots :
    r[i] = NULL /\ \A j \in Slots : r[j] = NULL => i <= j

---------------------------------------------------------------------------
(* Changing the table. *)

\* rip_route_table_add on a table with room: first empty slot, flag cleared.
Add(r, route) == [r EXCEPT ![FirstEmpty(r)] = [route EXCEPT !.garbage = FALSE]]

Remove(r, i) == [r EXCEPT ![i] = NULL]

\* Mutant: the old route is not removed first.
MutReplace(r, i, route) == Add(r, [route EXCEPT !.time = r[i].time])

\* rip_replace_entry: the new route takes the first empty slot once slot i is
\* free, which is not slot i when an earlier slot is empty, and inherits the
\* time the old route had left.
Replace(r, i, route) == Add(Remove(r, i), [route EXCEPT !.time = r[i].time])

\* The slot rip_replace_entry returns.
ReplacedAt(r, i) == FirstEmpty(Remove(r, i))

\* set_delete_flag collapses the timer and leaves the garbage flag alone.
SetDeleteFlag(r, i) == [r EXCEPT ![i].time = TIMER_ZERO]

\* Mutant: the garbage flag survives a refresh.
MutResetEntryTimer(r, i) == [r EXCEPT ![i].time = TIMEOUT]

\* reset_entry_timer
ResetEntryTimer(r, i) ==
    [r EXCEPT ![i] = [@ EXCEPT !.time = TIMEOUT, !.garbage = FALSE]]

\* timer_halfway: an expired timer and an infinite (negative) one count too.
TimerHalfway(route) == 2 * route.time <= TIMEOUT

---------------------------------------------------------------------------
(* Processing one entry of a response. *)

\* The route convert_message_table builds for an entry, with the next hop
\* compare_entries writes over the advertised one whenever it keeps the route.
RouteAux(entry, src) ==
    [dest |-> entry.dest, next |-> src, metric |-> entry.metric,
     time |-> TIMEOUT, garbage |-> FALSE]

\* update_metrics, skipped for a message of our own host.
UpdateMetric(m) == IF m < RIP_INFINITY THEN m + 1 ELSE RIP_INFINITY

Withdraw(r, i, aux) == Replace(SetDeleteFlag(r, i), i, aux)

Adopt(r, i, aux) == ResetEntryTimer(Replace(r, i, aux), ReplacedAt(r, i))

Learn(r, aux) == ResetEntryTimer(Add(r, aux), FirstEmpty(r))

\* Mutant: any announcement of a destination refreshes its route.
MutCompareKnownRefresh(r, i, aux) ==
    IF r[i].next = aux.next \/ r[i].metric > aux.metric
    THEN Adopt(r, i, aux) ELSE ResetEntryTimer(r, i)

\* Mutant: a worse metric is ignored whoever sends it.
MutCompareKnownBest(r, i, aux) ==
    IF r[i].metric >= aux.metric THEN Adopt(r, i, aux) ELSE r

\* compare_entries when the entry's destination is in slot i.
CompareKnown(r, i, aux) ==
    LET old == r[i] IN
    CASE old.next = aux.next /\ old.metric # aux.metric
                             /\ aux.metric = RIP_INFINITY -> Withdraw(r, i, aux)
      [] old.next = aux.next /\ old.metric # aux.metric
                             /\ aux.metric # RIP_INFINITY -> Adopt(r, i, aux)
      [] old.next = aux.next /\ old.metric = aux.metric
                             /\ aux.metric # RIP_INFINITY -> ResetEntryTimer(r, i)
      [] old.next = aux.next /\ old.metric = aux.metric
                             /\ aux.metric = RIP_INFINITY -> SetDeleteFlag(r, i)
      [] old.next # aux.next /\ old.metric < aux.metric -> r
      [] old.next # aux.next /\ old.metric > aux.metric -> Adopt(r, i, aux)
      [] old.next # aux.next /\ old.metric = aux.metric
                             /\ TimerHalfway(old) -> Adopt(r, i, aux)
      [] OTHER -> r

\* The table compare_entries leaves.  Learning a destination needs a free slot:
\* NeedsSlot tells when the code indexes routes[-1] on a full table.
Acceptable(aux) == aux.metric < RIP_INFINITY

NeedsSlot(r, aux) == ~Known(r, aux.dest) /\ Acceptable(aux)

\* Mutant: the next hop is part of the key, as if routes were per neighbour.
MutCompareEntries(r, aux) ==
    IF \E i \in Slots : Holds(r, i, aux.dest) /\ r[i].next = aux.next
    THEN CompareKnown(r, FirstOf(r, aux.dest), aux)
    ELSE IF Acceptable(aux) THEN Learn(r, aux)
    ELSE r

CompareEntries(r, aux) ==
    IF Known(r, aux.dest) THEN CompareKnown(r, FirstOf(r, aux.dest), aux)
    ELSE IF Acceptable(aux) THEN Learn(r, aux)
    ELSE r

\* Mutant: only improvements are reported.
MutReported(r, aux) ==
    IF Known(r, aux.dest) THEN r[FirstOf(r, aux.dest)].metric > aux.metric
    ELSE Acceptable(aux)

\* What compare_entries returns: TRUE asks for a triggered update.  Adopting
\* an equal metric from another router is not reported.
Reported(r, aux) ==
    IF Known(r, aux.dest)
    THEN LET old == r[FirstOf(r, aux.dest)] IN
         \/ old.next = aux.next /\ old.metric # aux.metric
         \/ old.next # aux.next /\ old.metric > aux.metric
    ELSE Acceptable(aux)

---------------------------------------------------------------------------
(* Garbage collection: route timers in the table, one countdown per slot. *)

\* Mutant: the flag is not consulted, so every turn restarts the countdown.
MutArms(r, i) == r[i] # NULL /\ r[i].time = TIMER_ZERO

\* garbage_collector_start arms the countdown of an expired, unflagged route.
Arms(r, i) == r[i] # NULL /\ r[i].time = TIMER_ZERO /\ ~r[i].garbage

Flagged(r) == [i \in Slots |->
    IF Arms(r, i) THEN [r[i] EXCEPT !.garbage = TRUE] ELSE r[i]]

\* Mutant: the route's own timer is not consulted.
MutCollects(r, gc, i) == gc[i] = TIMER_ZERO /\ r[i] # NULL

\* garbage_collector frees an expired route whose slot's countdown is over, and
\* disarms the countdown of a route that has come back to life.
Collects(r, gc, i) == gc[i] = TIMER_ZERO /\ r[i] # NULL /\ r[i].time = TIMER_ZERO

Revives(r, i) == r[i] # NULL /\ r[i].time > 0

Swept(r, gc) == [i \in Slots |->
    IF Collects(r, gc, i) THEN NULL
    ELSE IF Revives(r, i) THEN [r[i] EXCEPT !.garbage = FALSE]
    ELSE r[i]]

\* Mutant: the countdown of a revived route keeps running.
MutDisarmed(r, gc) == [i \in Slots |->
    IF Collects(r, gc, i) THEN INFINITE_TIMER ELSE gc[i]]

Disarmed(r, gc) == [i \in Slots |->
    IF Collects(r, gc, i) \/ Revives(r, i) THEN INFINITE_TIMER ELSE gc[i]]

\* table_to_send hands the SHARED routes to rip_route_table_add, which clears
\* the garbage flag of every route a specific request asks for.
Asked(r, dests) == {i \in Slots : r[i] # NULL /\ r[i].dest \in dests}

Unflagged(r, dests) == [i \in Slots |->
    IF i \in Asked(r, dests) THEN [r[i] EXCEPT !.garbage = FALSE] ELSE r[i]]
=============================================================================
