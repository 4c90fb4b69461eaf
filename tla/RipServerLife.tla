--------------------------- MODULE RipServerLife ---------------------------
(***************************************************************************)
(* RipServer implements RouteLife: slots are reused, routes move between   *)
(* them and countdowns stay behind, yet every destination lives by the     *)
(* rules of RouteLife.                                                     *)
(***************************************************************************)
EXTENDS RipServer

RouteTo(d) == routes[FirstOf(routes, d)]

StageOf(d) ==
    CASE ~Known(routes, d) -> "unknown"
      [] Known(routes, d) /\ RouteTo(d).garbage -> "dying"
      [] Known(routes, d) /\ ~RouteTo(d).garbage /\ RouteTo(d).time < 0 -> "static"
      [] Known(routes, d) /\ ~RouteTo(d).garbage /\ RouteTo(d).time > 0 -> "alive"
      [] OTHER -> "expired"

LeftOf(d) == IF StageOf(d) = "dying" THEN gc_timers[FirstOf(routes, d)] ELSE 0

Life == INSTANCE RouteLife WITH
    life <- [d \in Dest |-> StageOf(d)],
    left <- [d \in Dest |-> LeftOf(d)]

\* Every destination is forgotten exactly when a countdown of its own is over,
\* whichever slots its route and the countdowns of others went through, and a
\* countdown starts over only on a withdrawal, a request by name or a revival.
ImplementsRouteLife == Life!Spec
=============================================================================
