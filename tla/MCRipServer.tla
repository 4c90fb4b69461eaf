---------------------------- MODULE MCRipServer ----------------------------
(* Small instances of RipServer. *)
EXTENDS RipServerLife, TLC

CONSTANTS d1, d2, d3, n1, n2, me, gw

NoFile == {<<>>}

\* A static route of metric 0 by the gateway 0.0.0.0, as in files/rip_table.txt.
StaticRoute(d) == [dest |-> d, next |-> gw, metric |-> 0]

OneStatic == {<<>>, <<StaticRoute(d1)>>}

=============================================================================
