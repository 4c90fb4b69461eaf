---------------------------- MODULE MCRipClient ----------------------------
(* Small instances of RipClient: full tables reach past two messages. *)
EXTENDS RipClient, TLC

CONSTANTS d1, d2, d3, d4

\* Below, at and above every comparison with the number of routes.
Counters == {-1, 0, 2, 4}

Dests == Permutations(Dest)
=============================================================================
