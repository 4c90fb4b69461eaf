---------------------------- MODULE MCRipHistory ----------------------------
(* Small instances of RipHistory. *)
EXTENDS RipHistory, TLC

CONSTANTS d1, d2, n1, n2, me

NoFile == {<<>>}

\* Peers are interchangeable, destinations too, when the file is empty.
Peers == Permutations({n1, n2})
PeersAndDests == Peers \cup Permutations({d1, d2})
=============================================================================
