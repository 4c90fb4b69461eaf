---------------------------- MODULE MCRipNetwork ----------------------------
(* Small instances of RipNetwork. *)
EXTENDS RipNetwork

CONSTANTS d, a, b, c, gw

\* a and c both hear b, not each other.
Chain == {<<a, b>>, <<b, a>>, <<b, c>>, <<c, b>>}

Hops == [n \in Node |-> CASE n = a -> 0 [] n = b -> 1 [] OTHER -> 2]
=============================================================================
