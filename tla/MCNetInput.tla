----------------------------- MODULE MCNetInput -----------------------------
(* Small instances of NetInput. *)
EXTENDS NetInput

Good == [mine |-> TRUE, ip |-> TRUE, here |-> TRUE, udp |-> TRUE, sum |-> TRUE,
         port |-> TRUE, carries |-> "data"]

\* Meant for us, by unicast and by multicast, and wrong in one thing each; two
\* are not IPv4, one of them for us and with bytes that look like it; the last
\* two are for us and carry nothing.
Kinds == {Good, [Good EXCEPT !.mine = FALSE],
          [Good EXCEPT !.mine = FALSE, !.here = FALSE],
          [Good EXCEPT !.port = FALSE], [Good EXCEPT !.sum = FALSE],
          [Good EXCEPT !.mine = FALSE, !.ip = FALSE],
          [Good EXCEPT !.ip = FALSE],
          [Good EXCEPT !.carries = "header"],
          [Good EXCEPT !.port = FALSE, !.carries = "nothing"]}

Waits == {-1, 0, 2}
=============================================================================
