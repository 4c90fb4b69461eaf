---------------------------- MODULE MCIpv4Output ----------------------------
(* A small instance of Ipv4Output. *)
EXTENDS Ipv4Output

CONSTANTS i1, i2, me, m1, m2

\* One host next door and one behind it, or both next door and no other route.
Behind == [ip \in Ip |-> IF ip = i2 THEN i1 ELSE Zero]
Near == [ip \in Ip |-> IF ip \in {i1, i2} THEN Zero ELSE NULL]

Tables == {Behind, Near}
=============================================================================
