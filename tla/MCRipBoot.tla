----------------------------- MODULE MCRipBoot -----------------------------
(* A small instance of RipBoot: every forwarding table of up to three lines  *)
(* over 2-bit addresses, masks with a hole and subnets with host bits        *)
(* included, and every rip_table.txt of up to one line more than fits.       *)
EXTENDS RipBoot, TLC

CONSTANTS g1, g2, d1, d2, gw

Lines == {[dest |-> d, next |-> gw, metric |-> 0] : d \in Dest}

Symmetry == Permutations(Gateway) \cup Permutations(Dest)
=============================================================================
