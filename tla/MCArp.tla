------------------------------- MODULE MCArp -------------------------------
(* A small instance of Arp. *)
EXTENDS Arp, TLC

CONSTANTS i1, i2, m1, m2

Addresses == Permutations(Ip) \cup Permutations(Mac)
=============================================================================
