----------------------------- MODULE MCRipSend -----------------------------
(* A small instance of RipSend: full tables reach past two messages. *)
EXTENDS RipSend

CONSTANTS d1, d2, d3, d4, d5

\* What the counter would start from had it been initialised.
Zero == {0}
=============================================================================
