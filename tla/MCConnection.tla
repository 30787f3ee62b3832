---------------------------- MODULE MCConnection ----------------------------
(* Model-checking instance of Connection: two endpoints; the cfg gives   *)
(* sequences modulo 6, a 2-entry window, 2 ack bits, 4 packets each.     *)
EXTENDS Connection, TLC

CONSTANTS a, b

MCNode == {a, b}

MCSymmetry == Permutations(MCNode)

=============================================================================
