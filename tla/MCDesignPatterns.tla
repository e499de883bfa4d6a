-------------------------- MODULE MCDesignPatterns ---------------------------
(* DesignPatterns for TLC: a cfg has no numbers below zero. *)
EXTENDS DesignPatterns

MCAmount == {-2, 1, 2, 4}
=============================================================================
