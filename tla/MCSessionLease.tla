--------------------------- MODULE MCSessionLease ---------------------------
(* Model-checking instance of SessionLease.                                *)
EXTENDS SessionLease, TLC

TurnSymmetry == Permutations(Turn)
=============================================================================
