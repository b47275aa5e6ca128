--------------------------- MODULE MCTurnControl ---------------------------
(* Model-checking instance of TurnControl: every turn is sent to the same  *)
(* replica, which is where turns can disturb each other's Stop flag; the   *)
(* cancel calls come to this replica or to the other one.                  *)
EXTENDS TurnControl

CONSTANTS A, B

SameHome == [r \in Turn |-> A]
=============================================================================
