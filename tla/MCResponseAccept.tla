-------------------------- MODULE MCResponseAccept --------------------------
(* Model-checking instance of ResponseAccept: the requests are alike, and  *)
(* take every mix of shapes in the initial states.                         *)
EXTENDS ResponseAccept, TLC

Symmetry == Permutations(Request)
=============================================================================
