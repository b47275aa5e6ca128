--------------------------- MODULE MCSessionDelete ---------------------------
(* SessionDelete for TLC. *)
EXTENDS SessionDelete

AllSteps == Step
NoSteps == {}
=============================================================================
