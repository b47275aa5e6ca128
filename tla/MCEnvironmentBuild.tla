------------------------- MODULE MCEnvironmentBuild -------------------------
(* Model-checking instance of EnvironmentBuild. *)
EXTENDS EnvironmentBuild
=============================================================================
