--------------------------- MODULE MCTraceHarvest ---------------------------
(* Model-checking instance of TraceHarvest. *)
EXTENDS TraceHarvest
=============================================================================
