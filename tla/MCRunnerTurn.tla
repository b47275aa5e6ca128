---------------------------- MODULE MCRunnerTurn ----------------------------
(* Model-checking instance of RunnerTurn: the calls are one call and its   *)
(* retries, under one key.                                                 *)
EXTENDS RunnerTurn

CONSTANTS K

Retried == [c \in Call |-> K]
=============================================================================
