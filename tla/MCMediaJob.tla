----------------------------- MODULE MCMediaJob -----------------------------
(* MediaJob for TLC: a chain of three models, of which the one in the middle *)
(* answers with a task.                                                      *)
EXTENDS MediaJob

CONSTANTS m1, m2, m3

Candidates == <<m1, m2, m3>>
=============================================================================
