---------------------------- MODULE MCEventFeed ----------------------------
(* Model-checking instance of EventFeed: its constants are numbers.        *)
EXTENDS EventFeed
=============================================================================
