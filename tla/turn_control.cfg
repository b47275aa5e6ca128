\* Two overlapping turns of a session, a cancel call to either replica, a
\* sandbox that may be out of reach.
CONSTANTS
  N = 2
  Cancel = {c1}
  A = A
  B = B
  Replica = {A, B}
  Home <- SameHome
  Overlap = TRUE
  SandboxFaults = TRUE
  None = None
SPECIFICATION Spec
CHECK_DEADLOCK FALSE
INVARIANTS TypeOK LatchedTurnNotCompleted QuietIsSettled
