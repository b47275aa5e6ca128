\* A turn and its follow-up, a cancel call, a sandbox that answers.
CONSTANTS
  N = 2
  Cancel = {c1}
  A = A
  B = B
  Replica = {A, B}
  Home <- SameHome
  Overlap = FALSE
  SandboxFaults = FALSE
  None = None
SPECIFICATION FairSpec
CHECK_DEADLOCK FALSE
INVARIANTS NoAgentLeftBehind
PROPERTIES CancelStopsAgent
