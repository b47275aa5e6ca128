\* A call and its retry, two cancels, a reader that may raise.
CONSTANTS
  K = K
  Call = {c1, c2}
  Key = {K}
  KeyOf <- Retried
  Cancel = {x1, x2}
  ReaderFaults = TRUE
  None = None
SPECIFICATION FairSpec
CHECK_DEADLOCK FALSE
INVARIANTS TypeOK OneTurnPerKey CancelledTurnIsStopped
PROPERTIES StartedTurnEnds
