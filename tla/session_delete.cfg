CONSTANTS
  Deleter = {d1, d2}
  MayFail <- AllSteps
  MaxFailed = 1
SPECIFICATION FairSpec
CHECK_DEADLOCK FALSE
INVARIANTS
  TypeOK
  DeletedIsUnreadable
  NothingLeft
PROPERTIES
  DeletedGoes
