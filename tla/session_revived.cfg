CONSTANTS
  Deleter = {d1}
  MayFail <- NoSteps
  MaxFailed = 0
SPECIFICATION FairSpec
CHECK_DEADLOCK FALSE
PROPERTIES
  TombstoneIsFinal
