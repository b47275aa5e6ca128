\* Two builds at any moments, an activation, a deletion, a full disk and a restart.
CONSTANTS
  MaxVersion = 2
  MaxRestarts = 1
  Builder = {b1, b2}
  Activator = {a1}
  Deleter = {d1}
  DiskFaults = TRUE
  None = None
SPECIFICATION EnvFairSpec
CHECK_DEADLOCK FALSE
INVARIANTS EnvTypeOK ActiveIsWhole
PROPERTIES BuildingEnds
