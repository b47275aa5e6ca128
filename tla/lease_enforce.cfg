\* The lease under HR_SESSION_LEASE=enforce, heartbeats and restores as late as they like.
CONSTANTS
  Turn = {t1, t2, t3}
  Enforce = TRUE
  StoreFaults = TRUE
  EtagReuse = FALSE
  TTL = 3
  Fresh = 2
  DocTTL = 4
  CasTries = 2
  MaxNow = 4
  NoTurn = NoTurn
SPECIFICATION Spec
CHECK_DEADLOCK FALSE
SYMMETRY TurnSymmetry
INVARIANTS TypeOK FenceUnique FencedExclusive
PROPERTIES  LeaseIsFencedLock
