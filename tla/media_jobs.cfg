CONSTANTS
  m1 = m1
  m2 = m2
  m3 = m3
  Call = {c1}
  Sweep = {s}
  Check = {k}
  Place = {p}
  Model = {m1, m2, m3}
  Inline = {m1, m3}
  Chain <- Candidates
  MaxAdvances = 1
  MaxSubmits = 2
  MaxTroubles = 1
SPECIFICATION FairSpec
CHECK_DEADLOCK FALSE
INVARIANT TypeOK
INVARIANT RendersBounded
INVARIANT MeteredOnce
INVARIANT LandedOnce
INVARIANT ClipShowsOutcome
PROPERTY JobEnds
