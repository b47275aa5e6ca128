\* Two turns of one piece, one fault of the bus or one message that comes to nothing;
\* any POST stream may break, and two events of the first turn come after the second.
CONSTANTS
  Turns = 2
  Text = 1
  AtHome = TRUE
  Tries = 1
  MaxLag = 2
  MaxFaults = 1
SPECIFICATION FairSpec
CHECK_DEADLOCK FALSE
INVARIANTS TypeOK OwnAnswerWhole TurnDrawnOnce
PROPERTIES OwnEndSeen
