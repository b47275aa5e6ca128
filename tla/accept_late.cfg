\* The question is answered before its turn has recorded it pending.
CONSTANTS
  Request = {q1, q2}
  GuardFaults = FALSE
  StoreFaults = FALSE
  None = None
SPECIFICATION Spec
SYMMETRY Symmetry
CHECK_DEADLOCK FALSE
INVARIANTS AnswerRunsOnce
