\* Three requests that continue one question, every mix of keyed and unkeyed,
\* answers and other messages; accepts and store calls may fail.
CONSTANTS
  Request = {q1, q2, q3}
  GuardFaults = TRUE
  StoreFaults = TRUE
  None = None
SPECIFICATION Spec
SYMMETRY Symmetry
CHECK_DEADLOCK FALSE
INVARIANTS TypeOK OneAnswerPerAsking KeyRunsOnce FailedAcceptGivesBack
