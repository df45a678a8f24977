CONSTANTS
  Waiter = {w1}
  MaxStarts = 2
  MaxRuns = 2
SPECIFICATION Spec
CHECK_DEADLOCK FALSE
INVARIANT CompletedIsWhole
INVARIANT RunsTakeTurns
PROPERTY EndsOnce
PROPERTY WaitersAreTold
