CONSTANTS
  Prompt = {p1, p2}
  Caller = {c1}
  MaxSteps = 2
  MaxExtras = 1
SPECIFICATION Spec
CHECK_DEADLOCK FALSE
INVARIANT WakesAfterBoundaryRun
