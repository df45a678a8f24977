CONSTANTS
  Event = {1, 2, 3, 4, 5}
  NoTopic = NoTopic
  Stamp <- StampsWithTie
  Hint <- FirstHints
  Batch = 2
  Threshold = 3
  MinStale = 2
  StaleTicks = 2
  MaxBackoff = 2
  Burst = 3
  MaxMishaps = 1
SPECIFICATION Spec
CHECK_DEADLOCK FALSE
INVARIANT NothingSkipped
PROPERTY FoldsOnce
PROPERTY BacklogDrains
