CONSTANTS
  Event = {1, 2, 3, 4, 5, 6}
  NoTopic = NoTopic
  Stamp <- DistinctStamps
  Hint <- OneTopic
  Batch = 2
  Threshold = 3
  MinStale = 2
  StaleTicks = 2
  MaxBackoff = 2
  Burst = 3
  MaxMishaps = 0
SPECIFICATION Spec
CHECK_DEADLOCK FALSE
PROPERTY EventsAreFolded
