CONSTANTS
  t1 = t1
  r1 = r1
  None = None
  Task = {t1}
  Req = {r1}
  Job = {1, 2}
  Approval = {1}
  Levels = {"locked", "autonomous_local"}
  MaxMishaps = 0
SPECIFICATION LiveSpec
CHECK_DEADLOCK FALSE
PROPERTY GateNeverHangs
PROPERTY WorkEnds
PROPERTY ApprovedStartHappens
