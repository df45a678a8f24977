CONSTANTS
  t1 = t1
  r1 = r1
  r2 = r2
  None = None
  Task = {t1}
  Req = {r1, r2}
  Job = {1, 2}
  Approval = {1}
  Levels = {"supervised", "autonomous_local"}
  MaxMishaps = 1
SPECIFICATION Spec
SYMMETRY Symmetry
CHECK_DEADLOCK FALSE
INVARIANT ControlInv
INVARIANT NoStartIsLost
INVARIANT EndIsAnnounced
INVARIANT RunningHasJob
PROPERTY GateImplements
INVARIANT GatedStart
INVARIANT LiveJobReachable
