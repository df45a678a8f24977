CONSTANTS
  c = c
  s = s
  p = p
  w1 = w1
  w2 = w2
  Control = c
  Workspace <- MCWorkspace
  Session = s
  Project = p
  None = None
  Aggregate = {s}
  EventId = {1, 2, 3}
  Owner <- MCOwner
  NoOwner = NoOwner
  MaxWarps = 2
  MaxDrops = 2
SYMMETRY Workspaces
SPECIFICATION Spec
CHECK_DEADLOCK FALSE
 
PROPERTY FencedWork
 
