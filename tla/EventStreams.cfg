CONSTANTS
  Aggregate = {s1, s2}
  EventId = {e1, e2}
  Owner = {w1, w2}
  NoOwner = NoOwner
  Writer = {p1, p2}
  Reader = {r1}
  NoAggregate = NoAggregate
SPECIFICATION Spec
CHECK_DEADLOCK FALSE
INVARIANT LogContiguous
INVARIANT NoLostWake
INVARIANT StreamInOrder
PROPERTY LogImplements
PROPERTY StreamCatchesUp
