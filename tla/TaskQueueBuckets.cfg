SPECIFICATION Spec
CONSTANTS
  t1 = t1
  t2 = t2
  t3 = t3
  t4 = t4
  t5 = t5
  scan = scan
  thumbs = thumbs
  parked = parked
  Tasks = {t1, t2, t3, t4, t5}
  Lanes = {scan, thumbs, parked}
  Lane <- MCLane
  Priority <- MCPriority
  LaneConcurrency <- MCLaneConcurrency
INVARIANT BucketsInOrder
PROPERTY ImplementsReadyQueue
CHECK_DEADLOCK FALSE
