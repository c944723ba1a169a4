SPECIFICATION Spec
CONSTANTS
  t1 = t1
  t2 = t2
  t3 = t3
  scan = scan
  parked = parked
  k1 = k1
  Tasks = {t1, t2, t3}
  Callers = {c1, c2}
  Lanes = {scan, parked}
  Keys = {k1}
  NoTask = NoTask
  NoKey = NoKey
  RequestsOf <- MCRequestsOf
  Enabled = TRUE
  StaleCancellation = TRUE
  MaxQueuedTasks = 2
  LaneConcurrency <- MCLaneConcurrency
  Panics = FALSE
SYMMETRY Symmetry
INVARIANT TypeOK
INVARIANT WaiterHasOneOwner
INVARIANT NoAnswerDropped
INVARIANT LaneCapsHold
INVARIANT QueueBounded
INVARIANT NoLostWakeup
INVARIANT QueuedNeverCancelled
INVARIANT NoOvertakingInLane
INVARIANT TelemetryBalances
INVARIANT WorkKeyIndexCoversRecords
INVARIANT NewestGenerationWins
 
