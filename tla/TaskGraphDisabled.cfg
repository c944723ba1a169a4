SPECIFICATION Spec
CONSTANTS
  t1 = t1
  t2 = t2
  t3 = t3
  scan = scan
  parked = parked
  k1 = k1
  Tasks = {t1, t2, t3}
  Callers = {c1}
  Lanes = {scan, parked}
  Keys = {k1}
  NoTask = NoTask
  NoKey = NoKey
  RequestsOf <- MCAsync
  Enabled = FALSE
  StaleCancellation = TRUE
  MaxQueuedTasks = 1
  LaneConcurrency <- MCLaneConcurrency
  Panics = TRUE
SYMMETRY Symmetry
INVARIANT TelemetryBalances
