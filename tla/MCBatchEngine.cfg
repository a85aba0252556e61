SPECIFICATION Spec
CONSTANTS
  c1 = c1
  c2 = c2
  Callers <- MCCallers
  MaxImages = 2
  WorkerRequests = {0, 3}
  PoolCap = 2
  MaxCalls = 2
  PanicImages = {1}
  SpawnMayFail = TRUE
SYMMETRY CallerSymmetry
INVARIANTS SlotExclusive ProgressExact ImageAccounting ResultComplete CancelNotLost
PROPERTY NoStartAfterCancel
CHECK_DEADLOCK FALSE
