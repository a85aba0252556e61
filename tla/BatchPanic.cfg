SPECIFICATION PollSpec
CONSTANTS
  caller = c1
  Callers <- MCCallers
  MaxImages = 2
  WorkerRequests = {1}
  PoolCap = 2
  MaxCalls = 1
  PanicImages = {1}
  SpawnMayFail = FALSE
INVARIANT OneFailureDoesNotAbort
CHECK_DEADLOCK FALSE
