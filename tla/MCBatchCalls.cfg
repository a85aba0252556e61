SPECIFICATION FairPollSpec
CONSTANTS
  caller = c1
  Callers <- MCCallers
  MaxImages = 2
  WorkerRequests = {0, 3}
  PoolCap = 2
  MaxCalls = 2
  PanicImages = {1}
  SpawnMayFail = TRUE
PROPERTIES ImplementsPool PolledProgress BatchReturns
CHECK_DEADLOCK FALSE
