SPECIFICATION FairSpec
CONSTANTS
  MaxItems = 3
  WorkerRequests = {0, 3}
  PoolCap = 2
  MayPanic = TRUE
INVARIANTS ResultsPreserved ErrorSurfaces LeftoverExplained
PROPERTIES PercentageMonotone CallReturns ImplementsPool
CHECK_DEADLOCK FALSE
