SPECIFICATION FairSpec
CONSTANTS
  Disks <- MCDisks
  MaxEbr = 3
  Sector = 2
  Width = 64
  Requests <- MCRequests
  ToolNames <- MCToolNames
  KernelDays <- MCKernelDays
  Plans = {0, 2}
  MaxCounted = 1
INVARIANTS ReportIsWhole PartitionsExact RegistryExact PackagesExact
PROPERTIES ProgressMonotone CancelTakesEffect
CHECK_DEADLOCK FALSE
