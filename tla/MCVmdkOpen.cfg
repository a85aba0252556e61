SPECIFICATION FairSpec
CONSTANTS
  FileSystems <- MCFileSystems
  Extensions = {"raw", "dump", "vmdk", "foreign", "legacy", "none"}
  Image = "a"
  None <- NoFile
  MaxDepth = 2
  MaxRemoved = 1
INVARIANTS PreflightTruthful RoutingAgrees
PROPERTIES OpenReturns
CHECK_DEADLOCK FALSE
