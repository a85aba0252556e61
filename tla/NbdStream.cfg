SPECIFICATION Spec
CONSTANTS
  ExportSizes = {0, 3}
  MaxLen = 2
  LenWidth = 3
  MaxRequests = 4
INVARIANTS RepliesMatch InStep
CHECK_DEADLOCK FALSE
