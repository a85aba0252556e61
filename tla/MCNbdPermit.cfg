SPECIFICATION FairPermitSpec
CONSTANTS
  s1 = s1
  s2 = s2
  s3 = s3
  s4 = s4
  Sessions <- MCSessions
  Limit <- MixedLimits
INVARIANTS PermitAccounting Admission
PROPERTY NoLostWakeup
CHECK_DEADLOCK FALSE
