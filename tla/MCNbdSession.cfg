SPECIFICATION FairSpec
CONSTANTS
  s1 = s1
  s2 = s2
  s3 = s3
  s4 = s4
  s5 = s5
  p1 = p1
  p2 = p2
  path = path
  None = None
  Sessions <- FiveSessions
  SocketPath <- MixedPaths
  Limit <- MixedLimits
  Paths = {path}
  Ports = {p1, p2}
  Stubborn = {s4}
  Signalled = {s4}
  Together <- MixedGroups
INVARIANTS ServedByOwnChild ChildrenBounded InterruptedMeansCancelled
PROPERTIES ImplementsPermit SessionEnds
CHECK_DEADLOCK FALSE
