SPECIFICATION Spec
CONSTANTS
  s1 = s1
  s2 = s2
  s3 = s3
  s4 = s4
  s5 = s5
  p1 = p1
  p2 = p2
  path = path
  None = None
  Sessions <- TwoSessions
  SocketPath <- SamePath
  Limit <- LimitTwo
  Paths = {path}
  Ports = {p1}
  Stubborn = {}
  Signalled = {}
  Together = {{s1, s2}}
INVARIANT ServedByOwnChild
CHECK_DEADLOCK FALSE
