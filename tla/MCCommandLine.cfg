SPECIFICATION FairCommandSpec
CONSTANTS
  root = root
  a = a
  b = b
  cacheA = cacheA
  cacheB = cacheB
  disk = disk
  empty = empty
  extent = extent
  link = link
  deepA = deepA
  deepB = deepB
  Root = root
  Dirs <- MCDirs
  Files <- MCFiles
  Parent <- MCParent
  NameOf <- MCNameOf
  Name <- MCName
  NotUtf8 <- MCNotUtf8
  Empty <- MCEmpty
  Special <- MCSpecial
  Exclusions <- MCExclusions
  None = None
  CommandLines <- MCCommandLines
  MaxPool = 32
INVARIANTS ReportExact CommandTruthful
PROPERTY CommandEnds
CHECK_DEADLOCK FALSE
