SPECIFICATION FairSpec
CONSTANTS
  SectorSize = 1
  ChunkSize = 2
  MaxChunks = 2
  Disks <- MCDisks
  Views <- MCViews
  MaxRead = 5
  MaxSeek = 1
  MaxReads = 3
INVARIANTS ReadsTheDisk LeastRecentlyUsed
PROPERTIES ReadReturns
