SPECIFICATION FairSpec
CONSTANTS
  h1 = h1
  r1 = r1
  r2 = r2
  Again = FALSE
  Handler <- OneHandler
  Reader <- TwoReaders
  MaxBlocks = 3
  MaxCrashes = 2
INVARIANTS DiskConsistent CacheMatchesDisk ProofsOfOneBlock
PROPERTIES LockReleased
