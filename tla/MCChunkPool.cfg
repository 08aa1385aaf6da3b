SPECIFICATION FairSpec
CONSTANTS
  MaxCnt = 3
  Entries <- ThreeChunks
  p1 = p1
  p2 = p2
  p3 = p3
  Pushers <- ThreePushers
INVARIANTS EveryChunkOnce SemCountsEntries
PROPERTIES WaitingSourceServed ImplementsFreeList
