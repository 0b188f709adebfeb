SPECIFICATION FairSpec
CONSTANTS
  LineSize = 4
  Lines = 5
  HeaderSize = 2
  BlocksPerChunk = 2
  MaxChunks = 3
  Requests = {1, 5}
  MaxLive = 2
  MaxSeen = 1
INVARIANTS SafeHeap NoOverlap MarkInRange
PROPERTIES ImplementsHeap GarbageIsReclaimed HandedOnce GrowthIsMeasured ReturnsToProgram
CHECK_DEADLOCK FALSE
