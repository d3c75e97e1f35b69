SPECIFICATION Spec
CONSTANTS
  File = {"a", "b"}
  Blocks <- SomeBlocks
  Served = {"a", "b"}
  Needs <- SomeNeeds
  MAXBLOCKS = 2
  ChunksPerFrame = 2
  MaxChunks = 2
  MaxUnderWay = 1
  MaxLevel = 1
  MaxRequests = 0
  MaxFaults = 1
CHECK_DEADLOCK FALSE
INVARIANT FileIsWhole
