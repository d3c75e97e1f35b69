SPECIFICATION FairSpec
CONSTANTS
  File = {"a", "b", "c"}
  Blocks <- SomeBlocks
  Served = {"a", "b"}
  Needs <- SomeNeeds
  MAXBLOCKS = 2
  ChunksPerFrame = 2
  MaxChunks = 2
  MaxUnderWay = 1
  MaxLevel = 2
  MaxRequests = 1
  MaxFaults = 1
CONSTRAINT Few
CHECK_DEADLOCK FALSE
INVARIANTS TypeOK WholeUnlessMixed
PROPERTIES Ends 
