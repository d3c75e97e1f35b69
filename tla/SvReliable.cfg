SPECIFICATION FairSpec
CONSTANTS
  MsgLen = 4
  MaxBack = 3
  Blocks <- SomeBlocks
  Replies = {3}
  ModelReplies = {1}
  MaxSerial = 7
CHECK_DEADLOCK FALSE
INVARIANTS TypeOK NeverFatal 
PROPERTIES OverflowOnlyWhenFull BacklogDrains
