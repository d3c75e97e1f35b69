SPECIFICATION Spec
CONSTANTS
  MsgLen = 4
  MaxBack = 3
  Blocks <- SomeBlocks
  Replies = {3}
  ModelReplies = {1}
  MaxSerial = 8
CHECK_DEADLOCK FALSE
INVARIANT InOrder
