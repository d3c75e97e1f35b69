SPECIFICATION LiveSpec
CONSTANTS
  Data = {d1}
  Disconnect = bye
  MaxMessage = 2
  MaxSequence = 11
  MaxWritten = 2
  LastWrite = 2
  Writers = {"NS_CLIENT", "NS_SERVER"}
  MaxLoss = 2
CHECK_DEADLOCK FALSE
PROPERTIES EverythingArrives BufferIsFreed
