SPECIFICATION Spec
CONSTANTS
  d1 = d1
  d2 = d2
  Data = {d1, d2}
  Disconnect = bye
  MaxMessage = 2
  MaxSequence = 4
  MaxWritten = 2
  MaxLive = 2
  Writers = {"NS_CLIENT", "NS_SERVER"}
CONSTRAINT Few
VIEW LiveView
CHECK_DEADLOCK FALSE
INVARIANTS TypeOK ReplyMatches ReliableStream FreedOnlyIfRead
PROPERTIES RetransmitOnlyIfLost ImplementsLink
