SPECIFICATION FairSpec
CONSTANTS
  MaxSlots = 2
  PoolSize = 2
  MaxDelay = 1
  Remotes = {"a", "b"}
  SocketSize = 2
  MaxArrivals = 7
CHECK_DEADLOCK FALSE
INVARIANTS TypeOK LinkedOnce InTurn
PROPERTIES QueuedIsExecuted SocketIsRead
