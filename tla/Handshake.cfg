SPECIFICATION FairSpec
CONSTANTS
  Clients = {"a"}
  MaxChallenges = 2
  ResendTime = 2
  ClTimeout = 2
  SvTimeout = 2
  ZombieTime = 1
  MaxAge = 2
  MaxNumber = 1
  MaxStrangers = 2
  MaxAttempts = 2
  MaxFaults = 2
CHECK_DEADLOCK FALSE
INVARIANTS TypeOK OneEntry 
 
