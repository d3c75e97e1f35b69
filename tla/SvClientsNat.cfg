SPECIFICATION Spec
CONSTANTS
  MaxSlots = 3
  MaxClients = 3
  Remotes <- NatRemotes
  MaxUserid = 4
  Timeout = 0
  ZombieTime = 0
  LoginTime = 0
  ReconnectLimit = 0
  SvLogin = FALSE
  MaxSpawncount = 1
  MaxConnects = 5
CONSTRAINT NoSignon
VIEW UsedView
CHECK_DEADLOCK FALSE
INVARIANTS TypeOK UseridsUnique NewestIsRouted
