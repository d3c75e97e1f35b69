SPECIFICATION FairSpec
CONSTANTS
  MaxSlots = 1
  MaxClients = 1
  Remotes <- OneRemote
  MaxUserid = 2
  Timeout = 1
  ZombieTime = 1
  LoginTime = 2
  ReconnectLimit = 1
  SvLogin = TRUE
  MaxSpawncount = 3
  MaxConnects = 3
CHECK_DEADLOCK FALSE
 
PROPERTY SilentIsFreed
