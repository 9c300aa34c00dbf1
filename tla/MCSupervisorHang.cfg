CONSTANTS
  EnvSignals = {}
  ExitCodes = {0}
  KillSignals = {9}
  MayKill = FALSE
  IgnoreChild = TRUE
  IOFaults = FALSE
  WaitFaults = FALSE
  MaxEvents = 0
SPECIFICATION FairSpec
PROPERTY DeadChildEndsSupervisor
CHECK_DEADLOCK FALSE
