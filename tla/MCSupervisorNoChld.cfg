CONSTANTS
  EnvSignals = {15, 17}
  ExitCodes = {0, 3}
  KillSignals = {9, 34}
  MayKill = TRUE
  IgnoreChild = TRUE
  IOFaults = TRUE
  WaitFaults = TRUE
  MaxEvents = 2
SPECIFICATION Spec
INVARIANT NoOrphanCommand
CHECK_DEADLOCK FALSE
