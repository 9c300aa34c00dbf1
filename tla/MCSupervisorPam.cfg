CONSTANTS
  EnvSignals = {15}
  ExitCodes = {0}
  KillSignals = {9}
  MayKill = FALSE
  IgnoreChild = FALSE
  IOFaults = FALSE
  WaitFaults = FALSE
  MaxEvents = 1
SPECIFICATION Spec
INVARIANT PamQuitsBeforeTerminating
CHECK_DEADLOCK FALSE
