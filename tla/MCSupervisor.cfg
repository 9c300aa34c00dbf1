CONSTANTS
  EnvSignals = {15, 17, 18, 20}
  ExitCodes = {0, 3}
  KillSignals = {9, 34}
  MayKill = TRUE
  IgnoreChild = FALSE
  IOFaults = TRUE
  WaitFaults = FALSE
  MaxEvents = 3
SPECIFICATION FairSpec
INVARIANTS
  TypeOK CommandIsWatched NoOrphanCommand NoLostWakeup
  ForwardOnlyToOwnChild TerminalReturned
PROPERTIES
  ImplementsCommandRun DeadChildEndsSupervisor StopIsPassedUp FatalSignalIsForwarded OrphanEnds
CHECK_DEADLOCK FALSE
