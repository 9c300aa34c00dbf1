CONSTANTS
  MaxInputLen = 1
  MaxWritten = 3
  EnvSignals = {"SIGINT", "SIGTSTP", "SIGCONT"}
  MaxEvents = 2
  IgnoreChild = FALSE
  IOFaults = TRUE
SPECIFICATION FairSpec
INVARIANTS TypeOK PasswordIsWholeAnswer NoLostWakeup NoOrphanHelper
PROPERTY AskpassEnds
CHECK_DEADLOCK FALSE
