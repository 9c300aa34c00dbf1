CONSTANTS
  Fatal = {"SIGINT", "SIGHUP"}
  Stop = {"SIGTSTP"}
  Ignored = {"SIGHUP"}
  Char = {"a", "b"}
  MaxInputLen = 2
  MaxTyped = 4
  MaxEvents = 3
SPECIFICATION FairSpec
INVARIANTS TypeOK TerminalComesBack NoSignalLost PasswordIsWhatWasTyped
PROPERTY SignalsAct
CHECK_DEADLOCK FALSE
