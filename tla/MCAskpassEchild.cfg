CONSTANTS
  MaxInputLen = 1
  MaxWritten = 1
  EnvSignals = {}
  MaxEvents = 2
  IgnoreChild = FALSE
  IOFaults = FALSE
SPECIFICATION Spec
INVARIANT ProperAnswerIsAccepted
CHECK_DEADLOCK FALSE
