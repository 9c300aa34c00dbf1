CONSTANTS
  Builds <- MCBuilds
  Name = {"TERM"}
  AccountName = {}
  Kept = {"TERM"}
  MaxLines = 0
  MaxDirs = 0
SPECIFICATION Spec
INVARIANT ChdirDecides
CHECK_DEADLOCK FALSE
