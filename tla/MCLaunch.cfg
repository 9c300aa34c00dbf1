CONSTANTS
  Builds <- MCBuilds
  Name = {"HOME", "TERM"}
  AccountName = {"HOME"}
  Kept = {"TERM"}
  MaxLines = 2
  MaxDirs = 2
SPECIFICATION Spec
INVARIANTS
  TypeOK  CommandRunsAsTarget NothingForbidden
  SearchIsThorough BackendIsToldAll
CHECK_DEADLOCK FALSE
