CONSTANTS
  AUTH_GROUP <- Wheel
  Databases <- MCDatabases
  UserTexts <- MCUserTexts
  GroupTexts <- MCGroupTexts
  PAM_MAX_NUM_MSG = 2
  MaxDay = 2
  Bit = {"b"}
  Hashes <- MCHashes
SPECIFICATION AuthSpec
INVARIANTS
  AuthTypeOK NobodyGainsUnproved NothingLeftOpen
  ProperlyNested SessionOutlivesCommand RepliesHaveOneOwner ShadowDecides
CHECK_DEADLOCK FALSE
