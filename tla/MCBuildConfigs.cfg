SPECIFICATION Spec
CONSTANTS
  Lists <- MCLists
  Refs = {"t"}
  Secrets = {"s1", "s2"}
  Accounts = {"a", "b", "c", "builder"}
  SearchRegistries = {"quay"}
  InsecureRegistries = {"local"}
  BlockRegistries = {"bad"}
  NoFile = NoFile
  Torn = Torn
  NoSource = NoSource
  NoSecret = NoSecret
  MaxRuns = 2
  MaxFaults = 2
  MaxMoves = 1
CHECK_DEADLOCK FALSE
INVARIANTS
  TypeOK
  BuildIsTranslation
  BuildHasAccount
  SuccessIsComplete
