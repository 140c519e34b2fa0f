CONSTANTS
  t1 = t1
  t2 = t2
  Transfers <- MCTransfers
  Source <- MCSource
  Dest <- MCDest
  Truncated <- MCCut
  CryptPath <- MCSource
  Encrypt = TRUE
  Empty = Empty
  MaxFaults = 1
SPECIFICATION Spec
PROPERTIES CleanupIsScoped
CHECK_DEADLOCK FALSE
