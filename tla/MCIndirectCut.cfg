CONSTANTS
  t1 = t1
  t2 = t2
  Transfers <- MCTransfers
  Source <- MCSource
  Dest <- MCDest
  Truncated <- MCCut
  CryptPath <- MCSource
  Encrypt = TRUE
  Empty = Empty
  MaxFaults = 1
SPECIFICATION FairSpec
INVARIANTS KeepsApart
PROPERTIES CleanupSparesOthers TransferCompletes
CHECK_DEADLOCK FALSE
