CONSTANTS
  t1 = t1
  t2 = t2
  Transfers <- MCTransfers
  Source <- MCSource
  Dest <- MCDest
  Truncated <- MCTruncated
  CryptPath <- MCSource
  Encrypt = TRUE
  Empty = Empty
  MaxFaults = 3
SPECIFICATION Spec
INVARIANTS TypeOK DoneIsCopiedAndClean
PROPERTIES CopiesOwnVolumes CleanupIsScoped
CHECK_DEADLOCK FALSE
