SPECIFICATION FairSpec
CONSTANTS
  None = None
  Empty = Empty
  Transfers = {"t1"}
  PVCs = {"a"}
  PVCList <- OneVolume
  LabelSafeName <- OneName
  Reread = TRUE
  Patient = {"t1"}
  MaxPods = 6
  MaxFaults = 4
INVARIANT SuccessMeansReachable
PROPERTY TransferCompletes
CHECK_DEADLOCK FALSE
