SPECIFICATION Spec
CONSTANTS
  None = None
  Empty = Empty
  Transfers = {"t1", "t2"}
  PVCs = {"a", "b", "c"}
  PVCList <- TwoTransfers
  LabelSafeName <- ThreeNames
  Reread = TRUE
  Patient = {"t1"}
  MaxPods = 3
  MaxFaults = 2
INVARIANT TypeOK SuccessLeavesObjects ReadersAgree
CHECK_DEADLOCK FALSE
