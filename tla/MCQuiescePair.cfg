SPECIFICATION Spec
CONSTANTS
  None = None
  Procs = {p1, p2}
  Objs <- PairObjs
  KindOf <- PairKind
  Owner <- PairOwner
  MaxReplicas = 2
  MaxEdits = 1
SYMMETRY Symmetry
INVARIANT TypeOK IntentRecoverable UnquiesceRestores
PROPERTY RunningCountsKept
