SPECIFICATION FairSpec
CONSTANTS
  None = None
  Procs = {p1}
  Objs <- LiveObjs
  KindOf <- LiveKind
  Owner <- LiveOwner
  MaxReplicas = 1
  MaxEdits = 1
INVARIANT QuiesceHolds
PROPERTY OperationReturns QuiesceSettles
