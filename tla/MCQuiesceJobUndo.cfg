SPECIFICATION Spec
CONSTANTS
  None = None
  Procs = {p1}
  Objs <- OneObj
  KindOf <- OneJob
  Owner <- OneOwner
  MaxReplicas = 1
  MaxEdits = 0
INVARIANT JobsScaledBackUp
