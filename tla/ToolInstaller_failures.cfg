SPECIFICATION Spec
CONSTANTS
  Installers = {i1, i2}
  Versions = {v1, v2, v3}
  None = None
  Interruptible <- ErrorsOnly
SYMMETRY Interchangeable
INVARIANTS
  TypeOK
  RollbackRestores
  ConsistentAtRest
  CommittedIsComplete
CHECK_DEADLOCK FALSE
