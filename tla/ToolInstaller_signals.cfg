SPECIFICATION Spec
CONSTANTS
  Installers = {i1, i2}
  Versions = {v1, v2, v3}
  None = None
  Interruptible <- ErrorsAndSignals
SYMMETRY Interchangeable
INVARIANTS
  RollbackRestores
CHECK_DEADLOCK FALSE
