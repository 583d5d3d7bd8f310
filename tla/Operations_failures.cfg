SPECIFICATION FairSpec
CONSTANTS
  Procs = {p1, p2}
  Ids = {o1, o2}
  None = None
  Modes <- BothModes
  Steps = 2
INVARIANTS
  TypeOK
  LocalRunsOnce
  ResultMatchesRecord
  RetryLinks
PROPERTIES
  ImplementsLifecycle
  ExecutionEnds
CHECK_DEADLOCK FALSE
