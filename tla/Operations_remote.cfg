SPECIFICATION Spec
CONSTANTS
  Procs = {p1, p2}
  Ids = {o1}
  None = None
  Modes <- RemoteOnly
  Steps = 1
PROPERTIES
  RemoteStartsPlanned
CHECK_DEADLOCK FALSE
