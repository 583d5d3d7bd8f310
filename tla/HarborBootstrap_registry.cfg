SPECIFICATION Spec
CONSTANTS
  Processes = {p1, p2}
  g1 = g1
  g2 = g2
  Registries = {g1, g2}
  FirstDaemons <- SomeDaemons
  FirstDockers = {"up", "absent"}
  None = None
  Own = Own
  Requests <- SomeRequests
  FirstSites <- SomeSites
  MaxRuns = 3
  MaxChanges = 1
SYMMETRY Interchangeable
INVARIANTS
  TypeOK
  DaemonFileIsLive
  ForeignHarborKept
PROPERTIES
  ProjectIsPrivate
  ReceiptIsReady
CHECK_DEADLOCK FALSE
