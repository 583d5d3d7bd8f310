SPECIFICATION FairSpec
CONSTANTS
  Procs = {p1, p2}
  Releases = {r1, r2}
  None = None
INVARIANTS
  TypeOK
  SucceededComplete
  OwnAssets
PROPERTIES
  PreparationEnds
CHECK_DEADLOCK FALSE
