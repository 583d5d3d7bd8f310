SPECIFICATION FairSpec
CONSTANTS
  Procs = {p1, p2}
  Apps = {a1, a2}
  Detected = {a1}
  Observations = 2
  MaxHead = 3
  MaxFailures = 1
INVARIANTS
  TypeOK
  HandoffHolds
  DeletionRecorded
  NoRecreation
  EvidenceSound
PROPERTIES
  CompletedUnlessMoved
CHECK_DEADLOCK FALSE
