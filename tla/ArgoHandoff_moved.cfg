SPECIFICATION FairSpec
CONSTANTS
  Procs = {p1}
  Apps = {a1}
  Detected = {a1}
  Observations = 1
  MaxHead = 3
  MaxFailures = 1
PROPERTIES
  PendingIsRecovered
CHECK_DEADLOCK FALSE
