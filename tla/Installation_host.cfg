SPECIFICATION Spec
CONSTANTS
  Processes = {p1, p2}
  Versions = {v1, v2}
  Absent = Absent
  Damaged = Damaged
  Partial = Partial
  b1 = b1
  b2 = b2
  b3 = b3
  r1 = r1
  r2 = r2
  Builds = {b1, b2, b3}
  HostBuilds = {b1, b3}
  Releases = {r1, r2}
  VersionOf <- VersionOfBuild
  FirstBuilds = {b1}
  FirstFiles <- OldJenkins
  Bundles <- SomeBundles
  None = None
  Inbox = Inbox
  MaxReplacements = 1
  MaxCommands = 2
SYMMETRY Interchangeable
INVARIANTS
  TypeOK
  RepositoryIsOldOrNew
  RuntimeSurvives
  RuntimeKept
  EntriesVerified
  OperationKeepsRelease
CHECK_DEADLOCK FALSE
