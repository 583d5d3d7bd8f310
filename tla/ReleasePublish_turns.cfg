SPECIFICATION Spec
CONSTANTS
  Publishers = {p1, p2}
  Releases = {r1, r2}
  Builds = {b1, b2}
  None = None
  Partial = Partial
  Absent = Absent
  Orphans = FALSE
  Concurrency = 1
SYMMETRY Interchangeable
INVARIANTS
  TypeOK
  FinalComplete
  SuccessIsPublished
  NoLeftovers
