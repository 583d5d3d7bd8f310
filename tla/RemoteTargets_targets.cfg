SPECIFICATION Spec
CONSTANTS
  Processes = {p1, p2}
  h1 = h1
  s1 = s1
  s2 = s2
  s3 = s3
  Hosts = {h1}
  Keys = {k1, k2}
  Secrets = {s1, s2, s3}
  Names = {n1}
  None = None
  MaxKeyChanges = 2
  Answers <- SomeAnswers
  Inventory <- SomeInventory
  MaxCommands = 3
SYMMETRY Interchangeable
INVARIANTS
  TypeOK
  SecretOnlyToAcceptedKey
  AddIsAllOrNothing
  NoOrphanedPassword
  DeliversToRecordedKey
CHECK_DEADLOCK FALSE
