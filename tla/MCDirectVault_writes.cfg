CONSTANTS
  a = a
  b = b
  x = x
  y = y
  z = z
  Absent = Absent
  Torn = Torn
  Nobody = Nobody
  Paths = {a, b}
  Contents = {x, y, z, Torn}
  Text = {x, y, z, Torn}
  Token <- SameToken
  Writers = {w1, w2}
  Undoers = {}
  Plans <- TwoChanges
  Mounted = {}
  Failing = {"land", "save", "record"}
  MaxOps = 2
  MaxUndos = 0
  MaxEdits = 0
  MaxFaults = 1
  MaxCrashes = 1
SPECIFICATION Spec
CHECK_DEADLOCK FALSE
INVARIANTS
  TypeOK
  AuditAccountsForTheVault
PROPERTIES
  GuardedLanding
  EditsLoseNothing
