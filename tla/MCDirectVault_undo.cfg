CONSTANTS
  a = a
  b = b
  x = x
  y = y
  z = z
  Absent = Absent
  Torn = Torn
  Nobody = Nobody
  Paths = {a, b}
  Contents = {x, z, Torn}
  Text = {x, z, Torn}
  Token <- SameToken
  Writers = {w1}
  Undoers = {r1}
  Plans <- OneChange
  Mounted = {b}
  Failing = {"land", "record", "undo"}
  MaxOps = 2
  MaxUndos = 2
  MaxEdits = 1
  MaxFaults = 1
  MaxCrashes = 0
SPECIFICATION Spec
CHECK_DEADLOCK FALSE
INVARIANTS
  SnapshotsAreWhole
PROPERTIES
  RollbackRestores
