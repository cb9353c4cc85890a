CONSTANTS
  a = a
  b = b
  x = x
  y = y
  w1 = w1
  w2 = w2
  w3 = w3
  p1 = p1
  p2 = p2
  Paths <- MCPaths
  Contents <- MCContents
  Absent = Absent
  Procs <- TwoProcs
  Writers <- TwoWriters
  ProcOf <- Apart
  Plans <- RacePlans
  External = External
  NoPlan = NoPlan
  Nobody = Nobody
  MaxRetries = 1
  MaxOps = 1
  MaxEdits = 2
  MaxCommits = 2
  MaxFaults = 0
SPECIFICATION Spec
CHECK_DEADLOCK FALSE
INVARIANTS
  TypeOK
  CommitsAreTheirPlans
PROPERTIES
  OnlyCommittedWorkOverwritten
  Refines
