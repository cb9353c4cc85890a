CONSTANTS
  a = a
  b = b
  x = x
  y = y
  w1 = w1
  w2 = w2
  w3 = w3
  p1 = p1
  p2 = p2
  Paths <- MCPaths
  Contents <- MCContents
  Absent = Absent
  Procs <- TwoProcs
  Writers <- ThreeWriters
  ProcOf <- TwoAndOne
  Plans <- ChainPlans
  External = External
  NoPlan = NoPlan
  Nobody = Nobody
  MaxRetries = 1
  MaxOps = 1
  MaxEdits = 0
  MaxCommits = 0
  MaxFaults = 1
SPECIFICATION FairSpec
CHECK_DEADLOCK FALSE
INVARIANTS
  HooksFollowCommits
  QuietVaultIsSettled
  InterruptedRevealIsFlagged
  RepliesAreTrue
PROPERTIES
  EveryCallReturns
