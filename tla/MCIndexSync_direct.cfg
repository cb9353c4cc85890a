CONSTANTS
  a = a
  w1 = w1
  w2 = w2
  f1 = f1
  f2 = f2
  Notes = {a}
  Writers = {w1, w2}
  Flushers = {}
  Sweeper = Sweeper
  Nobody = Nobody
  Plans <- OneNote
  Git = FALSE
  Reconcile = TRUE
  MaxOps = 2
  MaxEdits = 1
  MaxFaults = 1
SPECIFICATION FairSpec
INVARIANTS
  TypeOK
  SweepComparesRightly
PROPERTIES
  CacheCatchesUp
