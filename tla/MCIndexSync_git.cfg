CONSTANTS
  a = a
  w1 = w1
  w2 = w2
  f1 = f1
  f2 = f2
  Notes = {a}
  Writers = {w1}
  Flushers = {f1, f2}
  Sweeper = Sweeper
  Nobody = Nobody
  Plans <- OnePut
  Git = TRUE
  Reconcile = FALSE
  MaxOps = 1
  MaxEdits = 1
  MaxFaults = 1
SPECIFICATION Spec
SYMMETRY Interchangeable
INVARIANTS
  FlushSeesCommits
