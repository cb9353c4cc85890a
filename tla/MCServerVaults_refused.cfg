SPECIFICATION Spec
CONSTANTS
  c1 = c1
  c2 = c2
  i1 = i1
  i2 = i2
  plain = plain
  Repo = repo
  NoVault = NoVault
  NoId = NoId
  Clients = {c1, c2}
  Names = {1, 2, 3, 4}
  Bases = {1, 2}
  Ids = {i1, i2}
  Dirs = {repo, plain, i1, i2}
  FanName <- MCFanName
  Strategies = {"merge-commit", "fast-forward"}
  MaxVaults = 3
  MaxCalls = 3
  MaxCommits = 2
  MaxFaults = 0
SYMMETRY Symm
INVARIANTS RefusedWorkSurvives
CHECK_DEADLOCK FALSE
