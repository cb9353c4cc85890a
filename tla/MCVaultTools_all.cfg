SPECIFICATION Spec
CONSTANTS
  Absent = Absent
  Clients = {c1, c2}
  Paths <- MCPaths
  Contents <- MCContents
  Calls <- MCCalls
  Starts <- MCStarts
  MaxCalls = 2
  MaxFaults = 1
INVARIANTS GuardedCallsLoseNothing GraphIsTrue ReportsAreTrue
PROPERTY LinksAreLookedAfter
CHECK_DEADLOCK FALSE
SYMMETRY Symm
