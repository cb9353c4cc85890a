SPECIFICATION Spec
CONSTANTS
  Vaults = {mine, other}
  Home = mine
  GitVaults = {other}
  Tool = Tool
  Plug = Plug
  Gate = Gate
  Stoppers = {sigterm}
  Capacity = 1
  MaxWrites = 2
  MaxTroubles = 1
CHECK_DEADLOCK FALSE
INVARIANTS  QuietMirrorIsCurrent 
PROPERTIES ShutdownEnds
