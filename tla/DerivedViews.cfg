SPECIFICATION Spec
CONSTANTS
  Task = task
  Nobody = nobody
  Clients = {c1, c2}
  Notes = {n1}
  MaxCalls = 3
  MaxWrites = 2
  MaxEdits = 1
  MaxFaults = 1
INVARIANTS AnswersAreFresh StalenessSurvives FlagsAreSound
SYMMETRY Symm
CHECK_DEADLOCK FALSE
