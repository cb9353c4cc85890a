SPECIFICATION Spec
CONSTANTS
  MaxTexts = 3
  MaxOpens = 4
  MaxDepth = 4
  MaxPieces = 4
  MaxNested = 3
  Absent = Absent
  Declined = Declined
INVARIANTS TextIsKept AnswersAreRight HelpersKeepTheirWord
CHECK_DEADLOCK FALSE
