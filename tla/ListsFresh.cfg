SPECIFICATION Spec
CHECK_DEADLOCK FALSE
CONSTANTS
  RowCount = 2
  PageSize = 1
  MaxFetches = 3
  MaxMoves = 3
INVARIANTS ListInv ListAnswersTheQuery NobodyIsStranded
PROPERTY ListCatchesUp
