SPECIFICATION Spec
CONSTANTS
  Executions = {e1, e2}
  Marks = {m1, m2, m3}
  None = none
SYMMETRY Symmetry
INVARIANTS PageInv AnswersAreFiledRight
PROPERTIES SavedAnswersStay
