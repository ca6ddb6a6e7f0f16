SPECIFICATION FairSpec
CONSTANTS
  d1 = d1
  d2 = d2
  Rows = {d1, d2}
  Requests = {r1, r2}
  Users = {u1}
  Ghost = ghost
  Steps = {s1}
  Null = null
  Nobody = nobody
  Columns <- DefectColumns
  Value <- DefectValue
  NewRows <- PlainDefects
  Transitions <- ValidTransitions
  Dangling <- DanglingUsers
  Calls <- MixedCalls
INVARIANTS SessionInv
PROPERTIES DeletionIsFinal UndisturbedStepsFollowTable NoUnreportedChange RequestsAreAtomic EveryRequestEnds
