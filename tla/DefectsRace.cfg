SPECIFICATION Spec
CONSTANTS
  d1 = d1
  d2 = d2
  Rows = {d1, d2}
  Requests = {r1, r2}
  Users = {u1}
  Ghost = ghost
  Steps = {}
  Null = null
  Nobody = nobody
  Columns <- DefectColumns
  Value <- DefectValue
  NewRows <- CreatedDefects
  Transitions <- ValidTransitions
  Dangling <- DanglingUsers
  Calls <- GovernedCalls
PROPERTY GovernedStepsFollowTable
