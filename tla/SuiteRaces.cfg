SPECIFICATION Spec
CONSTANTS
  Cases = {c1}
  Runs = {t1}
  Links = {k1, k2, k3}
  Requests = {r1, r2}
  None = none
  MaxExecs = 2
  Calls <- MixedCalls
SYMMETRY Symmetry
INVARIANTS  ExecutionsComeWithTheStart ActiveRunsAreStarted  
