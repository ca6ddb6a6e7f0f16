SPECIFICATION Spec
CONSTANTS
  Cases = {c1}
  Runs = {t1}
  Links = {k1}
  Requests = {r1, r2}
  None = none
  MaxExecs = 2
  Calls <- RoutedCalls
INVARIANT OneExecutionPerCase
