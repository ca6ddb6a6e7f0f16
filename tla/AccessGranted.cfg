SPECIFICATION Spec
CHECK_DEADLOCK FALSE
CONSTANTS
  Users = {u1, u2}
  Places = {"/", "/projects", "/audit"}
  None = None
  MaxMoves = 4
  MaxMishaps = 2
INVARIANTS AccessInv AdmittedOnTheServersWord SessionIsOnes OffersAreHonoured ProjectsAreThere
