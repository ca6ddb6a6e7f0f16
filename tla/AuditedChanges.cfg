SPECIFICATION Spec
CHECK_DEADLOCK FALSE
CONSTANTS
  Entities = {e1, e2}
  Calls = {c1, c2}
  Nothing = Nothing
  Body = Body
  Removed = Removed
  MaxMishaps = 2
INVARIANTS TrailInv RowsTellTheChange
PROPERTY ChangesAreAudited
