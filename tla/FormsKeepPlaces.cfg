SPECIFICATION Spec
CHECK_DEADLOCK FALSE
CONSTANTS
  P1 = P1  P2 = P2  E1 = E1  E2 = E2  S1 = S1
  C1 = C1  C2 = C2
  None = None
  Projects = {P1, P2}
  Epics = {E1, E2}
  Stories = {S1}
  Cases = {C1, C2}
  FirstTree <- MCFirstTree
  CaseHomes <- MCCaseHomes
  ActiveSets = {{P1}, {P1, P2}}
  ListLimit = 1
  MaxRows = 2
  MaxAsks = 2
  MaxCalls = 2
  MaxChoices = 3
  MaxClicks = 3
  MaxMishaps = 1
INVARIANTS FormInv StoredPlacesAgree OneRowPerForm
PROPERTIES EditsStoreWhatWasChosen
