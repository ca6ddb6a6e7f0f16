SPECIFICATION PanelSpec
CHECK_DEADLOCK FALSE
CONSTANTS
  Subjects = {"a", "b"}
  MaxLoads = 2
  MaxMoves = 4
  MaxMishaps = 2
INVARIANTS PanelInv ShowsWhatIsStored NothingOfAnother
