SPECIFICATION FairSpec
CONSTANTS
  PR = PR
  PRX = PRX
  Projects = {PR, PRX}
  Requests = {r1, r2}
  Base = 3
  Width = 1
  Finds <- PRFinds
  Rank <- PRRank
  Files <- SmallFiles
  MaxIds = 4
  MaxDeleted = 1
INVARIANTS IdsInv NumbersAreSequential
PROPERTIES LoneCreationsSucceed EveryCreationEnds
