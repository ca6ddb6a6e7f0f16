SPECIFICATION FairRefreshSpec
CONSTANTS
  Calls = {me1, me2, a, in}
  ProfileCalls = {me1, me2}
  LoginCalls = {in}
  Owners = {u}
  Absent = none
INVARIANTS RefreshInv TokensStayTogether
PROPERTIES EveryCallSettles
