SPECIFICATION FSpec
CONSTANTS
  Ids = {1, 2, 3}
  Ghosts = {9}
  BadNames = {"bad"}
  MaxFiles = 2
  MaxTotal = 3
  MaxPerFile = 2
  MaxInt = 7
  Ghcr = "ghcr.io"
  MaxI64 = 5
  Precision = 2
  ReservedWords = {"class"}
CHECK_DEADLOCK FALSE
INVARIANT GroupsDisjoint
INVARIANT AcceptedFilesApart
INVARIANT BudgetHolds
INVARIANT CredentialFound
INVARIANT TypesKeepValues
INVARIANT ModelsTakeValues
INVARIANT TagsRoute
INVARIANT PoolReadsBack
INVARIANT ClientKeepsContract
