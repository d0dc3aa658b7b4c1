CONSTANTS
  Accounts = {"a1", "a2"}
  Given <- MCGiven
  AdminUsers = {"bob"}
  Subjects = {"sub"}
  Claimed = {"bob"}
  Browsers = {left, right}
  Requests = {r1, r2}
  Routes = {"read", "write", "cost", "admin"}
  Amendments <- MCAmendments
  MaxTokens = 3
  MaxAttempts = 2
  MaxRequests = 3
  MaxAmends = 1
  Key <- MCKey
  Matching = {1, 2, 3, 4}
  PageSize = 1
  TimelineLimit = 2
  NoteBudget = 1
  MaxRows = 5
  Ids = {1, 2, 3}
  Envs = {"prod", "lab"}
  Scope = {"prod"}
  Limit = 1
  MaxEdits = 2
  Credentials <- MCCredentials
  Rate <- MCRate
  Burst <- MCBurst
  UnknownRate = 1
  UnknownBurst = 1
  Unit = 2
  MaxClock = 4
  MaxTries = 4
  Posts = {p1, p2}
  Reporters <- MCReporters
  CredentialScope <- MCScope
  Environments = {"prod", "lab"}
  InScope = {"prod"}
  Placements = {{"prod"}, {"lab"}}
  Refs = {"x", "y"}
  Batches <- MCBatches
  MaxBatch = 2
  KeepDays = {0, 2}
  DriftCap = 1
  MinDays = 1
  MaxDay = 2
  MaxPosts = 3
  MaxMoves = 1
  MaxPrunes = 1
SPECIFICATION SurfacesSpec
SYMMETRY Symmetry
CHECK_DEADLOCK FALSE
INVARIANTS GateIsRecent SignInIsItsOwn SignOutHolds BudgetIsExact QueueNearItsCap RetentionIsAccounted APIWalkIsWhole NoChangeIsHidden
