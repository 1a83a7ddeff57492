SPECIFICATION Spec
CONSTANTS
  Target = 2
  MinHedge = 2
  ZeroFillBudget = 1
  MaxReposts = 0
  PostOnlyAttempts = 2
  RepostAttempts = 2
  MaxOrders = 2
  MaxHedges = 1
  MaxSlices = 2
  LaneEnabled = TRUE
INVARIANT NoOrphanExposure
CHECK_DEADLOCK FALSE
