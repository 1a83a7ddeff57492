SPECIFICATION Spec
CONSTANTS
  Target = 2
  MinHedge = 1
  ZeroFillBudget = 2
  MaxReposts = 1
  PostOnlyAttempts = 2
  RepostAttempts = 2
  MaxOrders = 3
  MaxHedges = 1
  MaxSlices = 2
  LaneEnabled = FALSE
INVARIANTS TypeOK RestingIsPolled NoOrphanExposure
PROPERTIES PublishedIsBacked LegSwitchSafe
CHECK_DEADLOCK FALSE
