SPECIFICATION Spec
SYMMETRY Symmetry
CONSTANTS
  Scopes = {"host", "venue", "endpoint"}
  Buckets = {"host", "venue"}
  Capacity <- MCCapacity
  Refill <- MCRefill
  MinInterval <- MCMinInterval
  Requests = {"order", "public"}
  NoRequest = NoRequest
  ScopesOf <- MCScopesOf
  Weight <- MCWeight
  BackoffInitial = 1
  BackoffMax = 2
  BudgetRetry = 1
  Backoff <- MCBackoff
  Callers = {c1, c2}
  Timeouts = {0, 2}
  RetryAfters = {0, 2}
  MaxNow = 4
  MaxFailures = 2
  MaxReloads = 1
  ObserveFrom = {2}
INVARIANTS
  TypeOK
  WindowBudget
  RetryIsExact
PROPERTIES
  LongestBanHonoured
  GrantsSpaced
  WaitsEnd
CHECK_DEADLOCK FALSE
