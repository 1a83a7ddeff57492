CONSTANTS
    r1 = r1
    r2 = r2
    Requests = {r1, r2}
    GatewayRetries = {TRUE, FALSE}
    Interval = 1
    Backoff = 1
    Window = 1
    Margin = 0
    MaxLimited = 1
    MaxReloads = 1
SPECIFICATION FairSpec
CHECK_DEADLOCK FALSE
INVARIANTS
    RejectedMeansNothing
    AtMostOneOrder
    SlotsApart
PROPERTIES
    QuietWhenTold
    EveryRequestEnds
