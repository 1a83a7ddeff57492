CONSTANTS
    PollMs = 4
    ActivePollMs = 2
    MakerWakeMs = 1
    BackoffInitialMs = 6
    BackoffMaxMs = 12
    LaneMs = {0, 2}
    MaxStops = 1
SPECIFICATION FairLoop
CHECK_DEADLOCK FALSE
INVARIANT SupervisedInTime
PROPERTY LanesServed
