SPECIFICATION FairSpec
CONSTANTS
    Quantity = 2
    Plans <- MCPlans
    Smallest = {1, 2}
    Recognised = {TRUE, FALSE}
    MaxZero = 1
    MaxMakers = 2
    MaxFaults = 1
    MaxCrashes = 1
INVARIANTS GoneIsFlat BookNotBelowVenue OneCloseOrder HedgeFollows
PROPERTY OverdueEnds
CHECK_DEADLOCK FALSE
