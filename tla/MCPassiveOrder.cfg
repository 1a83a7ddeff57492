CONSTANTS
    Lanes = {TRUE, FALSE}
    Prices = {1, 2}
    One = 2
    Capacity = 4
    Refill = 2
    MinAmend = 1
    MaxFailures = 2
    Cooldown = 3
    MaxRaised = 3
    MaxRestarts = 1
SPECIFICATION FairSpec
INVARIANTS
    BudgetHeld
    RestoredDecidesAlike
PROPERTIES
    CooldownHonoured
    PriceFollowed
