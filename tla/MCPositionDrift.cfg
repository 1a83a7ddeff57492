SPECIFICATION FairSpec
CONSTANTS
    Matched = 2
    Excess = {1, 2}
    ExcessLegs = {"long"}
    Smallest = {1, 2}
    MaxTries = 1
    MaxFaults = 1
    MaxCrashes = 1
    MaxCloses = 1
INVARIANTS
    ExcessOwned
PROPERTIES
    OnlyExcessSold
    RepairEnds
CHECK_DEADLOCK FALSE
