CONSTANTS
    MaxSteps = 1
    Cooldown = 2
    MaxPositions = 1
    MaxMoves = 2
    MaxOrders = 1
    MaxStarts = 1
    MaxRaises = 1
    Commands = {"fail_closed", "resume_if_safe"}
SPECIFICATION FairSpec
INVARIANTS
    OperatorHolds
    DeleverBounded
PROPERTIES
    NakedNeverReleased
    FlatResumes
