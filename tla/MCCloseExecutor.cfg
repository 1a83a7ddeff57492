SPECIFICATION Spec
CONSTANTS
    Quantity = 2
    ChunkCaps = {1, 2}
    Recognised = {{"short"}, {"long"}}
    MaxAttempts = 2
    MaxFlatten = 1
    MaxCloses = 2
    MaxLost = 1
    MaxRefused = 1
    MaxBlind = 1
INVARIANTS NoSilentLoss GoneIsFlat BookNotBelowVenue NothingNaked
CHECK_DEADLOCK FALSE
