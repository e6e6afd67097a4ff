SPECIFICATION Spec
CONSTANTS
    KeysOf <- Again
    Placed = {1}
    Ranges <- OneRange
    Maintainers = {w1}
    Mergers = {g1}
    PackFanout = 2
    MaxTier = 1
    TornReads = FALSE
    LateRepeats = TRUE
    LateKeys = TRUE
    MaxIds = 3
    MaxDeaths = 0
    MaxRepeats = 1
    MaxFaults = 1
CHECK_DEADLOCK FALSE
INVARIANT LayersStored
