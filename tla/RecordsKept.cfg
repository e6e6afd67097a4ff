SPECIFICATION Spec
CONSTANTS
    KeysOf <- Again
    Placed = {1}
    Ranges <- TwoRanges
    Maintainers = {w1}
    Mergers = {g1}
    PackFanout = 2
    MaxTier = 1
    TornReads = FALSE
    LateRepeats = FALSE
    LateKeys = TRUE
    MaxIds = 3
    MaxDeaths = 1
    MaxRepeats = 1
    MaxFaults = 1
CHECK_DEADLOCK FALSE
INVARIANTS
    TypeOK
    
