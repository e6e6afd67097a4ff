SPECIFICATION FairSpec
CONSTANTS
    Plans = {p1}
    Runners = {r1, r2}
    NoPlan = NoPlan
    NoRunner = NoRunner
    N = 3
    Ends = {2, 3}
    Gone = {1}
    Gaps = {2}
    ChunkUnits = 2
    PerSession = 1
    MaxAttempts = 1
    MaxStalls = 1
    MaxCopies = 2
    Faults = TRUE
CHECK_DEADLOCK FALSE
INVARIANTS
    TypeOK
    UnitsTile
    PublishedWhole
PROPERTIES
    CommitEnds
