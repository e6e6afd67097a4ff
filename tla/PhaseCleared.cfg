SPECIFICATION SpecCompacted
CONSTANTS
    Plans = {p1}
    Runners = {r1, r2}
    NoPlan = NoPlan
    NoRunner = NoRunner
    N = 2
    Ends = {2}
    Gone = {}
    Gaps = {}
    ChunkUnits = 1
    PerSession = 2
    MaxAttempts = 2
    MaxStalls = 1
    MaxCopies = 2
    Faults = FALSE
CHECK_DEADLOCK FALSE
INVARIANT PublishedWhole
