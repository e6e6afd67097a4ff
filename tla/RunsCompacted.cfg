SPECIFICATION FairSpec
CONSTANTS
    Keys <- k1k2
    Batches <- Three
    Runners = {r1, r2}
    FanIn = 2
    CommitRuns = 1
    PieceSize = 2
    MaxStalls = 1
    MaxSeq = 10
    MaxFaults = 1
    Unread = Unread
    Reopens = 0
CHECK_DEADLOCK FALSE
INVARIANTS
    TypeOK
PROPERTIES
    ImplementsUploads
    CommitEnds
