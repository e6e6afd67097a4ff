SPECIFICATION FairSpec
CONSTANTS
    Order <- SourceFirst
    Versions <- MCVersions
    Children <- MCChildren
    Points <- MCPointsKept
    Frame <- MCFrame
    Possessed <- MCPossessed
    Deletable = {"a"}
    Workers = {w1, w2}
    MaxRuns = 2
    MaxMarks = 1
    Budget = 3
    Every = 2
    PerJob = 2
    Areas = 2
    MaxWaits = 1
    MaxSeq = 14
    MaxUpsets = 1
CHECK_DEADLOCK FALSE
INVARIANTS
    TypeOK
    PlaceIsSaved
    SweepsOnWholeMark
PROPERTIES
    RunsEnd
