SPECIFICATION FairSpec
CONSTANTS
    Sessions = {p1}
    Batches = {b1, b2}
    Refused = {}
    Runners = {n1, n2}
    VersionIds = {v1, v2}
    None = None
    OpenSessions = 1
    MaxStalls = 1
    Rebases = TRUE
CHECK_DEADLOCK FALSE
INVARIANTS
    TypeOK
    LinearHistory
    CommitsOnce
    CommittedIsPublished
    
PROPERTIES
    CommittedStays
    CommitsEnd
