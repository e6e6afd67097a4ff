SPECIFICATION Spec
CONSTANTS
    Workers = {a1, a2}
    Keys = {k1, k2}
    Fails = TRUE
    MaxVersions = 2
SYMMETRY LogSymmetry
CHECK_DEADLOCK FALSE
INVARIANTS
    TypeOK
    HeadHasEntries
    LogHasNoGaps
    Announces
PROPERTIES
    EntriesKept
