SPECIFICATION Spec
CONSTANTS
    Collection <- MCCollection
    Forked <- MCForked
    Units <- MCUnits
    Hash <- MCHash
    VersionOf <- MCVersionOf
    UnitOf <- MCUnitOf
    Middle = 3
    Deletable = {"c2"}
    Consumers = {w1, w2}
    FanIn = 3
    SegmentMax = 1
    PartEvents = 2
    MaxMerges = 2
    MaxUpsets = 1
SYMMETRY ConsumerSymmetry
CHECK_DEADLOCK FALSE
INVARIANTS
    TypeOK
    BilledOnce
PROPERTIES
    ImplementsProvenance
