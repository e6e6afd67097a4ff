SPECIFICATION Spec
CONSTANTS
    Zeros <- SixKeys
    LeafBits = 1
    StepBits = 1
    LeafMax = 2
    InteriorMax = 2
    Top = 4
    MaxChanges = 2
CHECK_DEADLOCK FALSE
INVARIANTS
    TypeOK
    SameTree
    Counted
PROPERTIES
    UnitLeaves
