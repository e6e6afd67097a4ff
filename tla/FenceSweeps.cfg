SPECIFICATION Spec
CONSTANTS
    Objects = {o1}
    Collections = {c1}
    Writers = {w1}
    Pushes = {}
    Sweepers = {s1,s2}
    Runs = {r1}
    NoRun = NoRun
    NoObject = NoObject
    Attempts = 2
    Window = 1
    Slack = 1
    Margin = 1
    Wait = 2
    MinAge = 1
    RemarkSlack = 1
    Hold = 2
    Hang = 2
    RequestMax = 1
    Deltas = FALSE
    DeleteFails = FALSE
    Start = 1
    MaxTime = 4
    MaxEpoch = 2
    MaxVersions = 1
SYMMETRY FenceSymmetry
INVARIANTS
    TypeOK
    NoHole
    DeletesInsideWindow
    OneDeleter
PROPERTIES
    KeepsRepositoryPromise
