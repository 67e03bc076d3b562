SPECIFICATION Spec
CONSTANTS
    Installs = {1, 2, 3}
    Texts = {a, b, c}
    NoText = NoText
    LineageLimit = 64
    EquivLimit = 16
    FreshEdits = 0
    JoinedEdits = 2
    MaxPosts = 4
    MaxTurns = 0
SYMMETRY TextSymmetry
INVARIANTS
    TypeOK
    PromiseKept
    NewcomerAgrees
    UpdateHidesNothing
PROPERTIES
    TakesForGood
CHECK_DEADLOCK FALSE
