SPECIFICATION Spec
CONSTANTS
    Installs = {1, 2}
    Texts = {a, b}
    NoText = NoText
    LineageLimit = 3
    EquivLimit = 16
    FreshEdits = 4
    JoinedEdits = 4
    MaxPosts = 5
    MaxTurns = 14
SYMMETRY TextSymmetry
INVARIANTS
    PlansValid
    NoSilentDivergence
    Settles
PROPERTIES
    AdoptionKeepsHistory
