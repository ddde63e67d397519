SPECIFICATION Spec
CONSTANTS
    container = container
    bare = bare
    EMPTY = EMPTY
    NONE = NONE
    Field = {"sandbox_level"}
    Word = {EMPTY, container, bare}
    Identity = {i1, i2}
    Body = {p, q}
    FacetChoices <- Choices
    Dim = 2
    Lengths = {1, 2}
    W = 2
    MaxBuilt = 2
    MaxChanges = 2
CHECK_DEADLOCK FALSE
INVARIANTS
    TypeOK
    AcceptedIffBuilt
    ReceiptsSurvive
