SPECIFICATION Spec
CONSTANTS
    NONE = NONE
    TORN = TORN
    HasPath = TRUE
    MaxBoots = 3
    MaxRows = 2
CHECK_DEADLOCK FALSE
INVARIANT IdentityPersists
