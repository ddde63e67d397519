SPECIFICATION Spec
CONSTANTS
    n1 = n1
    n2 = n2
    a = a
    b = b
    d = d
    x = x
    near = near
    next = next
    python = python
    bash = bash
    EMPTY = EMPTY
    Field = {"region"}
    Word = {EMPTY, python, bash}
    Node = {n1, n2}
    Card = {a, b, d}
    CapId = {x}
    PublisherOf <- Publishers
    CapOf <- Ids
    FacetsOf <- CardFacets
    VectorOf <- Vectors
    Vector = {near, next}
    NonNegative <- Sides
    K = 3
    L = 2
    ByteBits = 2
    Requester = n2
    Required <- Asked
    Query = near
    MaxPublishes = 3
    MaxRestarts = 1
CHECK_DEADLOCK FALSE
INVARIANTS
    TypeOK
    HitsAreNeighbours
    OwnRecordsKept
    FilledBucketsHit
