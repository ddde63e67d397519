SPECIFICATION FairSpec
CONSTANTS
    a = a
    b = b
    d = d
    c1 = c1
    c2 = c2
    t1 = t1
    t2 = t2
    k1 = k1
    k2 = k2
    k3 = k3
    x = x
    y = y
    NONE = NONE
    Node = {a, b, d}
    CapId = {x, y}
    OwnerOf <- MCOwnerOf
    CapOf <- MCCapOf
    AgentOf <- MCAgentOf
    Hits <- MCHits
    Score <- MCScore
    Conv = {c2}
    Table = {t1, t2}
    Card = {k1, k2}
    Passing <- AllPass
    Publications <- OwnCards
    Lossy = FALSE
    MaxStops = 0
CHECK_DEADLOCK FALSE
PROPERTY RequestFollowsLookups
