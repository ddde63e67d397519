SPECIFICATION Spec
CONSTANTS
    eu = eu
    us = us
    python = python
    bash = bash
    EMPTY = EMPTY
    NONE = NONE
    NAN = NAN
    NEG_INF = NEG_INF
    Field <- Fields
    Word <- Words
    Card <- Cards
    FacetsOf <- CardFacets
    Cosine <- Cosines
    Requests <- AllRequests
    MaxCards = 4
CHECK_DEADLOCK FALSE
INVARIANTS
    FirstOfBest
    RankedSoFar
    FoundCardsPass
