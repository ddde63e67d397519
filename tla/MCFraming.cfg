SPECIFICATION FairSpec
CONSTANTS
    notFound = notFound
    short = short
    middle = middle
    long = long
    larger = larger
    largest = largest
    NONE = NONE
    FAILED = FAILED
    Message <- Messages
    Encoded <- Encodings
    Base = 2
    RequesterMax = 4
    ResponderMax = 3
CHECK_DEADLOCK FALSE
INVARIANTS
    TypeOK
    BoundedBuffer
PROPERTIES
    ImplementsExchange
    EveryReadEnds
    FittingDelivered
