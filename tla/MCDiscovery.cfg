SPECIFICATION FairSpec
CONSTANTS
    p1 = p1
    p2 = p2
    p3 = p3
    p4 = p4
    LISTENING = LISTENING
    Peer = {p1, p2, p3, p4}
    Subnet = {p1}
    Speaks = {p1, p2, p3}
    BucketSize = 1
    EventCap = 2
    MaxAddrs = 1
    MaxConnects = 3
CHECK_DEADLOCK FALSE
INVARIANTS
    TypeOK
    KnownAfterHandshake
    AnnouncedOnce
PROPERTY ConnectedIsAnnounced
