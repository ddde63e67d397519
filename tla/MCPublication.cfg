SPECIFICATION FairSpec
CONSTANTS
    q1 = q1
    q2 = q2
    q3 = q3
    q4 = q4
    SHUTDOWN = SHUTDOWN
    Call = {q1, q2, q3, q4}
    Misfit = {q4}
    Invalid = {q3}
    L = 2
    QueueSize = 2
    EventSize = 1
CHECK_DEADLOCK FALSE
INVARIANTS
    TypeOK
    AwaitedIsUnderWay
    AnswerIsLastQuery
PROPERTIES
    EveryCallReturns
    ShutdownEndsLoop
