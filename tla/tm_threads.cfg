SPECIFICATION FairSpec
CONSTANTS
    MaxThreads = 2
    LowThreads = 1
    MaxObjects = 2
    LowObjects = 1
    HighObjects = 1
    Pushers = {"main"}
    MaxTxns = 3
    MaxRequests = 3
CHECK_DEADLOCK FALSE
INVARIANTS
    TypeOK
    PoolSound
    OneServerInTurn
    WorkIsKnown
PROPERTY
    Answered
