SPECIFICATION Spec
CONSTANTS
    MaxThreads = 1
    LowThreads = 1
    MaxObjects = 2
    LowObjects = 1
    HighObjects = 2
    Pushers = {"main"}
    MaxTxns = 2
    MaxRequests = 4
CHECK_DEADLOCK FALSE
INVARIANT
    RightTransaction
