SPECIFICATION Spec
CONSTANTS
    a = a
    b = b
    tm1 = tm1
    a1 = a1
    b1 = b1
    NoTS = NoTS
    Tid <- MCTid
    Tm <- MCTm
    TS <- MCTSOnce
    TxId <- MCTxIdOnce
    TmId <- MCTmId
    Row <- MCOneRow
    MAX_COMMIT_PENDING_WAITS = 0
    MaxEpoch = 2
    MaxLapses = 0
    MaxPutFaults = 0
    MaxWalFaults = 0
    MaxLost = 0
CHECK_DEADLOCK FALSE
INVARIANT
    OnlyUnneededRemoved
