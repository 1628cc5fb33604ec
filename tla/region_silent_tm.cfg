SPECIFICATION FairSpec
CONSTANTS
    a = a
    b = b
    tm1 = tm1
    a1 = a1
    b1 = b1
    NoTS = NoTS
    Tid <- MCTidOne
    Tm <- MCTm
    TS <- MCTSOne
    TxId <- MCTxIdOne
    TmId <- MCTmIdOne
    Row <- MCOneRow
    MAX_COMMIT_PENDING_WAITS = 1
    MaxEpoch = 4
    MaxLapses = 4
    MaxPutFaults = 1
    MaxWalFaults = 1
    MaxLost = 1
CHECK_DEADLOCK FALSE
INVARIANT
    CommitFailureIsRace
PROPERTY
    PreparedResolved
