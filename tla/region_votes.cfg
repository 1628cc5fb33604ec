SPECIFICATION Spec
CONSTANTS
    a = a
    b = b
    tm1 = tm1
    a1 = a1
    b1 = b1
    NoTS = NoTS
    Tid <- MCTid
    Tm <- MCTm
    TS <- MCTSOnce
    TxId <- MCTxIdOnce
    TmId <- MCTmId
    Row <- MCRow
    MAX_COMMIT_PENDING_WAITS = 1
    MaxEpoch = 1
    MaxLapses = 0
    MaxPutFaults = 0
    MaxWalFaults = 1
    MaxLost = 0
SYMMETRY TransactionSymmetry
CHECK_DEADLOCK FALSE
INVARIANTS
    TypeOK
    PreparedDisjoint
    VotePromise
    ReadOnlyVote
