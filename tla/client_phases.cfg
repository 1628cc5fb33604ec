SPECIFICATION FairSpec
CONSTANTS
    Region = {r1, r2}
    Caller <- MCCallerAll
    RETRY_ATTEMPTS = 2
    MaxDrives = 2
    MaxCallFaults = 1
    MaxLost = 1
    MaxRefused = 1
    MaxLapses = 1
    MaxTlogFaults = 1
    MaxLocateFaults = 1
    MaxFaults = 4
CHECK_DEADLOCK FALSE
INVARIANTS TypeOK CommitNeedsVotes IgnoredIsForgotten CompleteMeansReplied
PROPERTIES
    CommitCompletes
