SPECIFICATION FairSpec
CONSTANTS
    a = a
    b = b
    Txns = {a}
    Regions = {"r1"}
    TMs = {"m"}
    TmOf <- MCTmOf
    Branches <- MCBranches
    Failures = {"server", "TM", "TLOG", "flush", "restore"}
    Keep = 1
    MaxControlPts = 2
    MaxFailures = 2
CHECK_DEADLOCK FALSE
INVARIANTS TypeOK StoredIsExplained LostIsExplained
PROPERTY BranchResolved
