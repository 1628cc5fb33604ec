SPECIFICATION Spec
CONSTANTS
    a = a
    b = b
    Txns = {a, b}
    Regions = {"r1"}
    TMs = {"m"}
    TmOf <- MCTmOf
    Branches <- MCBranches
    Failures = {"server", "TM"}
    Keep = 1
    MaxControlPts = 0
    MaxFailures = 1
CHECK_DEADLOCK FALSE
SYMMETRY TransactionSymmetry
INVARIANTS LostIsExplained InDoubtAnnounced
