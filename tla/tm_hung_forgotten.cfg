SPECIFICATION Spec
CONSTANTS
    Serial = TRUE
    MaxRequests = 1
    MaxDooms = 0
    MaxJoins = 0
    MaxFaults = 1
CHECK_DEADLOCK FALSE
INVARIANT
    HungIsKept
