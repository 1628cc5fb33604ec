SPECIFICATION FairSpec
CONSTANTS
    Serial = TRUE
    MaxRequests = 2
    MaxDooms = 1
    MaxJoins = 1
    MaxFaults = 2
CHECK_DEADLOCK FALSE
INVARIANTS
    TypeOK
    DeathIsLateDoom
PROPERTIES
    ImplementsOutcome
    EndAnswered
    HungResolved
