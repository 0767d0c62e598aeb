SPECIFICATION FairSpec
CONSTANTS
    MaxId = 2
    CalmDeletes = TRUE
    Scenarios <- MCScenarios
INVARIANTS
    TypeOK
    NoHole
    Reconciled
    NoStaleContent
    AwaitedFromZero
PROPERTIES
    Converges
CHECK_DEADLOCK FALSE
