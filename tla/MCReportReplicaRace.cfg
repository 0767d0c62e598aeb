SPECIFICATION Spec
CONSTANTS
    MaxId = 2
    CalmDeletes = FALSE
    Scenarios <- MCRace
INVARIANTS
    DeletedStartsFromZero
CHECK_DEADLOCK FALSE
