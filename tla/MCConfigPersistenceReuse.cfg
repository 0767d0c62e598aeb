SPECIFICATION Spec
CONSTANTS
    a = a
    b = b
    slots = slots
    Cores <- MCCores
    MaxUid = 3
    Edits <- MCEdits
    Mirrored <- MCEdits
    WizardOverDraft = TRUE
    Scenarios <- MCReuse
INVARIANTS
    NoInheritedHistory
CHECK_DEADLOCK FALSE
