SPECIFICATION FairSpec
CONSTANTS
    a = a
    b = b
    slots = slots
    Cores <- MCCores
    MaxUid = 3
    Edits <- MCEdits
    Mirrored <- MCEdits
    WizardOverDraft = FALSE
    Scenarios <- MCScenarios
INVARIANTS
    TypeOK
    NoInheritedHistory
    ServersAsLive
    BackupWhole
    QuitFlushes
PROPERTIES
    NoRollback
    SealedUntouched
    EditsReachDisk
CHECK_DEADLOCK FALSE
