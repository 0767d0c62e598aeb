SPECIFICATION Spec
CONSTANTS
    tp = tp
    manual = manual
    ban = ban
    Projected <- MCProjected
    TempSymbols = {}
    Values <- MCValues
    CoreOwned = {manual}
    Edits = {}
    TempEdits = {}
    FirstSettings <- MCFirst
    Exits <- MCExits
    Orders <- MCOrders
    ManualOff <- MCManualOff
    MaxAttempts = 2
    Reuse = TRUE
    Lossy = TRUE
    NoSettings = NoSettings
    NoPending = NoPending
    NoPacket = NoPacket
    MaxCommands = 2
    MaxConn = 1
    MaxRewrites = 0
PROPERTIES
    BarrierSpec
INVARIANTS
    TypeOK
    PendingCoversPrefix
    BudgetIsHeads
    NoOvertaking
    BoundedWait
