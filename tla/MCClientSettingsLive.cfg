SPECIFICATION FairSpec
CONSTANTS
    tp = tp
    manual = manual
    ban = ban
    Projected <- MCProjected
    TempSymbols = {}
    Values <- MCValues
    CoreOwned = {manual}
    Edits = {}
    TempEdits = {}
    FirstSettings <- MCFirst
    Exits <- MCExits
    Orders <- MCOrders
    ManualOff <- MCManualOff
    MaxAttempts = 2
    Reuse = TRUE
    Lossy = TRUE
    NoSettings = NoSettings
    NoPending = NoPending
    NoPacket = NoPacket
    MaxCommands = 1
    MaxConn = 2
    MaxRewrites = 1
INVARIANTS
    NoStaleOrder
PROPERTIES
    EveryOrderLeaves
