SPECIFICATION Spec
CONSTANTS
    tp = tp
    manual = manual
    ban = ban
    Projected = {tp}
    TempSymbols <- MCTempSymbols
    Values = {0, 1, 2}
    CoreOwned = {}
    Edits <- MCEdits
    TempEdits <- MCTempEdits
    FirstSettings <- MCFirstWish
    Exits = {}
    Orders = {}
    ManualOff <- MCNoExit
    MaxAttempts = 2
    Reuse = FALSE
    Lossy = TRUE
    NoSettings = NoSettings
    NoPending = NoPending
    NoPacket = NoPacket
    MaxCommands = 3
    MaxConn = 1
    MaxRewrites = 0
INVARIANTS
    LastWishHeld
