SPECIFICATION Spec
CONSTANTS
    general = general
    view = view
    star = star
    first = first
    low = low
    high = high
    other = other
    Settings <- MCSettings
    Marks <- MCMarks
    Values <- MCValues
    Foreign <- MCForeign
    FirstPages <- MCFirst
    Overlaid = {view}
    CoreOwned = {view}
    PageEdits <- MCEdits
    MarkEdits <- MCMarkOnce
    Patches <- MCEdits
    MaxAttempts = 2
    Lossy = TRUE
    Refusing = TRUE
    Listening = FALSE
    Racing = TRUE
    Episodes = {"outage", "restart", "run"}
    NoPage = NoPage
    NoPending = NoPending
    NoPacket = NoPacket
    NoPatch = NoPatch
    MaxCommands = 2
    MaxEpisodes = 1
    MaxRewrites = 1
SYMMETRY MCSymmetry
INVARIANTS
    OneWriter
    TypeOK
    PendingCoversQueue
    BudgetInOrder
    LastWishHeld
    AnsweredOnce
    ConfirmedByNewEcho
