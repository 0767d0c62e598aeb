SPECIFICATION PageFairSpec
CONSTANTS
    general = general
    view = view
    star = star
    Settings = {view}
    Marks = {}
    Values <- MCValues
    Foreign <- MCValues
    FirstPages <- MCFirst
    Overlaid = {}
    CoreOwned = {view}
    PageEdits = {}
    MarkEdits = {}
    Patches = {}
    MaxAttempts = 2
    Lossy = TRUE
    Refusing = TRUE
    Listening = TRUE
    Racing = TRUE
    Episodes = {"outage", "restart"}
    NoPage = NoPage
    NoPending = NoPending
    NoPacket = NoPacket
    NoPatch = NoPatch
    MaxCommands = 1
    MaxEpisodes = 1
    MaxRewrites = 0
    Shown = {view}
    NoRow = NoRow
    NoSent = NoSent
INVARIANTS
    RowHasWork
PROPERTIES
    QueueEmpties
    WindowFollows
