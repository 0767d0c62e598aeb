SPECIFICATION PageSpec
CONSTANTS
    general = general
    view = view
    star = star
    Settings <- MCSettings
    Marks = {}
    Values <- MCValues
    Foreign <- MCValues
    FirstPages <- MCFirst
    Overlaid = {}
    CoreOwned = {}
    PageEdits = {}
    MarkEdits = {}
    Patches = {}
    MaxAttempts = 2
    Lossy = FALSE
    Refusing = FALSE
    Listening = TRUE
    Racing = FALSE
    Episodes = {}
    NoPage = NoPage
    NoPending = NoPending
    NoPacket = NoPacket
    NoPatch = NoPatch
    MaxCommands = 3
    MaxEpisodes = 0
    MaxRewrites = 0
    Shown <- MCShown
    NoRow = NoRow
    NoSent = NoSent
INVARIANTS
    NoSilentRevert
