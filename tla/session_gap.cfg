CONSTANTS
    a = a
    b = b
    Tile = {a, b}
    Offsets <- OnlyLive
    UseCursor = FALSE
    ReadCount = {3}
    ThinMax = 2
    BatchFrames = 2
    Modes = {"event"}
    Windows <- MCWindows
    MaxPendingFrames = 1
    PauseFrames = 1
    MaxEntries <- MCMaxEntries
    MaxTrimmed = 1
    MaxOffers = 4
    MaxConnections = 1
    MaxFaults = 0
SPECIFICATION Spec
INVARIANTS
    LiveSkipsNothing
CHECK_DEADLOCK FALSE
