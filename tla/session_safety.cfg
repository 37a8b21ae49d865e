CONSTANTS
    a = a
    b = b
    Tile = {a, b}
    Offsets <- AnyOffset
    UseCursor = TRUE
    ReadCount = {1, 3}
    ThinMax = 2
    BatchFrames = 2
    Modes = {"event", "aggregate"}
    Windows <- MCWindows
    MaxPendingFrames = 1
    PauseFrames = 1
    MaxEntries <- MCMaxEntries
    MaxTrimmed = 1
    MaxOffers = 4
    MaxConnections = 2
    MaxFaults = 1
SPECIFICATION Spec
INVARIANTS
    NothingSkipped
    CursorTruthful
    InOrder
    WrittenOnce
CHECK_DEADLOCK FALSE
