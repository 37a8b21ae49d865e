CONSTANTS
    wide = wide
    old = old
    View = {wide, old}
    NoView = NoView
    ReplayOffset <- MCReplayOffset
    Aggregated = {wide}
    Entries = 3
    Window <- MCWindow
    Ts <- MCTs
    AuthRequired = TRUE
    MaxMoves = 2
    MaxFaults = 2
SPECIFICATION PageSpec
INVARIANTS
    OneStream
    LatestWins
    CursorKeepsOffset
    CountExact
    NewestDrawn
PROPERTIES
    Settles
CHECK_DEADLOCK FALSE
