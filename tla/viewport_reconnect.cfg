CONSTANTS
    wide = wide
    old = old
    View = {wide, old}
    NoView = NoView
    ReplayOffset <- MCReplayOffset
    Aggregated = {wide}
    Entries = 3
    Window <- MCWindow
    Ts <- MCTs
    AuthRequired = TRUE
    MaxMoves = 2
    MaxFaults = 1
SPECIFICATION PageSpec
PROPERTIES
    Reconnects
CHECK_DEADLOCK FALSE
