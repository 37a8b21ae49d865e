CONSTANTS
    s1 = s1
    s2 = s2
    Session <- MCSession
    a = a
    b = b
    Tile <- MCTile
    Newest <- MCNewest
    MaxOffset = 2
    MaxQueued = 1
    MaxFaults = 1
SPECIFICATION FairSpec
INVARIANTS
    NothingLost
PROPERTIES
    StoredMonotone
    ResumesAfterLastFlush
    CursorCatchesUp
CHECK_DEADLOCK FALSE
