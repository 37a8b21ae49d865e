CONSTANTS
    MaxPendingFrames = 2
    MaxPendingBytes = 4
    FrameBytes = {2, 5}
    MaxOffers = 4
    WaitingSoft = 1
    FramesSoft = 2
    BytesSoft = 3
    MaxShedPct = 90
    MaxBatch = 3
    MaxDropPct = 1
    StopOnFailure = FALSE
    ResetModes = {"none", "warn", "strict"}
    MaxStages = 2
    MaxResets = 1
SPECIFICATION LoadSpec
INVARIANTS
    OneFate
    DropsOldest
    NoStall
    RegistryExact
    ShedJustified
PROPERTIES
    StageExact
CHECK_DEADLOCK FALSE
