CONSTANTS
    r1 = r1
    r2 = r2
    r3 = r3
    Request = {r1, r2, r3}
    Key = {k1}
    NoKey = NoKey
    NoRecord = NoRecord
    small = small
    big = big
    Payload <- MCPayload
    MaxSize = 2
    Size <- MCSize
    RateLimit = 2
    MaxFaults = 1
CHECK_DEADLOCK FALSE
SPECIFICATION CompetingSpec
INVARIANTS
    ReplayFaithful
    AcceptedOnce
    NoLeakedReservation
PROPERTIES
    ImplementsContract
    Answered
