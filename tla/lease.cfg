CONSTANTS
    c1 = c1
    c2 = c2
    chA = chA
    chB = chB
    Connection = {c1, c2}
    Channel = {chA, chB}
    ChannelOf <- MCChannelOf
    MaxTenant = 1
    MaxChannel = 1
    Lease = 4
    Period = 1
    MaxSkew = 1
    Timely = TRUE
    MaxLine = 1
    MaxFaults = 2
SPECIFICATION FairSpec
INVARIANTS
    WithinTenantLimit
    EndedIsReleased
    NeverLapses
PROPERTIES
    PlaceReturns
