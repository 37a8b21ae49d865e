CONSTANTS
    Channel = {c1, c2, c3, c4}
    c1 = c1
    c2 = c2
    c3 = c3
    c4 = c4
    MaxActive = 2
    MaxHourly = 3
    MinTtl = 1
    MaxTtl = 4
    Requested = {0, 9}
    Hour = 3
    MaxSkew = 1
    Digit = {0, 1}
    MaxRes = 2
    Settings <- MCSettings
    Bodies <- MCBodies
SYMMETRY Permuted
SPECIFICATION RequestSpec
INVARIANTS
    WithinActiveLimit
    WithinHourlyLimit
    RefusalsJustified
    DeliveredOnce
    MaterializationBounded
