CONSTANTS
    acme = acme
    other = other
    b1 = b1
    b2 = b2
    r1 = r1
    r2 = r2
    r3 = r3
    Backend = {b1, b2}
    Request = {r1, r2}
    Tenant = {acme, other}
    Owner <- MCOwner
    KeyTenant <- MCKeyTenant
    NotSupplied = NotSupplied
    RequestedTtl = {1, 5}
    TtlMin = 1
    TtlMax = 2
    Minute = 3
    MintLimit = 1
    TokenAuth = {TRUE, FALSE}
    MaxSkew = 1
    MaxDelay = 1
    ReconnectWindow = 1
    MaxTime = 5
    MaxRollouts = 2
SPECIFICATION Spec
INVARIANTS
    TenantIsolation
    ValidTokenKnown
    AccessEnds
    WithinMintLimit
SYMMETRY Symmetry
CHECK_DEADLOCK FALSE
