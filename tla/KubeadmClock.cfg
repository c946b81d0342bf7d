SPECIFICATION Spec
CONSTANTS
    apiserver = apiserver  ca = ca  NoCert = NoCert
    Certs = {apiserver, ca}
    Renewable = {apiserver}
    PollingPeriod = 2
    RenewBefore = 12
    Lifetime = 17
    FirstEnds = {0, 12, 13, 14, 17}
    MaxDelay = 1
    Minute = 2
    HalfDay = 3
    MaxSetbacks = 1
    MaxTime = 24
CHECK_DEADLOCK FALSE
INVARIANTS
    TypeOK
    RenewedInTime
    BackupKept
PROPERTIES
    RenewedOnlyWhenDue
