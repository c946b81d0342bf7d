SPECIFICATION FairSpec
CONSTANTS
    m1 = m1  m2 = m2
    node = node
    serving = serving  partial = partial  barred = barred
    NoManager = NoManager  NoRequest = NoRequest
    Requests = {serving}
    Content <- MCContent
    Users = {node}
    NodeUsers = {node}
    Permitted = {serving}
    Managers = {m1, m2}
    MaxFaults = 1
    MaxStops = 1
    MaxLapses = 1
    MaxAdmin = 1
CHECK_DEADLOCK FALSE
INVARIANTS
    TypeOK
    KcmOnlyAfterManual
    NothingForgotten
    SignedInHand
PROPERTIES
    EventuallySigned
    ImplementsLifecycle
