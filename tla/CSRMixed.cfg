SPECIFICATION FairSpec
CONSTANTS
    m1 = m1  m2 = m2
    node = node
    serving = serving  partial = partial  barred = barred
    NoManager = NoManager  NoRequest = NoRequest
    Requests = {serving, partial, barred}
    Content <- MCContent
    Users = {node}
    NodeUsers = {node}
    Permitted = {serving, partial}
    Managers = {m1}
    MaxFaults = 1
    MaxStops = 1
    MaxLapses = 0
    MaxAdmin = 0
CHECK_DEADLOCK FALSE
INVARIANTS
    ServingCertsOnly
PROPERTIES
    EventuallySigned
