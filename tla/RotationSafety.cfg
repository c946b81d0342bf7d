SPECIFICATION Spec
CONSTANTS
    n1 = n1  n2 = n2  n3 = n3
    kubeletConf = kubeletConf  configYaml = configYaml
    apiserver = apiserver  etcdServer = etcdServer  ca = ca
    NoNode = NoNode
    Nodes = {n1, n2}
    ControlPlane = {n1, n2}
    Configs = {configYaml}
    Irregular = {configYaml}
    Certs = {apiserver, ca}
    Renewable = {apiserver}
    MaxFaults = 1
    MaxStops = 1
    MaxAgings = 2
    MaxOperator = 1
SYMMETRY NodeSymmetry
INVARIANTS
    TypeOK
    LeasedMutex
    IdleHoldsNoLease
    NoCordonLeft
    KubeletFresh
PROPERTIES
    LiveLeaseKept
    UncordonReopens
    ImplementsLease
