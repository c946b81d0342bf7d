SPECIFICATION Spec
CONSTANTS
    n1 = n1  n2 = n2  n3 = n3
    kubeletConf = kubeletConf  configYaml = configYaml
    apiserver = apiserver  etcdServer = etcdServer  ca = ca
    NoNode = NoNode
    Nodes = {n1}
    ControlPlane = {n1}
    Configs = {kubeletConf}
    Irregular = {}
    Certs = {apiserver}
    Renewable = {apiserver}
    MaxFaults = 0
    MaxStops = 0
    MaxAgings = 0
    MaxOperator = 1
INVARIANTS
    OperatorCordonKept
