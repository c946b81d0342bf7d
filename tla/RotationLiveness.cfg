SPECIFICATION FairSpec
CONSTANTS
    n1 = n1  n2 = n2  n3 = n3
    kubeletConf = kubeletConf  configYaml = configYaml
    apiserver = apiserver  etcdServer = etcdServer  ca = ca
    NoNode = NoNode
    Nodes = {n1, n2}
    ControlPlane = {n1}
    Configs = {kubeletConf}
    Irregular = {}
    Certs = {apiserver}
    Renewable = {apiserver}
    MaxFaults = 1
    MaxStops = 1
    MaxAgings = 2
    MaxOperator = 0
PROPERTIES
    DueCertRenewed
    StaleConfigUpdated
