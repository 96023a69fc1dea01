SPECIFICATION FairDaemonSpec
CONSTANTS
  Node = {"n1"}
  App = {}
  Dnsmasq = "dnsmasq"
  NginxProxy = "nginx-proxy"
  Manifest = {"m1"}
  Service = {"s1"}
  Uploads = {"m1"}
  ContainerSpec = {"v1", "v2"}
  Id = {1, 2, 3}
  Worker = {w1}
  None = None
  MaxFaults = 1
  MaxCrashes = 1
  MaxMisses = 0
  RefusedNets = {"n1"}
  RefusedSlots = {}
  NodesOf <- MCNodesOf
  AppSpec <- MCAppSpec
  ServicesOf <- MCServicesOf
  Matches <- MCMatches
PROPERTIES
  CallsReturn
  StoppedGetsStarted
  RequestsAnswered
