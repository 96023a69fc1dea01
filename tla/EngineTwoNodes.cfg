SPECIFICATION Spec
CONSTANTS
  Node = {"n1", "n2"}
  App = {}
  Dnsmasq = "dnsmasq"
  NginxProxy = "nginx-proxy"
  Manifest = {"m1", "m2"}
  Service = {"s1"}
  Uploads = {"m1"}
  ContainerSpec = {}
  Id = {1, 2, 3}
  Worker = {w1}
  None = None
  MaxFaults = 0
  MaxCrashes = 1
  RefusedNets = {"n2"}
  RefusedSlots = {}
  NodesOf <- MCNodesOf
  AppSpec <- MCAppSpec
  ServicesOf <- MCServicesOf
  Matches <- MCMatches
INVARIANTS
  ApplySound
  DeleteSound
PROPERTIES
  ApplyErrorsExplained
  CallsAdvance
