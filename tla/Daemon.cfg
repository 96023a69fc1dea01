SPECIFICATION DaemonSpec
SYMMETRY Symmetric
CONSTANTS
  Node = {"n1"}
  App = {}
  Dnsmasq = "dnsmasq"
  NginxProxy = "nginx-proxy"
  Manifest = {"m1", "m2"}
  Service = {"s1"}
  Uploads = {"m1", "m2"}
  ContainerSpec = {"v1", "v2"}
  Id = {1, 2, 3}
  Worker = {w1, w2}
  None = None
  MaxFaults = 0
  MaxCrashes = 0
  MaxMisses = 1
  RefusedNets = {}
  RefusedSlots = {}
  NodesOf <- MCNodesOf
  AppSpec <- MCAppSpec
  ServicesOf <- MCServicesOf
  Matches <- MCMatches
INVARIANTS
  DaemonTypeOK
  ApplySound
  RedisMirrorsDocker
PROPERTIES
  EngineSpec
  NoStartOnceCleared
  RegisterSpec
