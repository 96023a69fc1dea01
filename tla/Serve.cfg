SPECIFICATION ServeSpec
CONSTANTS
  Node = {"n1"}
  App = {}
  Dnsmasq = "dnsmasq"
  NginxProxy = "nginx-proxy"
  Manifest = {"m1"}
  Service = {"s1"}
  Uploads = {"m1"}
  ContainerSpec = {}
  Id = {1, 2, 3}
  Worker = {w1, w2}
  None = None
  FileName = {"f1"}
  MaxFaults = 1
  MaxMisses = 1
  MaxCrashes = 0
  RefusedNets = {}
  RefusedSlots = {}
  NodesOf <- MCNodesOf
  AppSpec <- MCAppSpec
  ServicesOf <- MCServicesOf
  Matches <- MCMatches
INVARIANTS
  ServeTypeOK
  OwnUpload
  ListingComplete
