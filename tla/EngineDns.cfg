SPECIFICATION Spec
CONSTANTS
  Node = {"n1"}
  App = {"a1"}
  Dnsmasq = "dnsmasq"
  NginxProxy = "nginx-proxy"
  Manifest = {"m1", "m2"}
  Service = {"s1", "s2"}
  Uploads = {}
  ContainerSpec = {"v1", "v2"}
  Id = {1, 2, 3}
  Worker = {w1}
  None = None
  MaxFaults = 0
  MaxCrashes = 0
  RefusedNets = {}
  RefusedSlots = {}
  NodesOf <- MCNodesOf
  AppSpec <- MCAppSpec
  ServicesOf <- MCServicesOf
  Matches <- MCMatches
INVARIANTS
  DnsServesManifest
