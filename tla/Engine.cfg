SPECIFICATION Spec
CONSTANTS
  Node = {"n1"}
  App = {"a1"}
  Dnsmasq = "dnsmasq"
  NginxProxy = "nginx-proxy"
  Manifest = {"m1", "m2"}
  Service = {"s1", "s2"}
  Uploads = {}
  ContainerSpec = {"v1", "v2"}
  Id = {1, 2, 3}
  Worker = {w1}
  None = None
  MaxFaults = 1
  MaxCrashes = 0
  RefusedNets = {"n1"}
  RefusedSlots <- MCRefusedSlots
  NodesOf <- MCNodesOf
  AppSpec <- MCAppSpec
  ServicesOf <- MCServicesOf
  Matches <- MCMatches
INVARIANTS
  TypeOK
  ApplySound
  DeleteSound
  StartOrder
  RedisMirrorsDocker
  NeverStuck
PROPERTIES
  ApplyErrorsExplained
