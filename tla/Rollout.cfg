SPECIFICATION Spec
CONSTANTS
  Image = {"app", "gone", "dnsmasq", "nginx"}
  Pullable = {"app", "dnsmasq", "nginx"}
  None = None
  MaxExits = 1
  ImageEnv <- MCImageEnv
  ImageCmd <- MCImageCmd
  Manifest = {"Base", "Swapped", "OneNode", "PortSums", "TooHigh", "TwoOfAName", "TwoNodesOfAName", "SameListeners", "NoNodes", "NoContainer", "NoNode", "NoTarget", "NoPortGiven", "TwoServicesOfAName"}
  Content <- MCContent
INVARIANTS
  TypeOK
  ApplyGivesSpec
  RoutesReach
  ApplyIsIdempotent
  RetrySucceeds
