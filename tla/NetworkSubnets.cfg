SPECIFICATION Spec
SYMMETRY Symmetric
CONSTANTS
  Node = {n1, n2}
  Proc = {p1, p2}
  NetId = {1, 2, 3}
  None = None
  MaxOctet = 2
INVARIANTS
  UniqueSubnet
