SPECIFICATION Spec
CONSTANTS
  c1 = c1
  c2 = c2
  k1 = k1
  k2 = k2
  k3 = k3
  n1 = n1
  n2 = n2
  None = None
  Clients = {c1, c2}
  Keys = {k1, k2, k3}
  Names = {n1, n2}
  Ops <- AllOps
  Races <- NoRace
SYMMETRY Symmetry
INVARIANT OneActiveKey
PROPERTY ImplementsLife RevokedStaysRevoked
