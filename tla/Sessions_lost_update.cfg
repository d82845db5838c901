SPECIFICATION Spec
CONSTANTS
  c1 = c1
  c2 = c2
  c3 = c3
  p1 = p1
  p2 = p2
  p3 = p3
  NoPair = NoPair
  Clients = {c1, c2, c3}
  Pairs = {p1, p2, p3}
  Ops <- PasswordOps
  Races <- Revocations
  MaxSignIns = 3
  MaxRevocations = 3
SYMMETRY Symmetry
PROPERTY RevokedStaysRevoked
