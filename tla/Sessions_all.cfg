SPECIFICATION Spec
CONSTANTS
  c1 = c1
  c2 = c2
  p1 = p1
  p2 = p2
  p3 = p3
  NoPair = NoPair
  Clients = {c1, c2}
  Pairs = {p1, p2, p3}
  Ops <- AllOps
  Races <- Rotations
  MaxSignIns = 2
  MaxRevocations = 1
SYMMETRY Symmetry
INVARIANT FamilyUniform BurnedFamilyIsDead AcceptedPostdatesRevocation FrozenNoSession MfaTraced
PROPERTY ImplementsLedger
