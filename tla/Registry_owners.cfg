SPECIFICATION Spec
CONSTANTS
  u1 = u1
  u2 = u2
  u3 = u3
  n1 = n1
  n2 = n2
  s1 = s1
  s2 = s2
  h1 = h1
  h2 = h2
  Keep = Keep
  Users = {u1, u2, u3}
  Names = {n1, n2}
  Ids = {s1, s2}
  Handlers = {h1, h2}
  Static = {n1}
  Races <- NoRace
  MaxCalls = 5
  MaxAccounts = 1
SYMMETRY Symmetry
INVARIANT AdminRemains RegisteredShadowsStatic DeactivatedUnrouted NoInheritance
