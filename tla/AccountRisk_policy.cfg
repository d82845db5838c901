SPECIFICATION Spec
CONSTANTS
  r1 = r1
  r2 = r2
  s1 = s1
  s2 = s2
  Requests = {r1, r2}
  Sessions = {s1, s2}
  Ops <- AllOps
  Races <- StepupRace
  MfaEnabled = TRUE
  FreezeTicks = 1
  MaxTime = 3
  MaxFreezes = 2
SYMMETRY Symmetry
INVARIANT FreezeHolds ShownIsEnforced StepupPaired AccountReverified
