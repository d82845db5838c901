SPECIFICATION GuardSpec
CONSTANTS
  c1 = c1
  c2 = c2
  c3 = c3
  Clients = {c1, c2, c3}
  FailLimit = 3
  FailWindow = 2
  BlockSeconds = 4
  MaxClock = 11
  MaxFailures = 6
SYMMETRY Symmetry
INVARIANT GuardBlocks BlockEarned
