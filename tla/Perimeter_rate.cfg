SPECIFICATION Spec
CONSTANTS
  c1 = c1
  c2 = c2
  Conns = {c1, c2}
  Bands <- SmallBands
  Requests <- Mixed
  Others <- Marked
  Threshold = 2
  HitWindow = 1
  BlockTime = 3
  AdminTimes = {1}
  ScoreWindow = 1
  Stall = 1
  Races <- Never
  MaxTime = 5
  MaxRequests = 4
  MaxHandles = 2
SYMMETRY Symmetry
INVARIANT RateAloneBlocks
