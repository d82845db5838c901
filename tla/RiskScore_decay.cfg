SPECIFICATION ScoreSpec
CONSTANTS
  r1 = r1
  r2 = r2
  r3 = r3
  Requests = {r1, r2, r3}
  Amounts = {3, 6}
  Overlaps <- NoRace
  Top = 20
  MaxTime = 5
SYMMETRY Symmetry
INVARIANT OnCurve
