SPECIFICATION Spec
CONSTANTS
  h1 = h1
  h2 = h2
  Duration = 0
  MaxBatch = 2
  Handlers = {h1, h2}
  Cap = 1
  Lifetime = 0
  MaxRuns = 3
INVARIANT FlagMeansEngine PoolsReleased CountsOwn SocketsBounded
PROPERTY EverythingEnds
