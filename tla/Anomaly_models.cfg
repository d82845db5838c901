SPECIFICATION Spec
CONSTANTS
  u1 = u1
  u2 = u2
  u3 = u3
  Users = {u1, u2, u3}
  MinSamples = 2
  MaxSamples = 2
  RefitEvery = 1
  MaxTracked = 2
  Inputs <- Both
  Races <- NoRace
  MaxRequests = 4
  MaxFaults = 2
INVARIANT MemoryBounded ModelsFitted SpikeNotMasked
PROPERTY FitsFinish
