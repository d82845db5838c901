SPECIFICATION Spec
CONSTANTS
  w1 = w1
  w2 = w2
  auth = auth
  mfa = mfa
  Workers = {w1, w2}
  Buckets = {auth, mfa, forgot}
  forgot = forgot
  Limit <- Limits
  Window = 2
  MaxKeys = 1
  Races <- Outages
  MaxTime = 4
  MaxRequests = 5
SYMMETRY Symmetry
INVARIANT StoreLimit RefusalsLeaveNoTrace RetryHonest StoreBounded
