SPECIFICATION FairSpec
CONSTANTS
  c1 = c1  c2 = c2  c3 = c3  k1 = k1  k2 = k2  k3 = k3
  Clients = {c1, c2}
  Clusters = {k1, k2, k3}
  MaxKey = 4
  Requests = {0, 1, 4}
  NoEntry = NoEntry
  Serialized = TRUE
INVARIANTS
  DistinctKeys
PROPERTIES
  OnlyMinusOneReplaced
  VerifyReturns
