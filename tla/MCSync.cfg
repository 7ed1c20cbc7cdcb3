SPECIFICATION Spec
CONSTANTS
  d1 = d1
  d2 = d2
  d3 = d3
  i1 = i1
  i2 = i2
  None = None
  Peers = {d1, d2, d3}
  Rank <- Ranks
  Ids = {i1, i2}
  MaxStamp = 2
  MaxWrites = 3
  MaxBatches = 2
SYMMETRY AnyId
INVARIANTS
  ExchangeConverges
  OrderIrrelevant
