SPECIFICATION Spec
CONSTANTS
  m1 = m1
  s1 = s1
  s2 = s2
  Stores = {s1, s2}
  Ids = {m1}
  Kind <- SameKind
  Ahead <- NoSkew
  Distinct = TRUE
  Ages <- AgesUsed
  Lifetimes <- LifetimesUsed
  MaxTime = 3
  MaxWrites = 2
SYMMETRY Symmetry
INVARIANTS
  AbsorbedOrNewer
  DeletedStaysDeleted
  ExchangeAgrees
