SPECIFICATION Spec
CONSTANTS
  t1 = t1
  c1 = c1
  c2 = c2
  Names = {t1}
  Callers = {c1, c2}
  PoolSize = 1
  AuditCap = 1
  MaxOffers = 2
  MaxRuns = 2
INVARIANTS
  NeverLost
  ListedWhateverLoads
  SuccessIsEarned
PROPERTIES
  CallsReturn
