SPECIFICATION FairSpec
CONSTANTS
  Order <- DefaultOrder
  Info <- DefaultInfo
  CacheCap = 1
  Texts <- TextsUsed
  Asks <- AsksUsed
  ReflexPolicies <- ReflexPoliciesUsed
  RouterPolicies <- RouterPoliciesUsed
  Latencies <- LatenciesUsed
  MaxRequests = 2
CHECK_DEADLOCK FALSE
INVARIANTS
  SentWhereAllowed
  WithinBudget
  CacheIsSound
PROPERTIES
  AlwaysAnswered
