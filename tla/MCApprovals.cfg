SPECIFICATION Spec
CONSTANTS
  i1 = i1
  c1 = c1
  o1 = o1
  o2 = o2
  Ids = {i1}
  Ttl <- OneTick
  Levels = {1, 3}
  MaxAuto = 1
  Clients = {c1}
  Operators = {o1, o2}
  MaxTime = 2
INVARIANTS
  NoGrantWhileKilled
  GrantIsBacked
PROPERTIES
  FirstDecisionStands
