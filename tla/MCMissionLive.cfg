SPECIFICATION FairSpec
CONSTANTS
  a = a
  b = b
  c = c
  e1 = e1
  e2 = e2
  Idle = Idle
  Nodes = {a, b, c}
  Deps <- DiamondDeps
  Gated = {a}
  MaxRetries <- OneRetry
  Executors = {e1, e2}
  Steppers = {}
  Controls = {}
  MaxCrashes = 1
CHECK_DEADLOCK FALSE
PROPERTIES
  MissionSettles
