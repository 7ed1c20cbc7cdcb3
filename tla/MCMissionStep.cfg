SPECIFICATION Spec
CONSTANTS
  a = a
  b = b
  c = c
  e1 = e1
  e2 = e2
  Idle = Idle
  Nodes = {a, b, c}
  Deps <- ChainDeps
  Gated = {b}
  MaxRetries <- OneRetry
  Executors = {}
  Steppers = {e1, e2}
  Controls = {"pause", "cancel", "start"}
  MaxCrashes = 1
PROPERTIES
  ImplementsLedger
