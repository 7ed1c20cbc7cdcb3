SPECIFICATION PeersSpec
CONSTANTS
  d1 = d1
  p1 = p1
  p2 = p2
  c1 = c1
  c2 = c2
  NoPrint = NoPrint
  Devices = {d1}
  Prints = {p1, p2}
  Codes = {c1, c2}
  Ttl = 1
  MaxAttempts = 2
  MaxTime = 2
  MaxIssues = 2
  MaxFailures = 2
SYMMETRY Symmetry
CHECK_DEADLOCK FALSE
INVARIANTS
  CodesAreEarned
  StateSurvives
  DecisionsStand
