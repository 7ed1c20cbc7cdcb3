SPECIFICATION Spec
CONSTANTS
  fa = fa
  fb = fb
  r1 = r1
  r2 = r2
  Files = {fa, fb}
  Checked = {fa}
  Size <- Sizes
  Requests = {r1, r2}
  MaxBodies = 3
SYMMETRY AnyRequest
CHECK_DEADLOCK FALSE
INVARIANTS
  NothingBeforeApproval
  BytesAccounted
  ClosedIsStored
