SPECIFICATION Spec
CONSTANTS
  o1 = o1
  o2 = o2
  k1 = k1
  r1 = r1
  r2 = r2
  s1 = s1
  s2 = s2
  Receipts = {r1, r2}
  Orders = {o1, o2}
  Keys = {k1}
  Runs = {s1, s2}
  Plan <- Plans
  Facts <- TwoFacts
  MaxVersion <- TwoVersions
  NoOrder = NoOrder
  NoRun = NoRun
  AutoApply = TRUE
SYMMETRY Symmetry
INVARIANTS
  NothingBeyondTheReceipt
CHECK_DEADLOCK FALSE
