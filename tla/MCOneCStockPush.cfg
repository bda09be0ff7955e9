SPECIFICATION Spec
CONSTANTS
  c1 = c1
  c2 = c2
  c3 = c3
  Calls <- ThreeCalls
  Keys = {k1, k2}
  Actors = {anna, boris}
  MaxRevision = 2
  Nothing = Nothing
SYMMETRY Symmetry
INVARIANTS
  TypeOK
  OneAttemptPerSnapshot
  LedgerTellsTheTruth
CHECK_DEADLOCK FALSE
