SPECIFICATION Spec
CONSTANTS
  r1 = r1
  r2 = r2
  q1 = q1
  q2 = q2
  Rolls <- TwoRolls
  Requests <- TwoRequests
  MaxPallets = 2
  MaxCommands = 5
  NoVoid = NoVoid
SYMMETRY Symmetry
INVARIANTS
  TypeOK
  ListMatchesPallet
  ClosedIntakeIsCovered
  DeliveryMatchesStock
  ReadyIsWhole
PROPERTIES
  ImplementsPrintJob
CHECK_DEADLOCK FALSE
