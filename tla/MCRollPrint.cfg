SPECIFICATION Spec
CONSTANTS
  k1 = k1
  k2 = k2
  anna = anna
  boris = boris
  Keys <- TwoKeys
  Operators <- Crew
  NoOne = NoOne
  Reasons = {none, torn}
  NoReason = none
  MaxSession = 2
SYMMETRY Symmetry
INVARIANTS
  TypeOK
  JournalMatchesJob
  OneLabelAtATime
  NoLabelNoPassage
PROPERTIES
  WeightIsFrozen
  ImplementsPrintJob
CHECK_DEADLOCK FALSE
