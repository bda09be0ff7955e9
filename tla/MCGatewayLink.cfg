SPECIFICATION Spec
CONSTANTS
  print1 = print1
  Commands <- OnePrint
  Unsafe <- OnePrint
  Post = post
  Timeout = 2
  MaxTime = 3
  MaxResolving = 1
  Margin = 0
  NoRow = NoRow
  NoJob = NoJob
  MaxLate = 1
INVARIANTS
  TypeOK
  PrintAtMostOnce
  InvokedInTime
  ExpiredNeverExecuted
  RejectedLeavesUnknown
PROPERTY
  ImplementsLabelCommand
CHECK_DEADLOCK FALSE
