SPECIFICATION Spec
CONSTANTS
  print1 = print1
  read1 = read1
  post1 = post1
  Commands <- Pair
  Posts <- Post
  PostOf <- PairPostOf
  Unsafe <- One
  Replies = {"a"}
  Timeout = 2
  MaxTime = 2
  MaxResolving = 1
  NoRow = NoRow
INVARIANTS
  TypeOK
  OneInFlightPerPost
  DefiniteAnswerIsDurable
  AcknowledgedIsStored
  NoAnswerIsMissed
PROPERTIES
  ImplementsContract
CHECK_DEADLOCK FALSE
