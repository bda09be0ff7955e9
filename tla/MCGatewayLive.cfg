SPECIFICATION FairSpec
CONSTANTS
  print1 = print1
  read1 = read1
  post1 = post1
  Commands <- Pair
  Posts <- Post
  PostOf <- PairPostOf
  Unsafe <- One
  Replies = {"a"}
  Timeout = 2
  MaxTime = 2
  MaxResolving = 0
  NoRow = NoRow
PROPERTIES
  EveryCommandSettles
  NoRequestHangs
CHECK_DEADLOCK FALSE
