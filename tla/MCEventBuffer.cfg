SPECIFICATION FairSpec
CONSTANTS
  Statuses = {"ready", "offline"}
  Unreported = "unreported"
  Nothing = Nothing
  Capacity = 2
  MaxEvents = 4
  MaxChanges = 2
INVARIANTS
  TypeOK
  NothingIsLost
  JournalInOrder
PROPERTY
  PlatformConverges
