SPECIFICATION Spec
CONSTANTS
  Statuses = {"ready", "offline"}
  Unreported = "unreported"
  Nothing = Nothing
  Capacity = 2
  MaxEvents = 5
  MaxChanges = 2
INVARIANT
  OnlyOverflowDrops
