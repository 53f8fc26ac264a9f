SPECIFICATION FairSpec
CONSTANTS
  o1 = o1
  o2 = o2
  o3 = o3
  Objects <- Two
  Allowed <- Nothing
  Slots = 1
  MaxUpdates = 6
INVARIANTS
  WaitsWithNothingLeft
PROPERTIES
  EveryUpdateApplied
CHECK_DEADLOCK FALSE
