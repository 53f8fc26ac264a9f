SPECIFICATION Spec
CONSTANTS
  o1 = o1
  o2 = o2
  o3 = o3
  Objects <- Three
  Allowed <- Nothing
  Slots = 2
  MaxUpdates = 1
INVARIANTS
  WaitsWithNothingLeft
CHECK_DEADLOCK FALSE
