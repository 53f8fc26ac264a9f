SPECIFICATION Spec
CONSTANTS
  o1 = o1
  o2 = o2
  o3 = o3
  Objects <- Two
  Allowed <- Everything
  Slots = 2
  MaxUpdates = 3
INVARIANTS
  TypeOK
  SavedBeforeUsed
PROPERTIES
  UpdatesLeadForward
  ImplementsKeyRotation
CHECK_DEADLOCK FALSE
