SPECIFICATION Spec
CONSTANTS
  o1 = o1
  o2 = o2
  Objects <- Two
  Strategies <- All
  Allowed <- Crashes
  MaxEpoch = 3
  MaxCommands = 2
PROPERTIES
  ImplementsKeyRotation
CHECK_DEADLOCK FALSE
