SPECIFICATION Spec
CONSTANTS
  o1 = o1
  o2 = o2
  Objects <- Two
  Allowed <- Faults
  MaxReencryptions = 4
  MaxEpoch = 4
  MaxCommands = 2
INVARIANTS
  SettledReadable
  UploadKept
  ReencryptionBound
  OngoingIffPending
PROPERTIES
  ImplementsKeyRotation
CHECK_DEADLOCK FALSE
