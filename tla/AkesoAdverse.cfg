SPECIFICATION Spec
CONSTANTS
  o1 = o1
  o2 = o2
  Objects <- One
  Allowed <- KeepsClear
  MaxReencryptions = 3
  MaxEpoch = 2
  MaxCommands = 2
INVARIANTS
  TypeOK
  NoTornRead
PROPERTIES
  ReencryptionKeepsContent
  AkesoUpdateNeverRollsBack
CHECK_DEADLOCK FALSE
