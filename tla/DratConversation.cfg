SPECIFICATION FairSpec
CONSTANTS
  Allowed <- Everything
  MaxLines = 4
INVARIANTS
  TypeOK
  MessageKeysFresh
  TurnsKeepInSync
  GapsOnlyAtTurnEnds
  CrossingNeverUnnoticed
PROPERTIES
  EverythingPrinted
CHECK_DEADLOCK FALSE
