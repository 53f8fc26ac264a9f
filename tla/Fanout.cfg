SPECIFICATION FairSpec
CONSTANTS
  NFiles = 5
  MaxConcUpdates = 2
INVARIANTS
  TypeOK
  FirstFileAlone
  PanicNeedsTwoUpdates
PROPERTIES
  RoundEnds
  SeveralFilesEndTheProcess
CHECK_DEADLOCK FALSE
