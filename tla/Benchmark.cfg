SPECIFICATION FairSpec
CONSTANTS
  s1 = s1
  s2 = s2
  Sizes <- Two
  NFiles = 2
  MaxRetries = 3
  MaxRuns = 2
INVARIANTS
  UploadedWhole
  OwnLogs
PROPERTIES
  RunsEnd
CHECK_DEADLOCK FALSE
