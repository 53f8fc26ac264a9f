SPECIFICATION FairSpec
CONSTANTS
  o1 = o1
  o2 = o2
  Objects <- One
  Allowed <- Downloads
  MaxReencryptions = 4
  MaxEpoch = 6
  MaxCommands = 0
INVARIANTS
  RoundRotatesAll
PROPERTIES
  EveryUpdateTakesEffect
CHECK_DEADLOCK FALSE
