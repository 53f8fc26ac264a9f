SPECIFICATION Spec
CONSTANTS
  o1 = o1
  o2 = o2
  Objects <- Two
  NMembers = 2
  Forms <- Both
  MaxGroups = 2
  MaxUpdates = 2
INVARIANTS
  TypeOK
  SavedBeforeJoined
  MembersCanJoin
PROPERTIES
  RotationsStayOnBranch
SYMMETRY Symmetry
CHECK_DEADLOCK FALSE
