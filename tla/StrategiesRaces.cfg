SPECIFICATION Spec
CONSTANTS
  o1 = o1
  o2 = o2
  Objects <- One
  Strategies <- All
  Allowed <- Everything
  MaxEpoch = 3
  MaxCommands = 2
INVARIANTS
  TypeOK
  UploadsSurvive
  KeywrapReadersUndisturbed
PROPERTIES
  GenerationGuardsKey
CHECK_DEADLOCK FALSE
