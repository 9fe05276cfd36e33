SPECIFICATION Spec
CONSTANTS
  MaxKey = 4
  Capacity = 4
CHECK_DEADLOCK FALSE
INVARIANTS
  TypeOK
  NeverFull
PROPERTIES
  ImplementsMapping
