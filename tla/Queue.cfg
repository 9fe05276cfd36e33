SPECIFICATION Spec
CONSTANTS
  Item = {a, b}
  Capacity = 3
  Unset = Unset
INVARIANTS
  TypeOK
PROPERTIES
  ImplementsDeque
