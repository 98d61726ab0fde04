CONSTANTS
  Item = {a, b, c}
  NULL = NULL
  Pointers = {p, q}
  InitialCapacity = 1
  MaxSize = 5
SPECIFICATION Spec
INVARIANT ArrayFits
PROPERTY IsSequence
CHECK_DEADLOCK FALSE
