CONSTANTS
  Char = {a, b}
  Pointers = {p, q}
  Inline = 3
  LengthLimit = 6
  MaxText = 7
  MaxWord = 2
SPECIFICATION Spec
INVARIANT BlockFits
PROPERTY IsText
CHECK_DEADLOCK FALSE
