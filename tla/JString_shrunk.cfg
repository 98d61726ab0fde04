CONSTANTS
  Char = {a, b}
  Pointers = {p, q}
  Inline = 3
  LengthLimit = 6
  MaxText = 3
  MaxWord = 2
SPECIFICATION Spec
INVARIANT RightMember
CHECK_DEADLOCK FALSE
