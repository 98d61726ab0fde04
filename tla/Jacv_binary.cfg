CONSTANTS
  Sources <- BinarySources
  WordBits = 8
  IntBits = 4
SPECIFICATION Spec
INVARIANT BinaryMeans
CHECK_DEADLOCK FALSE
