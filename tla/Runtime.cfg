CONSTANTS
  Addr = {b1, b2, b3, b4, b5, b6, b7}
  NULL = NULL
  Sizes = {0, 2}
  JContext = 1
SPECIFICATION Spec
INVARIANTS TypeOK RegistryExact MemoryAccounted TwiceDeserved LeakExact NodesReturned
PROPERTY WalksEnd
CHECK_DEADLOCK FALSE
