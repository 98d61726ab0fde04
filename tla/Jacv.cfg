CONSTANTS
  Sources <- AnySources
  WordBits = 8
  IntBits = 4
SPECIFICATION Spec
INVARIANTS TypeOK Covered MaximalMunch StringsClosed NumbersMean HandOver ErrorLeak ExitClean
PROPERTY Termination
CHECK_DEADLOCK FALSE
