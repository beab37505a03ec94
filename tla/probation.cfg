SPECIFICATION Spec
CONSTANTS
  Byte = {0, 1, 7}
  Magic = 7
  ReadMax = 3
  GarbageCeiling = 3
  IdleTimeout = 2
  MaxStream = 8
INVARIANTS ProbationTypeOK ProvisionalIsBounded CleanStreamIntact
PROPERTIES ProbationEnds
\* a closed connection does nothing more
CHECK_DEADLOCK FALSE
