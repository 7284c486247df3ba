CONSTANTS
  SignedMax = 15
  Offsets <- AllOffsets
  Ahead = 4
SPECIFICATION Spec
INVARIANTS
  TypeOK
  NeverOverflows
  
  LatestIsRestorable
CHECK_DEADLOCK FALSE
