SPECIFICATION FairSpec
CONSTANTS
  Capacity = 2
  MaxLines = 3
CHECK_DEADLOCK FALSE
INVARIANTS
  TypeOK
  OutputAccounted
PROPERTIES
  BuildReturns
