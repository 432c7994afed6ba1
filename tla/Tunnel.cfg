\* Every call ends; no call need ever be made.
SPECIFICATION FairSpec
CONSTANTS
  Calls = {c1, c2, c3}
  Parts = 2
INVARIANTS ScannerNeverBlocks UrlLostOnlyToTimeout BinaryIsWhole
PROPERTY AnswersInTime
CHECK_DEADLOCK FALSE
