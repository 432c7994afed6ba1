\* The handler returns in the end, and a server that panicked does nothing.
SPECIFICATION FairSpec
CONSTANTS
  Streams = {"stdout", "stderr"}
  Cap = 1
  MaxOut <- Output3And1
  MaxKeys = 2
INVARIANTS TypeOK OutputKept
PROPERTIES LeavingEnds ExitEnds
CHECK_DEADLOCK FALSE
