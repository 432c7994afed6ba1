SPECIFICATION FairSpec
CONSTANTS
  build = build
  metrics = metrics
  d1 = d1
  All = All
  Writers = {build, metrics}
  Says <- MCSays
  Streams = {s1}
  Topics = {d1, All}
  Types = {"build", "metrics"}
  AnyType = "any"
  Cap = 2
  Limit = 2
  MaxLines = 3
  Lossy = TRUE
INVARIANTS TypeOK NoSendOnClosed WriterOrder LiveOnce QueryCoversHistory
PROPERTY Streamed
CHECK_DEADLOCK FALSE
