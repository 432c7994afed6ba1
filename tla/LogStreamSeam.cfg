SPECIFICATION Spec
CONSTANTS
  build = build
  metrics = metrics
  d1 = d1
  All = All
  Writers = {build, metrics}
  Says <- MCSays
  Streams = {s1}
  Topics = {d1, All}
  Types = {"build", "metrics"}
  AnyType = "any"
  Cap = 4
  Limit = 2
  MaxLines = 2
  Lossy = FALSE
INVARIANT NothingMissed
CHECK_DEADLOCK FALSE
