\* The calls are used up in the end, and nobody need call an election.
SPECIFICATION Spec
CONSTANTS
  Nodes = {n1, n2}
  NoNode = NoNode
  Calls = {c1, c2}
  Deployments = {d1}
  Images = {i1, i2}
  Counts = {k1, k2}
  None = None
SYMMETRY Symmetry
INVARIANTS TypeOK StateIsReplay
PROPERTIES TableSpec
CHECK_DEADLOCK FALSE
