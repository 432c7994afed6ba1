SPECIFICATION Spec
CONSTANTS
  Deps = {d1}
  CoreProject = core
  EdgeProject = edge
  Projects = {core, edge}
  Ports = {q1}
  NoPort = NoPort
  NoDep = NoDep
  Faults = {"delete"}
INVARIANTS
  DeletedIsStopped
