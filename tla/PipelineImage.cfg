SPECIFICATION Spec
CONSTANTS
  Deps = {d1, d2}
  CoreProject = core
  EdgeProject = edge
  Projects = {core, edge}
  Ports = {q1}
  NoPort = NoPort
  NoDep = NoDep
  Faults = {}
INVARIANTS
  RunsOwnBuild
