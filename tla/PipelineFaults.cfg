SPECIFICATION Spec
CONSTANTS
  Deps = {d1}
  CoreProject = core
  EdgeProject = edge
  Projects = {core, edge}
  Ports = {q1, q2}
  NoPort = NoPort
  NoDep = NoDep
  Faults = {"delete", "rollback", "exit", "stop", "docker", "busy"}
INVARIANTS
  TypeOK
  StatusMatchesStage
  RunningHasContainer
  MapAgreesWithRow
PROPERTIES
  LifecycleSpec
