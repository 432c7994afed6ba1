SPECIFICATION FairSpec
CONSTANTS
  Deps = {d1, d2}
  CoreProject = core
  EdgeProject = edge
  Projects = {core, edge}
  Ports = {q1, q2}
  NoPort = NoPort
  NoDep = NoDep
  Faults = {"stop"}
INVARIANTS
  GatewayServesProject
  UrlLeadsHome
  PolledServesProject
  StuckHasNoContainer
  ImageOfOwnProject
PROPERTIES
  QueuedIsDecided
