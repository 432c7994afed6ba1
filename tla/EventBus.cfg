SPECIFICATION FairSpec
CONSTANTS
  Procs <- Running
  Buses <- MCBuses
  Edge <- MCEdge
  Owner <- MCOwner
  Subs <- MCSubs
  Pubs <- MCPubs
  Bus <- MCBus
  Topic <- MCTopic
  Cause <- MCCause
  Leavers <- MCLeavers
  None <- NoHandler
CHECK_DEADLOCK FALSE
INVARIANTS
  TypeOK
PROPERTIES
  DeliverySpec
  Delivered
