----------------------------- MODULE MCEventBus -----------------------------
(* The server and two processes beside it: one that publishes what the      *)
(* server subscribes to, and one that subscribes to what it publishes.      *)
EXTENDS EventBus, Platform

Running == {"server", "api", "builder"}

MCBuses == {b \in DOMAIN BusOwner : BusOwner[b] \in Running}
MCOwner == [b \in MCBuses |-> BusOwner[b]]
MCEdge  == EdgeBuses \cap MCBuses
SubsOf  == Within(SubTable, Running)
PubsOf  == Within(PubTable, Running)
MCSubs  == DOMAIN SubsOf
MCPubs  == DOMAIN PubsOf
MCBus   == [x \in MCSubs \cup MCPubs |-> (SubsOf @@ PubsOf)[x][1]]
MCTopic == [x \in MCSubs \cup MCPubs |-> (SubsOf @@ PubsOf)[x][2]]
MCCause == [p \in MCPubs |-> Publisher[p]]
MCLeavers == Interrupted \cap Running
=============================================================================
