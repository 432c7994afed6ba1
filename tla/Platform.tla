------------------------------ MODULE Platform ------------------------------
(***************************************************************************)
(* The processes of the repository, their buses, and what they subscribe   *)
(* and publish, one event of each sort.                                    *)
(***************************************************************************)
EXTENDS TLC

NoHandler == <<>>

\* Each binary makes its own buses with NewMeshEventBus("global-mesh").
BusOwner ==
  "server.core" :> "server" @@ "server.edge" :> "server" @@
  "api.core" :> "api" @@ "api.edge" :> "api" @@
  "builder.core" :> "builder" @@ "deployer.core" :> "deployer" @@
  "provider.core" :> "provider" @@
  "scaler.core" :> "scaler" @@ "metrics.core" :> "metrics"

EdgeBuses == {"server.edge", "api.edge"}

ServerSubs ==
  "build"     :> <<"server.core", "deployment.created">> @@
  "deploy"    :> <<"server.core", "build.completed">> @@
  "provision" :> <<"server.core", "database.provision">>

BuilderSubs  == "builder's"  :> <<"builder.core", "deployment.created">>
DeployerSubs == "deployer's" :> <<"deployer.core", "build.completed">>
ProviderSubs == "provider's" :> <<"provider.core", "database.provision">>
ScalerSubs   == "scaler's"   :> <<"scaler.core", "metrics.collected">>

SubTable == ServerSubs @@ BuilderSubs @@ DeployerSubs @@ ProviderSubs @@ ScalerSubs

\* Nobody subscribes to these.
DeployPubs ==
  "deploying" :> <<"server.core", "deployment.started">> @@
  "domain"    :> <<"server.core", "domain.assigned">> @@
  "running"   :> <<"server.core", "deployment.running">>

ServerPubs ==
  "deployment" :> <<"server.core", "deployment.created">> @@
  "started"    :> <<"server.core", "build.started">> @@
  "image"      :> <<"server.core", "build.completed">> @@
  "database"   :> <<"server.core", "database.provision">> @@
  "edge"       :> <<"server.edge", "deployment.created">>

ApiPubs ==
  "api.deployment" :> <<"api.core", "deployment.created">> @@
  "api.edge"       :> <<"api.edge", "deployment.created">>

MetricsPubs == "load" :> <<"metrics.core", "metrics.collected">>

PubTable == ServerPubs @@ DeployPubs @@ ApiPubs @@ MetricsPubs

\* The build handler publishes its start and its image, the deploy handler its
\* start, its domain and its end; the other events come from requests and from
\* the loop of the metrics worker.
Publisher == [p \in DOMAIN PubTable |->
                IF p \in {"started", "image"} THEN <<"deployment", "build">>
                ELSE IF p \in DOMAIN DeployPubs THEN <<"image", "deploy">>
                ELSE NoHandler]

\* These workers wait for an interrupt and unsubscribe; the autoscaler
\* blocks for ever and the server never unsubscribes.
Interrupted == {"builder", "deployer", "provider"}

\* In no process but the server does anybody hear what is published, there or
\* elsewhere: the handlers of the worker binaries are never called.
ASSUME WorkersHearNothing ==
  \A p \in DOMAIN PubTable, s \in DOMAIN SubTable :
    PubTable[p] = SubTable[s] => BusOwner[SubTable[s][1]] = "server"

\* The part of the platform in the processes P.
Within(table, P) == [x \in {y \in DOMAIN table : BusOwner[table[y][1]] \in P} |-> table[x]]
=============================================================================
