-------------------------- MODULE Pipeline_proofs --------------------------
(***************************************************************************)
(* Proofs about Pipeline, for any sets of deployments, projects and ports  *)
(* and any set of faults.                                                  *)
(*                                                                         *)
(* Most invariants of Pipeline are not inductive as they stand.  IInv      *)
(* below adds what they rest on: where in the chain a deployment can have  *)
(* a container, that the shared image tag of a project always names a      *)
(* build of that project, and that the handler which has just written      *)
(* running still holds the URL it wrote.                                   *)
(***************************************************************************)
EXTENDS Pipeline, TLAPS

\* Only the deploy handler of d creates its container.
ContainerNeedsDeploy ==
  \A d \in Deps : container[d].state # "none" =>
    stage[d] \in {"started", "ported", "routed", "recorded", "returned", "lost"}

\* The image tag of a project and the image of a container were built by a
\* deployment of the project, and a deploy handler finds the tag of its project
\* present: the build that started it set it.
ImageKnown ==
  /\ \A p \in Projects : image[p] # NoDep =>
       proj[image[p]] = p /\ stage[image[p]] \notin Unborn
  /\ \A d \in Deps :
       stage[d] \in {"built", "completed", "starting"} => image[proj[d]] # NoDep
  /\ \A d \in Deps : container[d].state # "none" =>
       /\ container[d].image \in Deps
       /\ proj[container[d].image] = proj[d]
       /\ stage[container[d].image] \notin Unborn

\* A deploy handler past docker run has its container unless a DELETE came
\* between.
StartedHasContainer ==
  \A d \in Deps :
    del[d] = "idle" /\ status[d] # "absent"
      /\ stage[d] \in {"started", "ported", "routed", "recorded"}
    => container[d].state # "none"

\* Between its two writes the deploy handler still holds the URL of the row.
RecordedURL ==
  \A d \in Deps : stage[d] = "recorded" /\ status[d] = "running" => url[d] = addr[d]

IInv ==
  /\ TypeOK
  /\ StatusMatchesStage
  /\ ContainerNeedsDeploy
  /\ FailedNeverRan
  /\ ImageKnown
  /\ StartedHasContainer
  /\ RunningHasContainer
  /\ RecordedURL
  /\ MapAgreesWithRow

-----------------------------------------------------------------------------
\* Type correctness

\* The empty URL and the empty container are of the types of the others.
LEMMA Emptys == NoURL \in URLs /\ NoContainer \in Containers
  BY DEF NoURL, URLs, NoContainer, Containers

\* No step of a handler, a worker or the environment leaves the types.
LEMMA TypeStep ==
  ASSUME TypeOK, [Next]_vars
  PROVE  TypeOK'
<1> USE DEF TypeOK, server, db, maps, chain, At, Goto, Statuses, Stages, Unborn, Building,
            Deploying, InFlight
<1>1. CASE UNCHANGED vars
  BY <1>1 DEF vars
<1>2. ASSUME NEW d \in Deps, NEW p \in Projects, EnsureProject(d, p) PROVE TypeOK'
  BY <1>2 DEF EnsureProject, Ensure, InsertProject
<1>3. ASSUME NEW d \in Deps, NEW p \in Projects, TriggerEdge(d, p) PROVE TypeOK'
  BY <1>3 DEF TriggerEdge, Ensure, InsertProject, FindEdgeProject
<1>4. ASSUME NEW d \in Deps, NEW p \in Projects, Webhook(d, p) PROVE TypeOK'
  BY <1>4 DEF Webhook
<1>5. ASSUME NEW d \in Deps, CloneFails(d) PROVE TypeOK'
  BY <1>5 DEF CloneFails
<1>6. ASSUME NEW d \in Deps, StoreClone(d) PROVE TypeOK'
  BY <1>6 DEF StoreClone, Put
<1>7. ASSUME NEW d \in Deps, CreateRow(d) PROVE TypeOK'
  BY <1>7 DEF CreateRow, InsertDeployment
<1>8. ASSUME NEW d \in Deps, RejectTrigger(d) PROVE TypeOK'
  BY <1>8 DEF RejectTrigger
<1>9. ASSUME NEW d \in Deps, PublishCreated(d) PROVE TypeOK'
  BY <1>9 DEF PublishCreated
<1>10. ASSUME NEW d \in Deps, StartBuild(d) PROVE TypeOK'
  BY <1>10 DEF StartBuild, SetStatus
<1>11. ASSUME NEW d \in Deps, FetchSource(d) PROVE TypeOK'
  BY <1>11 DEF FetchSource
<1>12. ASSUME NEW d \in Deps, BuildFails(d) PROVE TypeOK'
  BY <1>12 DEF BuildFails, SetStatus
<1>13. ASSUME NEW d \in Deps, CreateZipFails(d) PROVE TypeOK'
  BY <1>13 DEF CreateZipFails
<1>14. ASSUME NEW d \in Deps, Unpack(d) PROVE TypeOK'
  BY <1>14 DEF Unpack
<1>15. ASSUME NEW d \in Deps, BuildImage(d) PROVE TypeOK'
  BY <1>15 DEF BuildImage, Tag
<1>16. ASSUME NEW d \in Deps, PublishCompleted(d) PROVE TypeOK'
  BY <1>16 DEF PublishCompleted
<1>17. ASSUME NEW d \in Deps, StartDeploy(d) PROVE TypeOK'
  BY <1>17 DEF StartDeploy, SetStatus
<1>18. ASSUME NEW d \in Deps, RunContainer(d) PROVE TypeOK'
  <2>1. container' \in [Deps -> Containers]
    BY <1>18, PipelineAssumption DEF RunContainer, FreePorts, Containers
  <2> QED BY <1>18, <2>1 DEF RunContainer
<1>19. ASSUME NEW d \in Deps, RunFails(d) PROVE TypeOK'
  <2>1. container' \in [Deps -> Containers]
    <3>1. CASE container' = container
      BY <3>1
    <3>2. ASSUME NEW q \in Ports \cup {NoPort},
                 container' = [container EXCEPT
                   ![d] = [state |-> "exited", image |-> image[proj[d]], port |-> q]]
          PROVE  container' \in [Deps -> Containers]
      BY <3>2 DEF Containers
    <3> QED BY <1>19, <3>1, <3>2 DEF RunFails
  <2> QED BY <1>19, <2>1 DEF RunFails
<1>20. ASSUME NEW d \in Deps, ReadPort(d) PROVE TypeOK'
  <2>1. addr' \in [Deps -> URLs]
    BY <1>20 DEF ReadPort, URLs, Containers
  <2> QED BY <1>20, <2>1 DEF ReadPort
<1>21. ASSUME NEW d \in Deps, OpenTunnel(d) PROVE TypeOK'
  <2>1. [addr[d] EXCEPT !.kind = "tunnel"] \in URLs
    BY DEF URLs
  <2>2. [addr[d] EXCEPT !.kind = "tunnel"].port \in Ports \cup {NoPort}
    BY <2>1 DEF URLs
  <2> QED BY <1>21, <2>1, <2>2 DEF OpenTunnel
<1>22. ASSUME NEW d \in Deps, TunnelFails(d) PROVE TypeOK'
  <2>1. addr' \in [Deps -> URLs]
    BY <1>22 DEF TunnelFails, URLs
  <2> QED BY <1>22, <2>1 DEF TunnelFails
<1>23. ASSUME NEW d \in Deps, RecordRunning(d) PROVE TypeOK'
  BY <1>23 DEF RecordRunning
<1>24. ASSUME NEW d \in Deps, RefreshMap(d) PROVE TypeOK'
  BY <1>24, Emptys DEF RefreshMap
<1>25. ASSUME NEW d \in Deps, RemoveContainer(d) PROVE TypeOK'
  BY <1>25, Emptys DEF RemoveContainer
<1>26. ASSUME NEW d \in Deps, DeleteRow(d) PROVE TypeOK'
  BY <1>26, Emptys DEF DeleteRow
<1>27. ASSUME NEW d \in Deps, DeleteFromMaps(d) PROVE TypeOK'
  BY <1>27, Emptys DEF DeleteFromMaps, DeleteOutcome
<1>28. ASSUME NEW d \in Deps, Rollback(d) PROVE TypeOK'
  <2>1. PICK q \in RestartPorts(d) :
               container' = [container EXCEPT ![d] = [@ EXCEPT !.state = "up", !.port = q]]
    BY <1>28 DEF Rollback
  <2>2. q \in Ports \cup {NoPort}
    BY DEF RestartPorts, FreePorts, Containers
  <2>3. [container[d] EXCEPT !.state = "up", !.port = q] \in Containers
    <3>1. container[d] \in Containers
      OBVIOUS
    <3> HIDE DEF TypeOK
    <3>2. QED BY <3>1, <2>2 DEF Containers
  <2> QED BY <1>28, <2>1, <2>3 DEF Rollback
<1>29. ASSUME NEW d \in Deps, ContainerExits(d) PROVE TypeOK'
  <2>1. container' \in [Deps -> Containers]
    BY <1>29 DEF ContainerExits, Containers
  <2> QED BY <1>29, <2>1 DEF ContainerExits
<1>30. ASSUME NEW p \in Projects, Upload(p) PROVE TypeOK'
  BY <1>30 DEF Upload, Put
<1>31. CASE Stop
  BY <1>31, Emptys DEF Stop, DeleteOutcome
<1>32. CASE Start
  BY <1>32, Emptys, PipelineAssumption DEF Start, SeedProject, Ensure, InsertProject, Restorable
<1> HIDE DEF TypeOK, server, db, maps, chain, At, Goto
<1> QED
  BY <1>1, <1>2, <1>3, <1>4, <1>5, <1>6, <1>7, <1>8, <1>9, <1>10, <1>11, <1>12, <1>13, <1>14, <1>15, <1>16,
     <1>17, <1>18, <1>19, <1>20, <1>21, <1>22, <1>23, <1>24, <1>25, <1>26, <1>27, <1>28, <1>29, <1>30, <1>31, <1>32
     DEF Next, Request, Work, Trigger, Build, Deploy, Remove

-----------------------------------------------------------------------------
\* The steps that touch many deployments at once, or keep a container's image

\* A stop of the server ends every goroutine and empties the maps; it touches
\* neither rows nor images nor containers.
LEMMA StopEffect ==
  ASSUME Stop, NEW e \in Deps
  PROVE  /\ ~up'
         /\ UNCHANGED <<status, url, image, container, proj>>
         /\ stage'[e] = IF stage[e] \in {"cloning", "verifying"} THEN "rejected"
                        ELSE IF stage[e] \in InFlight THEN "lost"
                        ELSE stage[e]
         /\ del'[e] = "idle" => del[e] = "idle" \/ status[e] = "absent"
<1>1. ~up' /\ UNCHANGED <<status, url, image, container, proj>>
  BY DEF Stop, db
<1>2. stage'[e] = CASE stage[e] \in {"cloning", "verifying"} -> "rejected"
                    [] stage[e] \in InFlight                 -> "lost"
                    [] OTHER                                 -> stage[e]
  BY DEF Stop
<1>3. {"cloning", "verifying"} \cap InFlight = {}
  BY DEF InFlight, Building, Deploying
<1>4. stage'[e] = IF stage[e] \in {"cloning", "verifying"} THEN "rejected"
                  ELSE IF stage[e] \in InFlight THEN "lost"
                  ELSE stage[e]
  BY <1>2, <1>3
<1>5. del'[e] = "idle" => del[e] = "idle" \/ status[e] = "absent"
  BY DEF Stop, DeleteOutcome
<1> QED BY <1>1, <1>4, <1>5

\* docker restart and the end of a container keep its existence and its image.
LEMMA RestartEffect ==
  ASSUME TypeOK, NEW d \in Deps, NEW e \in Deps, Rollback(d) \/ ContainerExits(d)
  PROVE  /\ UNCHANGED <<up, unread, status, url, image, publicURLs, stage, proj, addr, del>>
         /\ container'[e].state = "none" <=> container[e].state = "none"
         /\ container'[e].image = container[e].image
<1> USE DEF server, db, maps, chain
<1>1. container \in [Deps -> Containers] /\ container[d] \in Containers
  BY DEF TypeOK
<1>2. CASE Rollback(d)
  <2>1. PICK q \in RestartPorts(d) :
               container' = [container EXCEPT ![d] = [@ EXCEPT !.state = "up", !.port = q]]
    BY <1>2 DEF Rollback
  <2> DEFINE c == [container[d] EXCEPT !.state = "up", !.port = q]
  <2>2. c.state = "up" /\ c.image = container[d].image
    BY <1>1 DEF Containers
  <2>3. container' = [container EXCEPT ![d] = c]
    BY <2>1
  <2> HIDE DEF c
  <2> QED BY <1>1, <1>2, <2>2, <2>3 DEF Rollback
<1>3. CASE ContainerExits(d)
  <2>1. container' = [container EXCEPT ![d] = [@ EXCEPT !.state = "exited"]]
    BY <1>3 DEF ContainerExits
  <2> DEFINE c == [container[d] EXCEPT !.state = "exited"]
  <2>2. c.state = "exited" /\ c.image = container[d].image
    BY <1>1 DEF Containers
  <2>3. container' = [container EXCEPT ![d] = c]
    BY <2>1
  <2> HIDE DEF c
  <2> QED BY <1>1, <1>3, <2>2, <2>3 DEF ContainerExits, IsUp
<1> QED BY <1>2, <1>3

-----------------------------------------------------------------------------
\* The status of a row and the stage of its handler

\* Every write of the status column keeps it within what the handler's place
\* in the chain allows.
LEMMA StatusStep ==
  TypeOK /\ StatusMatchesStage /\ [Next]_vars => StatusMatchesStage'
<1> SUFFICES ASSUME TypeOK, StatusMatchesStage, [Next]_vars,
                    NEW e \in Deps
             PROVE  status'[e] \in ShownAt(stage'[e])
  BY DEF StatusMatchesStage
<1> DEFINE Goal == status'[e] \in ShownAt(stage'[e])
<1>0. /\ status[e] \in ShownAt(stage[e])
      /\ stage \in [Deps -> Stages] /\ status \in [Deps -> Statuses \cup {"absent"}]
  BY DEF StatusMatchesStage, TypeOK
<1> USE <1>0 DEF ShownAt, server, db, maps, chain, At, Goto, SetStatus, Unborn, Building, Deploying
<1>1. CASE UNCHANGED vars
  BY <1>1 DEF vars
<1>2. ASSUME NEW d \in Deps, Request(d) PROVE Goal
  BY <1>2 DEF Request, EnsureProject, TriggerEdge, Webhook
<1>3. ASSUME NEW d \in Deps, Trigger(d) PROVE Goal
  BY <1>3 DEF Trigger, CloneFails, StoreClone, CreateRow, InsertDeployment, RejectTrigger,
         PublishCreated
<1>4. ASSUME NEW d \in Deps, Build(d) PROVE Goal
  BY <1>4 DEF Build, StartBuild, FetchSource, BuildFails, CreateZipFails, Unpack,
              BuildImage, PublishCompleted
<1>5. ASSUME NEW d \in Deps, Deploy(d) PROVE Goal
  BY <1>5 DEF Deploy, StartDeploy, RunContainer, RunFails, ReadPort, OpenTunnel,
              TunnelFails, RecordRunning, RefreshMap
<1>6. ASSUME NEW d \in Deps, RemoveContainer(d) \/ Remove(d) PROVE Goal
  BY <1>6 DEF RemoveContainer, Remove, DeleteRow, DeleteFromMaps
<1>7. ASSUME NEW d \in Deps, Rollback(d) \/ ContainerExits(d) PROVE Goal
  BY <1>7 DEF Rollback, ContainerExits
<1>8. ASSUME NEW p \in Projects, Upload(p) PROVE Goal
  BY <1>8 DEF Upload
<1>9. CASE Stop
  BY <1>9, StopEffect DEF InFlight
<1>10. CASE Start
  BY <1>10 DEF Start
<1> HIDE DEF ShownAt, server, db, maps, chain
<1> QED
  BY <1>1, <1>2, <1>3, <1>4, <1>5, <1>6, <1>7, <1>8, <1>9, <1>10 DEF Next, Work

\* What StatusMatchesStage says of one deployment, case by case.
LEMMA Shown ==
  ASSUME TypeOK, StatusMatchesStage, NEW e \in Deps
  PROVE  /\ stage[e] \in Unborn => status[e] = "absent"
         /\ stage[e] \in {"stored", "created"} => status[e] \in {"absent", "queued"}
         /\ stage[e] \in Building =>
              \/ status[e] \in {"absent", "building"}
              \/ status[e] = "queued" /\ "busy" \in Faults
         /\ stage[e] \in Deploying =>
              \/ status[e] \in {"absent", "deploying"}
              \/ status[e] \in {"queued", "building"} /\ "busy" \in Faults
         /\ status[e] = "failed"  => stage[e] = "returned"
         /\ status[e] = "running" => stage[e] \in {"recorded", "returned", "lost"}
<1>1. status[e] \in ShownAt(stage[e]) /\ stage[e] \in Stages
  BY DEF StatusMatchesStage, TypeOK
<1> USE DEF Unborn, Building, Deploying, ShownAt
<1>2. stage[e] \in Unborn => status[e] = "absent"
  BY <1>1
<1>3. stage[e] \in {"stored", "created"} => status[e] \in {"absent", "queued"}
  BY <1>1
<1>4. stage[e] \in Building =>
        \/ status[e] \in {"absent", "building"}
        \/ status[e] = "queued" /\ "busy" \in Faults
  BY <1>1
<1>5. stage[e] \in Deploying =>
        \/ status[e] \in {"absent", "deploying"}
        \/ status[e] \in {"queued", "building"} /\ "busy" \in Faults
  BY <1>1
<1>6. status[e] = "failed" => stage[e] = "returned"
  BY <1>1 DEF Stages, InFlight
<1>7. status[e] = "running" => stage[e] \in {"recorded", "returned", "lost"}
  BY <1>1 DEF Stages, InFlight
<1> HIDE DEF Unborn, Building, Deploying, ShownAt
<1> QED BY <1>2, <1>3, <1>4, <1>5, <1>6, <1>7

-----------------------------------------------------------------------------
\* Containers and images

\* Containers come from deploy handlers only, and a build that records failed
\* ends before any deploy handler starts.
LEMMA ContainerStep ==
  TypeOK /\ StatusMatchesStage /\ ContainerNeedsDeploy /\ FailedNeverRan /\ [Next]_vars
    => ContainerNeedsDeploy' /\ FailedNeverRan'
<1> SUFFICES ASSUME TypeOK, StatusMatchesStage, ContainerNeedsDeploy, FailedNeverRan,
                    [Next]_vars, NEW e \in Deps
             PROVE  /\ container'[e].state # "none" =>
                         stage'[e] \in {"started", "ported", "routed", "recorded",
                                        "returned", "lost"}
                    /\ status'[e] = "failed" => container'[e].state = "none"
  BY DEF ContainerNeedsDeploy, FailedNeverRan
<1> DEFINE Goal == /\ container'[e].state # "none" =>
                         stage'[e] \in {"started", "ported", "routed", "recorded",
                                        "returned", "lost"}
                   /\ status'[e] = "failed" => container'[e].state = "none"
<1>0. /\ container[e].state # "none" =>
           stage[e] \in {"started", "ported", "routed", "recorded", "returned", "lost"}
      /\ status[e] = "failed" => container[e].state = "none"
      /\ status[e] = "failed" => stage[e] = "returned"
      /\ stage \in [Deps -> Stages] /\ status \in [Deps -> Statuses \cup {"absent"}]
      /\ container \in [Deps -> Containers]
  BY DEF TypeOK, StatusMatchesStage, ShownAt, ContainerNeedsDeploy, FailedNeverRan,
         Unborn, Building, Deploying
<1> USE <1>0 DEF server, db, maps, chain, At, Goto, SetStatus, NoContainer
<1>1. CASE UNCHANGED vars
  BY <1>1 DEF vars
<1>2. ASSUME NEW d \in Deps, Request(d) PROVE Goal
  BY <1>2 DEF Request, EnsureProject, TriggerEdge, Webhook
<1>3. ASSUME NEW d \in Deps, Trigger(d) PROVE Goal
  BY <1>3 DEF Trigger, CloneFails, StoreClone, CreateRow, InsertDeployment, RejectTrigger,
         PublishCreated
<1>4. ASSUME NEW d \in Deps, Build(d) PROVE Goal
  BY <1>4 DEF Build, StartBuild, FetchSource, BuildFails, CreateZipFails, Unpack,
              BuildImage, PublishCompleted
<1>5. ASSUME NEW d \in Deps, Deploy(d) PROVE Goal
  <2>1. CASE RunContainer(d)
    BY <2>1 DEF RunContainer
  <2>2. CASE RunFails(d)
    BY <2>2 DEF RunFails
  <2>3. CASE StartDeploy(d) \/ ReadPort(d) \/ OpenTunnel(d) \/ TunnelFails(d)
    BY <2>3 DEF StartDeploy, ReadPort, OpenTunnel, TunnelFails
  <2>4. CASE RecordRunning(d) \/ RefreshMap(d)
    BY <2>4 DEF RecordRunning, RefreshMap
  <2> QED BY <1>5, <2>1, <2>2, <2>3, <2>4 DEF Deploy
<1>6. ASSUME NEW d \in Deps, RemoveContainer(d) \/ Remove(d) PROVE Goal
  BY <1>6 DEF RemoveContainer, Remove, DeleteRow, DeleteFromMaps
<1>7. ASSUME NEW d \in Deps, Rollback(d) \/ ContainerExits(d) PROVE Goal
  BY <1>7, RestartEffect
<1>8. ASSUME NEW p \in Projects, Upload(p) PROVE Goal
  BY <1>8 DEF Upload
<1>9. CASE Stop
  BY <1>9, StopEffect DEF InFlight, Deploying
<1>10. CASE Start
  BY <1>10 DEF Start
<1> HIDE DEF server, db, maps, chain
<1> QED
  BY <1>1, <1>2, <1>3, <1>4, <1>5, <1>6, <1>7, <1>8, <1>9, <1>10 DEF Next, Work

\* The tag of a project is only set by a build of that project, and a container
\* takes its image from the tag of its own project.
LEMMA ImageStep ==
  TypeOK /\ ContainerNeedsDeploy /\ ImageKnown /\ [Next]_vars => ImageKnown'
<1> SUFFICES ASSUME TypeOK, ContainerNeedsDeploy, ImageKnown, [Next]_vars
             PROVE  ImageKnown'
  OBVIOUS
<1> DEFINE Tagged == {"built", "completed", "starting"}
           KeepsId == \A d \in Deps : stage[d] \notin Unborn =>
                        proj'[d] = proj[d] /\ stage'[d] \notin Unborn
           KeepsContainer == \A d \in Deps :
                        \/ container'[d].state = "none"
                        \/ container[d].state # "none" /\ container'[d].image = container[d].image
           Quiet == /\ KeepsId /\ KeepsContainer
                    /\ image' = image
                    /\ \A d \in Deps : stage'[d] \in Tagged =>
                         stage[d] \in Tagged /\ proj'[d] = proj[d]
<1>a. /\ stage \in [Deps -> Stages] /\ proj \in [Deps -> Projects]
      /\ image \in [Projects -> Deps \cup {NoDep}]
      /\ container \in [Deps -> Containers]
      /\ NoDep \notin Deps
  BY PipelineAssumption DEF TypeOK
<1>b. Quiet => ImageKnown'
  BY <1>a DEF ImageKnown, ContainerNeedsDeploy, Unborn
<1> USE <1>a DEF server, db, maps, chain, At, Goto, Unborn, NoContainer
<1>1. CASE UNCHANGED vars
  <2>1. Quiet
    BY <1>1 DEF vars
  <2> QED BY <2>1, <1>b
<1>2. ASSUME NEW d \in Deps, Request(d) PROVE Quiet
  BY <1>2 DEF Request, EnsureProject, TriggerEdge, Webhook
<1>3. ASSUME NEW d \in Deps, Trigger(d) PROVE Quiet
  BY <1>3 DEF Trigger, CloneFails, StoreClone, CreateRow, InsertDeployment, RejectTrigger,
         PublishCreated
<1>4. ASSUME NEW d \in Deps, Build(d) PROVE ImageKnown'
  <2>1. CASE BuildImage(d)
    <3>1. /\ stage[d] = "nixpacks" /\ stage' = [stage EXCEPT ![d] = "built"]
          /\ image' = [image EXCEPT ![proj[d]] = d] /\ proj' = proj /\ container' = container
      BY <2>1 DEF BuildImage, Tag
    <3> QED BY <3>1 DEF ImageKnown, ContainerNeedsDeploy
  <2>2. CASE StartBuild(d) \/ FetchSource(d) \/ BuildFails(d)
    <3>1. Quiet
      BY <2>2 DEF StartBuild, FetchSource, BuildFails
    <3> QED BY <3>1, <1>b
  <2>3. CASE CreateZipFails(d) \/ Unpack(d) \/ PublishCompleted(d)
    <3>1. Quiet
      BY <2>3 DEF CreateZipFails, Unpack, PublishCompleted
    <3> QED BY <3>1, <1>b
  <2> QED BY <1>4, <2>1, <2>2, <2>3 DEF Build
<1>5. ASSUME NEW d \in Deps, Deploy(d) PROVE ImageKnown'
  <2>1. CASE RunContainer(d) \/ RunFails(d)
    <3>1. /\ stage[d] = "starting" /\ proj' = proj /\ image' = image
          /\ stage' = [stage EXCEPT ![d] = "started"] \/ stage' = [stage EXCEPT ![d] = "returned"]
      BY <2>1 DEF RunContainer, RunFails
    <3>2. \A e \in Deps : \/ container'[e] = container[e]
                          \/ e = d /\ container'[e].image = image[proj[d]]
      BY <2>1 DEF RunContainer, RunFails
    <3> QED BY <3>1, <3>2 DEF ImageKnown, ContainerNeedsDeploy
  <2>2. CASE StartDeploy(d) \/ ReadPort(d) \/ OpenTunnel(d) \/ TunnelFails(d)
    <3>1. Quiet
      BY <2>2 DEF StartDeploy, ReadPort, OpenTunnel, TunnelFails
    <3> QED BY <3>1, <1>b
  <2>3. CASE RecordRunning(d) \/ RefreshMap(d)
    <3>1. Quiet
      BY <2>3 DEF RecordRunning, RefreshMap
    <3> QED BY <3>1, <1>b
  <2> QED BY <1>5, <2>1, <2>2, <2>3 DEF Deploy
<1>6. ASSUME NEW d \in Deps, RemoveContainer(d) \/ Remove(d) PROVE Quiet
  BY <1>6 DEF RemoveContainer, Remove, DeleteRow, DeleteFromMaps
<1>7. ASSUME NEW d \in Deps, Rollback(d) \/ ContainerExits(d) PROVE ImageKnown'
  <2>1. /\ stage' = stage /\ proj' = proj /\ image' = image
        /\ \A e \in Deps : container'[e].state = "none" <=> container[e].state = "none"
        /\ \A e \in Deps : container'[e].image = container[e].image
    <3>1. stage' = stage /\ proj' = proj /\ image' = image
      BY <1>7 DEF Rollback, ContainerExits
    <3> QED BY <1>7, <3>1, RestartEffect
  <2>2. Quiet
    BY <2>1
  <2> QED BY <2>2, <1>b
<1>8. ASSUME NEW p \in Projects, Upload(p) PROVE Quiet
  BY <1>8 DEF Upload
<1>9. CASE Stop
  <2>1. /\ proj' = proj /\ image' = image /\ container' = container
        /\ \A e \in Deps : stage'[e] = IF stage[e] \in {"cloning", "verifying"} THEN "rejected"
                        ELSE IF stage[e] \in InFlight THEN "lost"
                        ELSE stage[e]
    <3>1. proj' = proj /\ image' = image /\ container' = container
      BY <1>9 DEF Stop
    <3> QED BY <1>9, <3>1, StopEffect
  <2>2. Quiet
    BY <2>1 DEF InFlight
  <2> QED BY <2>2, <1>b
<1>10. CASE Start
  <2>1. Quiet
    BY <1>10 DEF Start
  <2> QED BY <2>1, <1>b
<1> HIDE DEF Quiet, server, db, maps, chain
<1> QED
  BY <1>b, <1>1, <1>2, <1>3, <1>4, <1>5, <1>6, <1>7, <1>8, <1>9, <1>10 DEF Next, Work

\* running is written only by a handler whose docker run succeeded, and only
\* DELETE takes the container away.
LEMMA RunningStep ==
  ASSUME TypeOK, StatusMatchesStage, ContainerNeedsDeploy,
         StartedHasContainer, RunningHasContainer, [Next]_vars
  PROVE  StartedHasContainer' /\ RunningHasContainer'
<1> DEFINE Held(e) == /\ del[e] = "idle" /\ status[e] # "absent"
                           /\ stage[e] \in {"started", "ported", "routed", "recorded"}
                         => container[e].state # "none"
                      /\ status[e] = "running" /\ del[e] = "idle"
                         => container[e].state # "none"
           Goal(e) == Held(e)'
<1> SUFFICES ASSUME NEW e \in Deps PROVE Goal(e)
  BY DEF StartedHasContainer, RunningHasContainer
<1>0. /\ Held(e)
      /\ status[e] = "running" => stage[e] \in {"recorded", "returned", "lost"}
      /\ stage \in [Deps -> Stages] /\ status \in [Deps -> Statuses \cup {"absent"}]
      /\ container \in [Deps -> Containers]
      /\ del \in [Deps -> {"idle", "removed", "unrowed", "partial"}]
  <2>1. Held(e)
    BY DEF StartedHasContainer, RunningHasContainer
  <2> HIDE DEF Held
  <2> QED BY <2>1, Shown DEF TypeOK
<1> USE <1>0 DEF server, db, maps, chain, At, Goto, SetStatus
<1>1. CASE UNCHANGED vars
  BY <1>1 DEF vars
<1>2. ASSUME NEW d \in Deps, Request(d) PROVE Goal(e)
  BY <1>2 DEF Request, EnsureProject, TriggerEdge, Webhook
<1>3. ASSUME NEW d \in Deps, Trigger(d) PROVE Goal(e)
  BY <1>3 DEF Trigger, CloneFails, StoreClone, CreateRow, InsertDeployment, RejectTrigger,
         PublishCreated
<1>4. ASSUME NEW d \in Deps, Build(d) PROVE Goal(e)
  BY <1>4 DEF Build, StartBuild, FetchSource, BuildFails, CreateZipFails, Unpack,
              BuildImage, PublishCompleted
<1>5. ASSUME NEW d \in Deps, Deploy(d) PROVE Goal(e)
  <2>1. CASE RunContainer(d)
    BY <2>1 DEF RunContainer
  <2>2. CASE RunFails(d)
    BY <2>2 DEF RunFails
  <2>3. CASE StartDeploy(d) \/ ReadPort(d) \/ OpenTunnel(d) \/ TunnelFails(d)
    BY <2>3 DEF StartDeploy, ReadPort, OpenTunnel, TunnelFails
  <2>4. CASE RecordRunning(d) \/ RefreshMap(d)
    BY <2>4 DEF RecordRunning, RefreshMap
  <2> QED BY <1>5, <2>1, <2>2, <2>3, <2>4 DEF Deploy
<1>6. ASSUME NEW d \in Deps, RemoveContainer(d) \/ Remove(d) PROVE Goal(e)
  BY <1>6 DEF RemoveContainer, Remove, DeleteRow, DeleteFromMaps, DeleteOutcome
<1>7. ASSUME NEW d \in Deps, Rollback(d) \/ ContainerExits(d) PROVE Goal(e)
  BY <1>7, RestartEffect
<1>8. ASSUME NEW p \in Projects, Upload(p) PROVE Goal(e)
  BY <1>8 DEF Upload
<1>9. CASE Stop
  BY <1>9, StopEffect DEF InFlight, Deploying
<1>10. CASE Start
  BY <1>10 DEF Start
<1> HIDE DEF Goal, server, db, maps, chain
<1> QED
  BY <1>1, <1>2, <1>3, <1>4, <1>5, <1>6, <1>7, <1>8, <1>9, <1>10 DEF Next, Work

\* The deploy handler writes the same URL to the row and to the map, and a
\* restart rebuilds the map from the rows.
LEMMA MapStep ==
  ASSUME TypeOK, StatusMatchesStage, RecordedURL, MapAgreesWithRow, [Next]_vars
  PROVE  RecordedURL' /\ MapAgreesWithRow'
<1> DEFINE Agrees(e) == /\ stage[e] = "recorded" /\ status[e] = "running" => url[e] = addr[e]
                        /\ up /\ status[e] = "running" /\ url[e] # NoURL
                             /\ del[e] = "idle" /\ stage[e] # "recorded"
                           => \/ publicURLs[e] = url[e]
                              \/ e \in unread /\ publicURLs[e] = NoURL
           Goal(e) == Agrees(e)'
<1> SUFFICES ASSUME NEW e \in Deps PROVE Goal(e)
  BY DEF RecordedURL, MapAgreesWithRow
<1>0. /\ Agrees(e)
      /\ status[e] = "running" => stage[e] \in {"recorded", "returned", "lost"}
      /\ up \in BOOLEAN
      /\ stage \in [Deps -> Stages] /\ status \in [Deps -> Statuses \cup {"absent"}]
      /\ addr \in [Deps -> URLs] /\ url \in [Deps -> URLs] /\ publicURLs \in [Deps -> URLs]
      /\ del \in [Deps -> {"idle", "removed", "unrowed", "partial"}]
  <2>1. Agrees(e)
    BY DEF RecordedURL, MapAgreesWithRow
  <2> HIDE DEF Agrees
  <2> QED BY <2>1, Shown DEF TypeOK
<1> USE <1>0 DEF server, db, maps, chain, At, Goto, SetStatus
<1>1. CASE UNCHANGED vars
  BY <1>1 DEF vars
<1>2. ASSUME NEW d \in Deps, Request(d) PROVE Goal(e)
  BY <1>2 DEF Request, EnsureProject, TriggerEdge, Webhook
<1>3. ASSUME NEW d \in Deps, Trigger(d) PROVE Goal(e)
  BY <1>3 DEF Trigger, CloneFails, StoreClone, CreateRow, InsertDeployment, RejectTrigger,
         PublishCreated
<1>4. ASSUME NEW d \in Deps, Build(d) PROVE Goal(e)
  BY <1>4 DEF Build, StartBuild, FetchSource, BuildFails, CreateZipFails, Unpack,
              BuildImage, PublishCompleted
<1>5. ASSUME NEW d \in Deps, Deploy(d) PROVE Goal(e)
  <2>1. CASE RunContainer(d) \/ RunFails(d)
    BY <2>1 DEF RunContainer, RunFails
  <2>2. CASE StartDeploy(d) \/ ReadPort(d) \/ OpenTunnel(d) \/ TunnelFails(d)
    BY <2>2 DEF StartDeploy, ReadPort, OpenTunnel, TunnelFails
  <2>3. CASE RecordRunning(d) \/ RefreshMap(d)
    BY <2>3 DEF RecordRunning, RefreshMap
  <2> QED BY <1>5, <2>1, <2>2, <2>3 DEF Deploy
<1>6. ASSUME NEW d \in Deps, RemoveContainer(d) \/ Remove(d) PROVE Goal(e)
  BY <1>6 DEF RemoveContainer, Remove, DeleteRow, DeleteFromMaps, DeleteOutcome
<1>7. ASSUME NEW d \in Deps, Rollback(d) \/ ContainerExits(d) PROVE Goal(e)
  BY <1>7, RestartEffect
<1>8. ASSUME NEW p \in Projects, Upload(p) PROVE Goal(e)
  BY <1>8 DEF Upload
<1>9. CASE Stop
  BY <1>9, StopEffect DEF InFlight
<1>10. CASE Start
  BY <1>10 DEF Start, Restorable
<1> HIDE DEF Goal, server, db, maps, chain
<1> QED
  BY <1>1, <1>2, <1>3, <1>4, <1>5, <1>6, <1>7, <1>8, <1>9, <1>10 DEF Next, Work

-----------------------------------------------------------------------------
\* The inductive invariant and what follows from it

\* The empty platform satisfies the inductive invariant.
LEMMA InitIInv == Init => IInv
<1> SUFFICES ASSUME Init PROVE IInv
  OBVIOUS
<1> USE DEF Init
<1>1. TypeOK
  BY Emptys, PipelineAssumption DEF TypeOK, Stages, Unborn
<1>2. StatusMatchesStage
  BY DEF StatusMatchesStage, ShownAt
<1>3. ContainerNeedsDeploy /\ FailedNeverRan
  BY DEF ContainerNeedsDeploy, FailedNeverRan, NoContainer
<1>4. ImageKnown
  BY DEF ImageKnown, NoContainer
<1>5. StartedHasContainer /\ RunningHasContainer
  BY DEF StartedHasContainer, RunningHasContainer
<1>6. RecordedURL /\ MapAgreesWithRow
  BY DEF RecordedURL, MapAgreesWithRow
<1> QED BY <1>1, <1>2, <1>3, <1>4, <1>5, <1>6 DEF IInv

\* Every step preserves it.
LEMMA StepIInv ==
  ASSUME IInv, [Next]_vars
  PROVE  IInv'
<1>1. TypeOK' /\ StatusMatchesStage'
  BY TypeStep, StatusStep DEF IInv
<1>2. ContainerNeedsDeploy' /\ FailedNeverRan' /\ ImageKnown'
  BY ContainerStep, ImageStep DEF IInv
<1>3. StartedHasContainer' /\ RunningHasContainer'
  BY RunningStep DEF IInv
<1>4. RecordedURL' /\ MapAgreesWithRow'
  BY MapStep DEF IInv
<1> QED BY <1>1, <1>2, <1>3, <1>4 DEF IInv

\* The inductive invariant holds in every reachable state.
THEOREM Inductive == Spec => []IInv
<1>1. IInv /\ [Next]_vars => IInv'
  BY StepIInv
<1> QED BY <1>1, InitIInv, PTL DEF Spec

\* Every state of the pipeline is well typed: no handler writes a status, a
\* stage, a URL or a container of another kind.
THEOREM TypeCorrect == Spec => []TypeOK
<1>1. IInv => TypeOK
  BY DEF IInv
<1> QED BY <1>1, Inductive, PTL

\* The status column always agrees with where the handler of the deployment
\* really stands, whatever is deleted, stopped or lost in between.
THEOREM StatusCorrect == Spec => []StatusMatchesStage
<1>1. IInv => StatusMatchesStage
  BY DEF IInv
<1> QED BY <1>1, Inductive, PTL

\* A deployment reported failed has no container, not even one that exited.
THEOREM FailedCorrect == Spec => []FailedNeverRan
<1>1. IInv => FailedNeverRan
  BY DEF IInv
<1> QED BY <1>1, Inductive, PTL

\* A container runs an image built from its own project, although the tag is
\* shared by all deployments of the project and builds race for it.
THEOREM ImageCorrect == Spec => []ImageOfOwnProject
<1>1. IInv => ImageOfOwnProject
  BY DEF IInv, ImageKnown, ImageOfOwnProject
<1> QED BY <1>1, Inductive, PTL

\* A row that says running has its container, unless a deletion took it.
THEOREM RunningCorrect == Spec => []RunningHasContainer
<1>1. IInv => RunningHasContainer
  BY DEF IInv
<1> QED BY <1>1, Inductive, PTL

\* The in-memory URL of a running deployment is the one in its row, also after
\* a restart.
THEOREM MapCorrect == Spec => []MapAgreesWithRow
<1>1. IInv => MapAgreesWithRow
  BY DEF IInv
<1> QED BY <1>1, Inductive, PTL

-----------------------------------------------------------------------------
\* While nobody deletes a deployment

\* No DELETE handler runs, and no accepted deployment loses its row.
Kept ==
  \A d \in Deps : del[d] = "idle" /\ (stage[d] \notin Unborn => status[d] # "absent")

\* A row once inserted stays, whatever else fails, stops or restarts.
THEOREM RowsKept == ASSUME "delete" \notin Faults PROVE Spec => []Kept
<1>1. Init => Kept
  BY DEF Init, Kept, Unborn
<1>2. TypeOK /\ Kept /\ [Next]_vars => Kept'
  <2> SUFFICES ASSUME TypeOK, Kept, [Next]_vars, NEW e \in Deps
               PROVE  del'[e] = "idle" /\ (stage'[e] \notin Unborn => status'[e] # "absent")
    BY DEF Kept
  <2> DEFINE Goal == del'[e] = "idle" /\ (stage'[e] \notin Unborn => status'[e] # "absent")
  <2>0. /\ \A d \in Deps : del[d] = "idle"
        /\ stage[e] \notin Unborn => status[e] # "absent"
        /\ stage \in [Deps -> Stages] /\ status \in [Deps -> Statuses \cup {"absent"}]
    BY DEF TypeOK, Kept
  <2> USE <2>0 DEF server, db, maps, chain, At, Goto, SetStatus, Unborn
  <2>1. CASE UNCHANGED vars
    BY <2>1 DEF vars
  <2>2. ASSUME NEW d \in Deps, Request(d) PROVE Goal
    BY <2>2 DEF Request, EnsureProject, TriggerEdge, Webhook
  <2>3. ASSUME NEW d \in Deps, Trigger(d) PROVE Goal
    BY <2>3 DEF Trigger, CloneFails, StoreClone, CreateRow, InsertDeployment, RejectTrigger,
           PublishCreated
  <2>4. ASSUME NEW d \in Deps, Build(d) PROVE Goal
    BY <2>4 DEF Build, StartBuild, FetchSource, BuildFails, CreateZipFails, Unpack,
                BuildImage, PublishCompleted
  <2>5. ASSUME NEW d \in Deps, Deploy(d) PROVE Goal
    <3>1. CASE StartDeploy(d) \/ RunContainer(d) \/ RunFails(d) \/ ReadPort(d)
      BY <3>1 DEF StartDeploy, RunContainer, RunFails, ReadPort
    <3>2. CASE OpenTunnel(d) \/ TunnelFails(d) \/ RecordRunning(d) \/ RefreshMap(d)
      BY <3>2 DEF OpenTunnel, TunnelFails, RecordRunning, RefreshMap
    <3> QED BY <2>5, <3>1, <3>2 DEF Deploy
  <2>6. ASSUME NEW d \in Deps, RemoveContainer(d) \/ Remove(d) PROVE FALSE
    BY <2>6 DEF RemoveContainer, Remove, DeleteRow, DeleteFromMaps
  <2>7. ASSUME NEW d \in Deps, Rollback(d) \/ ContainerExits(d) PROVE Goal
    BY <2>7 DEF Rollback, ContainerExits
  <2>8. ASSUME NEW p \in Projects, Upload(p) PROVE Goal
    BY <2>8 DEF Upload
  <2>9. ASSUME Stop PROVE Goal
    <3>1. /\ del'[e] = "idle" /\ status' = status
          /\ stage'[e] \notin Unborn => stage[e] \notin Unborn
      BY <2>9, StopEffect DEF Stop, InFlight, Building, Deploying
    <3> QED BY <3>1
  <2>10. ASSUME Start PROVE Goal
    BY <2>10 DEF Start
  <2> HIDE <2>0 DEF Goal, server, db, maps, chain, At, Goto, SetStatus, Unborn
  <2>11. ASSUME Next PROVE Goal
    BY <2>2, <2>3, <2>4, <2>5, <2>6, <2>7, <2>8, <2>9, <2>10, <2>11 DEF Next, Work
  <2> QED BY <2>1, <2>11 DEF Goal
<1> QED BY <1>1, <1>2, TypeCorrect, PTL DEF Spec

\* The handler that has written its last row wrote running, if no write fails.
LEMMA RecordedIsRunning ==
  ASSUME "busy" \notin Faults, StatusMatchesStage, Kept, NEW e \in Deps, stage[e] = "recorded"
  PROVE  status[e] = "running"
<1>1. status[e] \in ShownAt(stage[e])
  BY DEF StatusMatchesStage
<1>2. status[e] # "absent"
  BY DEF Kept, Unborn
<1> QED BY <1>1, <1>2 DEF ShownAt, Unborn, Building, Deploying

\* A handler returns with a container that is up only from its last step, after
\* it wrote running.
LEMMA StuckStep ==
  ASSUME Faults \subseteq {"stop", "exit"}, IInv, Kept, StuckHasNoContainer, [Next]_vars
  PROVE  StuckHasNoContainer'
<1> SUFFICES ASSUME NEW e \in Deps,
                    stage'[e] = "returned", status'[e] # "running", container'[e].state = "up"
             PROVE  FALSE
  BY DEF StuckHasNoContainer, IsUp
<1>0. /\ "busy" \notin Faults /\ "rollback" \notin Faults /\ "delete" \notin Faults
      /\ \A d \in Deps : del[d] = "idle"
      /\ stage[e] = "recorded" => status[e] = "running"
      /\ stage[e] = "returned" => status[e] = "running" \/ container[e].state # "up"
      /\ container[e].state # "none" =>
           stage[e] \in {"started", "ported", "routed", "recorded", "returned", "lost"}
      /\ stage \in [Deps -> Stages] /\ status \in [Deps -> Statuses \cup {"absent"}]
      /\ container \in [Deps -> Containers]
  BY RecordedIsRunning DEF IInv, TypeOK, ContainerNeedsDeploy, StuckHasNoContainer, IsUp, Kept
<1> USE <1>0 DEF server, db, maps, chain, At, Goto, SetStatus
<1>1. CASE UNCHANGED vars
  BY <1>1 DEF vars
<1>2. ASSUME NEW d \in Deps, Request(d) PROVE FALSE
  BY <1>2 DEF Request, EnsureProject, TriggerEdge, Webhook
<1>3. ASSUME NEW d \in Deps, Trigger(d) PROVE FALSE
  BY <1>3 DEF Trigger, CloneFails, StoreClone, CreateRow, InsertDeployment, RejectTrigger,
         PublishCreated
<1>4. ASSUME NEW d \in Deps, Build(d) PROVE FALSE
  BY <1>4 DEF Build, StartBuild, FetchSource, BuildFails, CreateZipFails, Unpack,
              BuildImage, PublishCompleted
<1>5. ASSUME NEW d \in Deps, Deploy(d) PROVE FALSE
  <2>1. CASE RunContainer(d)
    BY <2>1 DEF RunContainer
  <2>2. CASE RunFails(d)
    BY <2>2 DEF RunFails
  <2>3. CASE StartDeploy(d) \/ ReadPort(d) \/ OpenTunnel(d) \/ TunnelFails(d)
    BY <2>3 DEF StartDeploy, ReadPort, OpenTunnel, TunnelFails
  <2>4. CASE RecordRunning(d) \/ RefreshMap(d)
    BY <2>4 DEF RecordRunning, RefreshMap
  <2> QED BY <1>5, <2>1, <2>2, <2>3, <2>4 DEF Deploy
<1>6. ASSUME NEW d \in Deps, RemoveContainer(d) \/ Remove(d) \/ Rollback(d) PROVE FALSE
  BY <1>6 DEF RemoveContainer, Remove, DeleteRow, DeleteFromMaps, Rollback
<1>7. ASSUME NEW d \in Deps, ContainerExits(d) PROVE FALSE
  BY <1>7 DEF ContainerExits
<1>8. ASSUME NEW p \in Projects, Upload(p) PROVE FALSE
  BY <1>8 DEF Upload
<1>9. CASE Stop
  BY <1>9, StopEffect
<1>10. CASE Start
  BY <1>10 DEF Start
<1> HIDE DEF server, db, maps, chain
<1> QED
  BY <1>1, <1>2, <1>3, <1>4, <1>5, <1>6, <1>7, <1>8, <1>9, <1>10 DEF Next, Work

\* A deployment left in building or deploying by a handler that returned has no
\* container that is up, also when the server stops and containers end.
THEOREM StuckCorrect ==
  ASSUME Faults \subseteq {"stop", "exit"} PROVE Spec => []StuckHasNoContainer
<1>1. Init => StuckHasNoContainer
  BY DEF Init, StuckHasNoContainer
<1>2. "delete" \notin Faults
  OBVIOUS
<1>3. IInv /\ Kept /\ StuckHasNoContainer /\ [Next]_vars => StuckHasNoContainer'
  BY StuckStep
<1> QED BY <1>1, <1>2, <1>3, Inductive, RowsKept, PTL DEF Spec

-----------------------------------------------------------------------------
\* While containers stay where they are: nobody deletes or rolls back, and no
\* container ends by itself.  The server may stop, and writes may fail.

\* A deploy handler past docker run has its container, and a port it holds is
\* that container's; a handler that tries a tunnel holds one.
HoldsOwnPort ==
  \A d \in Deps :
    /\ stage[d] \in {"started", "ported", "routed", "recorded"} => IsUp(d)
    /\ stage[d] \in {"ported", "routed", "recorded"} /\ addr[d] # NoURL
         => addr[d].port = container[d].port
    /\ stage[d] = "ported" => addr[d].port # NoPort

\* The URL in memory leads where the one in the row does.
MapLeadsHome ==
  \A d \in Deps : publicURLs[d] # NoURL => IsUp(d) /\ container[d].port = publicURLs[d].port

HomeInv == HoldsOwnPort /\ UrlLeadsHome /\ MapLeadsHome /\ GatewayServesProject

\* Only chains, requests, uploads, a stop and a start take steps.
LEMMA SettledNext ==
  ASSUME Faults \subseteq {"stop", "busy"}, Kept, Next
  PROVE  \/ \E p \in Projects : Upload(p)
         \/ \E d \in Deps : Request(d) \/ Work(d)
         \/ Stop \/ Start
BY DEF Kept, Next, RemoveContainer, Remove, DeleteRow, DeleteFromMaps, Rollback, ContainerExits

\* Nothing moves a container that is up, or the project of its deployment.
LEMMA UpStays ==
  ASSUME Faults \subseteq {"stop", "busy"}, IInv, Kept, [Next]_vars, NEW e \in Deps, IsUp(e)
  PROVE  container'[e] = container[e] /\ proj'[e] = proj[e]
<1> DEFINE Goal == container'[e] = container[e] /\ proj'[e] = proj[e]
<1>0. /\ container[e].state = "up"
      /\ stage[e] \in {"started", "ported", "routed", "recorded", "returned", "lost"}
      /\ container \in [Deps -> Containers] /\ proj \in [Deps -> Projects]
  BY DEF IInv, ContainerNeedsDeploy, TypeOK, IsUp
<1> USE <1>0 DEF chain, At
<1>1. CASE UNCHANGED vars
  BY <1>1 DEF vars
<1>2. ASSUME NEW p \in Projects, Upload(p) PROVE Goal
  BY <1>2 DEF Upload
<1>3. ASSUME NEW d \in Deps, Request(d) PROVE Goal
  BY <1>3 DEF Request, EnsureProject, TriggerEdge, Webhook
<1>4. ASSUME NEW d \in Deps, Trigger(d) PROVE Goal
  BY <1>4 DEF Trigger, CloneFails, StoreClone, CreateRow, RejectTrigger, PublishCreated
<1>5. ASSUME NEW d \in Deps, Build(d) PROVE Goal
  BY <1>5 DEF Build, StartBuild, FetchSource, BuildFails, CreateZipFails, Unpack,
              BuildImage, PublishCompleted
<1>6. ASSUME NEW d \in Deps, Deploy(d) PROVE Goal
  <2>1. CASE RunContainer(d)
    BY <2>1 DEF RunContainer
  <2>2. CASE RunFails(d)
    BY <2>2 DEF RunFails
  <2>3. CASE StartDeploy(d) \/ ReadPort(d) \/ OpenTunnel(d) \/ TunnelFails(d)
               \/ RecordRunning(d) \/ RefreshMap(d)
    BY <2>3 DEF StartDeploy, ReadPort, OpenTunnel, TunnelFails, RecordRunning, RefreshMap
  <2> QED BY <1>6, <2>1, <2>2, <2>3 DEF Deploy
<1>7. ASSUME Stop \/ Start PROVE Goal
  BY <1>7 DEF Stop, Start
<1> HIDE <1>0 DEF Goal, chain, At
<1>8. ASSUME Next PROVE Goal
  BY <1>2, <1>3, <1>4, <1>5, <1>6, <1>7, <1>8, SettledNext DEF Work
<1> QED BY <1>1, <1>8 DEF Goal

\* Each write of a chain keeps the ports and URLs of its own deployment in
\* step with its container, and a restart reads the URLs from the rows.
LEMMA HomeStep ==
  ASSUME Faults \subseteq {"stop", "busy"}, IInv, Kept, HomeInv, [Next]_vars
  PROVE  HoldsOwnPort' /\ UrlLeadsHome' /\ MapLeadsHome'
<1> DEFINE Home(e) ==
             /\ stage[e] \in {"started", "ported", "routed", "recorded"} => IsUp(e)
             /\ stage[e] \in {"ported", "routed", "recorded"} /\ addr[e] # NoURL
                  => addr[e].port = container[e].port
             /\ stage[e] = "ported" => addr[e].port # NoPort
             /\ url[e] # NoURL => IsUp(e) /\ container[e].port = url[e].port
             /\ publicURLs[e] # NoURL => IsUp(e) /\ container[e].port = publicURLs[e].port
           Goal(e) == Home(e)'
<1> SUFFICES ASSUME NEW e \in Deps PROVE Goal(e)
  BY DEF HoldsOwnPort, UrlLeadsHome, MapLeadsHome
<1>0. /\ Home(e)
      /\ IsUp(e) => stage[e] \in {"started", "ported", "routed", "recorded", "returned", "lost"}
      /\ stage \in [Deps -> Stages]
      /\ addr \in [Deps -> URLs] /\ url \in [Deps -> URLs] /\ publicURLs \in [Deps -> URLs]
      /\ container \in [Deps -> Containers]
  <2>1. Home(e)
    BY DEF HomeInv, HoldsOwnPort, UrlLeadsHome, MapLeadsHome
  <2>2. IsUp(e) => stage[e] \in {"started", "ported", "routed", "recorded", "returned", "lost"}
    BY DEF IInv, ContainerNeedsDeploy, IsUp
  <2> HIDE DEF Home
  <2> QED BY <2>1, <2>2 DEF IInv, TypeOK
<1> USE <1>0 DEF server, db, maps, chain, At, Goto, IsUp
<1>1. CASE UNCHANGED vars
  BY <1>1 DEF vars
<1>2. ASSUME NEW p \in Projects, Upload(p) PROVE Goal(e)
  BY <1>2 DEF Upload
<1>3. ASSUME NEW d \in Deps, Request(d) PROVE Goal(e)
  BY <1>3 DEF Request, EnsureProject, TriggerEdge, Webhook
<1>4. ASSUME NEW d \in Deps, Trigger(d) PROVE Goal(e)
  BY <1>4 DEF Trigger, CloneFails, StoreClone, CreateRow, RejectTrigger, PublishCreated
<1>5. ASSUME NEW d \in Deps, Build(d) PROVE Goal(e)
  BY <1>5 DEF Build, StartBuild, FetchSource, BuildFails, CreateZipFails, Unpack,
              BuildImage, PublishCompleted
<1>6. ASSUME NEW d \in Deps, Deploy(d) PROVE Goal(e)
  <2>1. CASE RunContainer(d)
    BY <2>1 DEF RunContainer
  <2>2. CASE RunFails(d)
    BY <2>2 DEF RunFails
  <2>3. CASE StartDeploy(d)
    BY <2>3 DEF StartDeploy
  <2>4. CASE ReadPort(d)
    <3>1. PICK q \in {NoPort} \cup (IF IsUp(d) THEN {container[d].port} ELSE {}) :
                 /\ At(d, "started")
                 /\ addr' = [addr EXCEPT ![d] = [kind |-> "none", port |-> q]]
                 /\ Goto(d, IF q = NoPort THEN "routed" ELSE "ported")
                 /\ UNCHANGED <<server, db, source, image, container, maps, proj, del>>
      BY <2>4 DEF ReadPort
    <3> QED BY <3>1 DEF NoURL
  <2>5. CASE OpenTunnel(d)
    BY <2>5 DEF OpenTunnel, URLs, NoURL
  <2>6. CASE TunnelFails(d)
    BY <2>6 DEF TunnelFails, URLs, NoURL
  <2>7. CASE RecordRunning(d)
    BY <2>7 DEF RecordRunning
  <2>8. CASE RefreshMap(d)
    BY <2>8 DEF RefreshMap
  <2> QED BY <1>6, <2>1, <2>2, <2>3, <2>4, <2>5, <2>6, <2>7, <2>8 DEF Deploy
<1>7. CASE Stop
  <2>1. /\ stage'[e] \in {"started", "ported", "routed", "recorded"} => FALSE
        /\ UNCHANGED <<url, container>> /\ publicURLs'[e] = NoURL
    BY <1>7, StopEffect DEF Stop, InFlight, Deploying
  <2> QED BY <2>1
<1>8. CASE Start
  BY <1>8 DEF Start, Restorable
<1> HIDE <1>0 DEF Goal, server, db, maps, chain, At, Goto, IsUp
<1>9. CASE Next
  BY <1>2, <1>3, <1>4, <1>5, <1>6, <1>7, <1>8, <1>9, SettledNext DEF Work
<1> QED BY <1>1, <1>9

\* The gateway's port of a project is set by OpenTunnel alone, to the port of a
\* container that is up, and that container stays; a stop forgets the ports.
LEMMA GatewayStep ==
  ASSUME Faults \subseteq {"stop", "busy"}, IInv, Kept, HomeInv, [Next]_vars
  PROVE  GatewayServesProject'
<1> SUFFICES ASSUME NEW p \in Projects, internalPorts'[p] # NoPort
             PROVE  \E d \in Deps : /\ proj'[d] = p /\ container'[d].state = "up"
                                    /\ container'[d].port = internalPorts'[p]
  BY DEF GatewayServesProject, Gateway, IsUp
<1>1. CASE internalPorts'[p] = internalPorts[p]
  <2>1. PICK d \in Deps : proj[d] = p /\ IsUp(d) /\ container[d].port = internalPorts[p]
    BY <1>1 DEF HomeInv, GatewayServesProject, Gateway
  <2>2. container'[d] = container[d] /\ proj'[d] = proj[d]
    BY <2>1, UpStays
  <2> QED BY <1>1, <2>1, <2>2 DEF IsUp
<1>2. CASE internalPorts'[p] # internalPorts[p]
  <2>0. ~Stop
    BY DEF Stop
  <2>1. PICK d \in Deps : OpenTunnel(d)
    BY <1>2, <2>0, SettledNext
       DEF maps, vars, Upload, Request, EnsureProject, TriggerEdge, Webhook,
           Work, Trigger, CloneFails, StoreClone, CreateRow, RejectTrigger, PublishCreated,
           Build, StartBuild, FetchSource, BuildFails, CreateZipFails, Unpack, BuildImage,
           PublishCompleted, Deploy, StartDeploy, RunContainer, RunFails, ReadPort,
           TunnelFails, RecordRunning, RefreshMap, Start
  <2>2. /\ IsUp(d) /\ addr[d].port = container[d].port
        /\ container' = container /\ proj' = proj
    BY <2>1 DEF OpenTunnel, At, HomeInv, HoldsOwnPort, NoURL
  <2>3. /\ internalPorts \in [Projects -> Ports \cup {NoPort}]
        /\ addr[d] \in URLs
    BY DEF IInv, TypeOK
  <2>4. p = proj[d] /\ internalPorts'[p] = addr[d].port
    BY <1>2, <2>1, <2>3 DEF OpenTunnel, URLs
  <2> QED BY <2>2, <2>4 DEF IsUp
<1> QED BY <1>1, <1>2

\* While containers stay where they are, every port and URL the platform holds
\* leads to a container that is up, over any number of restarts of the server.
THEOREM HomeInductive ==
  ASSUME Faults \subseteq {"stop", "busy"} PROVE Spec => []HomeInv
<1>1. Init => HomeInv
  BY DEF Init, HomeInv, HoldsOwnPort, UrlLeadsHome, MapLeadsHome, GatewayServesProject, Gateway
<1>2. "delete" \notin Faults
  OBVIOUS
<1>3. IInv /\ Kept /\ HomeInv /\ [Next]_vars => HomeInv'
  BY HomeStep, GatewayStep DEF HomeInv
<1> QED BY <1>1, <1>2, <1>3, Inductive, RowsKept, PTL DEF Spec

\* The URL in the row of a deployment leads to its own container.
THEOREM UrlCorrect ==
  ASSUME Faults \subseteq {"stop", "busy"} PROVE Spec => []UrlLeadsHome
<1>1. HomeInv => UrlLeadsHome
  BY DEF HomeInv
<1> QED BY <1>1, HomeInductive, PTL

\* The gateway sends the requests for a project to a container of that project,
\* in whatever order its deployments finish and the server restarts.
THEOREM GatewayCorrect ==
  ASSUME Faults \subseteq {"stop", "busy"} PROVE Spec => []GatewayServesProject
<1>1. HomeInv => GatewayServesProject
  BY DEF HomeInv
<1> QED BY <1>1, HomeInductive, PTL

\* A client that polls is given a URL that leads to a container of its project,
\* whether it comes from the row, from the map or from the gateway's port.
THEOREM PolledCorrect ==
  ASSUME Faults \subseteq {"stop", "busy"} PROVE Spec => []PolledServesProject
<1>1. IInv /\ HomeInv => PolledServesProject
  <2> SUFFICES ASSUME IInv, HomeInv, NEW d \in Deps, Polled(d) # NoURL
               PROVE  \E e \in Deps : /\ proj[e] = proj[d] /\ IsUp(e)
                                      /\ container[e].port = Polled(d).port
    BY DEF PolledServesProject
  <2>1. CASE Listed(d) # NoURL
    <3>1. Polled(d) = Listed(d)
      BY <2>1 DEF Polled
    <3>2. IsUp(d) /\ container[d].port = Listed(d).port
      BY <2>1 DEF Listed, HomeInv, UrlLeadsHome, MapLeadsHome
    <3> QED BY <3>1, <3>2
  <2>2. CASE Listed(d) = NoURL
    <3>1. Gateway(proj[d]) # NoPort /\ Polled(d).port = Gateway(proj[d])
      BY <2>2 DEF Polled
    <3>2. proj[d] \in Projects
      BY DEF IInv, TypeOK
    <3> QED BY <3>1, <3>2 DEF HomeInv, GatewayServesProject
  <2> QED BY <2>1, <2>2
<1> QED BY <1>1, Inductive, HomeInductive, PTL

-----------------------------------------------------------------------------
\* Refinement of DeploymentLifecycle

\* What Lifecycle substitutes for the phases of the deployments.
phases == [d \in Deps |-> Phase(d)]

\* A step that writes no status, and inserts no row, is invisible to a client.
LEMMA PhaseStays ==
  ASSUME \A d \in Deps : /\ status'[d] = status[d]
                         /\ status[d] = "absent" =>
                              (stage'[d] \in Unborn <=> stage[d] \in Unborn)
  PROVE  phases' = phases
<1>1. \A d \in Deps : Phase(d)' = Phase(d)
  <2> SUFFICES ASSUME NEW d \in Deps PROVE Phase(d)' = Phase(d)
    OBVIOUS
  <2>1. CASE status[d] = "absent" /\ stage[d] \in Unborn
    BY <2>1 DEF Phase
  <2>2. CASE status[d] = "absent" /\ stage[d] \notin Unborn
    BY <2>2 DEF Phase
  <2>3. CASE status[d] # "absent"
    BY <2>3 DEF Phase
  <2> QED BY <2>1, <2>2, <2>3
<1> QED BY <1>1 DEF phases

\* A write of the status of d is what a client sees of d, and of d alone.
LEMMA PhaseMoves ==
  ASSUME TypeOK, NEW d \in Deps, NEW s \in Statuses \cup {"absent"}, NEW g \in Stages,
         g \notin Unborn,
         status' = [status EXCEPT ![d] = s], stage' = [stage EXCEPT ![d] = g]
  PROVE  phases' = [phases EXCEPT ![d] = IF s = "absent" THEN "gone" ELSE s]
<1>1. \A e \in Deps \ {d} : Phase(e)' = Phase(e)
  BY DEF Phase, TypeOK
<1>2. Phase(d)' = IF s = "absent" THEN "gone" ELSE s
  BY DEF Phase, TypeOK
<1> QED BY <1>1, <1>2 DEF phases

\* Every step of the pipeline is a step of the lifecycle or invisible.
LEMMA LifecycleStep ==
  ASSUME TypeOK, StatusMatchesStage, [Next]_vars
  PROVE  Lifecycle!Next \/ phases' = phases
<1> DEFINE Goal == Lifecycle!Next \/ phases' = phases
<1>0. /\ stage \in [Deps -> Stages] /\ status \in [Deps -> Statuses \cup {"absent"}]
  BY DEF TypeOK
<1>a. ASSUME /\ status' = status
             /\ \A d \in Deps : status[d] = "absent" =>
                   (stage'[d] \in Unborn <=> stage[d] \in Unborn)
      PROVE  Goal
  BY <1>a, PhaseStays
<1>b. ASSUME NEW d \in Deps, NEW s \in Statuses, NEW g \in Stages \ Unborn,
             stage[d] \notin Unborn, stage' = [stage EXCEPT ![d] = g],
             status[d] \in {"absent", s} \/ s \in Lifecycle!Successors(status[d]),
             SetStatus(d, s)
      PROVE  Goal
  <2>1. CASE status[d] \in {"absent", s} \/ status' = status
    <3>1. status' = status
      BY <2>1, <1>0, <1>b DEF SetStatus
    <3>2. \A e \in Deps : stage'[e] \in Unborn <=> stage[e] \in Unborn
      BY <1>0, <1>b
    <3> QED BY <3>1, <3>2, <1>a
  <2>2. CASE status[d] \notin {"absent", s} /\ status' # status
    <3>1. status' = [status EXCEPT ![d] = s]
      BY <2>2, <1>0, <1>b DEF SetStatus
    <3>2. phases' = [phases EXCEPT ![d] = s]
      BY <3>1, <1>b, PhaseMoves DEF Statuses
    <3>3. phases[d] = status[d]
      BY <2>2 DEF phases, Phase
    <3>4. s \in Lifecycle!Successors(phases[d])
      BY <3>3, <2>2, <1>b
    <3>5. Lifecycle!Advance(d)
      BY <3>2, <3>4 DEF Lifecycle!Advance, phases
    <3> QED BY <3>5 DEF Lifecycle!Next
  <2> QED BY <2>1, <2>2
<1>1. CASE UNCHANGED vars
  BY <1>1, <1>a DEF vars, db, chain
<1>2. ASSUME NEW d \in Deps, Request(d) PROVE Goal
  <2>1. /\ status' = status
        /\ \A e \in Deps : stage'[e] \in Unborn <=> stage[e] \in Unborn
    BY <1>0, <1>2 DEF Request, EnsureProject, TriggerEdge, Webhook, db, chain, At, Goto, Unborn
  <2> QED BY <2>1, <1>a
<1>3. ASSUME NEW d \in Deps, Trigger(d) PROVE Goal
  <2>1. CASE CreateRow(d)
    <3>1. /\ status[d] = "absent" /\ stage[d] = "verifying"
          /\ status' = [status EXCEPT ![d] = "queued"] /\ stage' = [stage EXCEPT ![d] = "stored"]
      BY <2>1, Shown DEF CreateRow, InsertDeployment, At, Goto, Unborn
    <3>2. phases' = [phases EXCEPT ![d] = "queued"]
      BY <3>1, PhaseMoves DEF Statuses, Stages, InFlight, Unborn
    <3>3. phases[d] = "absent"
      BY <3>1 DEF phases, Phase, Unborn
    <3>4. Lifecycle!Accept(d)
      BY <3>2, <3>3 DEF Lifecycle!Accept, phases
    <3> QED BY <3>4 DEF Lifecycle!Next
  <2>2. CASE CloneFails(d) \/ StoreClone(d) \/ RejectTrigger(d) \/ PublishCreated(d)
    <3>1. /\ status' = status
          /\ \A e \in Deps : stage'[e] \in Unborn <=> stage[e] \in Unborn
      BY <1>0, <2>2 DEF CloneFails, StoreClone, RejectTrigger, PublishCreated,
                        db, chain, At, Goto, Unborn
    <3> QED BY <3>1, <1>a
  <2> QED BY <1>3, <2>1, <2>2 DEF Trigger
<1>4. ASSUME NEW d \in Deps, Build(d) PROVE Goal
  <2>1. CASE StartBuild(d)
    <3>1. /\ stage[d] = "created" /\ SetStatus(d, "building")
          /\ stage' = [stage EXCEPT ![d] = "fetching"]
      BY <2>1 DEF StartBuild, At, Goto
    <3>2. status[d] \in {"absent", "queued"}
      BY <3>1, Shown
    <3> QED BY <3>1, <3>2, <1>b
            DEF Lifecycle!Successors, Statuses, Stages, InFlight, Unborn, Building
  <2>2. CASE BuildFails(d)
    <3>1. /\ stage[d] \in {"fetching", "unpacking", "nixpacks"} /\ SetStatus(d, "failed")
          /\ stage' = [stage EXCEPT ![d] = "returned"]
      BY <2>2 DEF BuildFails, At, Goto
    <3>2. \/ status[d] \in {"absent", "building"}
          \/ status[d] = "queued" /\ "busy" \in Faults
      BY <3>1, Shown DEF Building
    <3>3. status[d] = "absent" \/ "failed" \in Lifecycle!Successors(status[d])
      BY <3>2 DEF Lifecycle!Successors
    <3> QED BY <3>1, <3>3, <1>b DEF Statuses, Stages, InFlight, Unborn
  <2>3. CASE FetchSource(d) \/ CreateZipFails(d) \/ Unpack(d) \/ BuildImage(d)
               \/ PublishCompleted(d)
    <3>1. /\ status' = status
          /\ \A e \in Deps : stage'[e] \in Unborn <=> stage[e] \in Unborn
      BY <1>0, <2>3 DEF FetchSource, CreateZipFails, Unpack, BuildImage, PublishCompleted,
                        db, chain, At, Goto, Unborn
    <3> QED BY <3>1, <1>a
  <2> QED BY <1>4, <2>1, <2>2, <2>3 DEF Build
<1>5. ASSUME NEW d \in Deps, Deploy(d) PROVE Goal
  <2>1. CASE StartDeploy(d)
    <3>1. /\ stage[d] = "completed" /\ SetStatus(d, "deploying")
          /\ stage' = [stage EXCEPT ![d] = "starting"]
      BY <2>1 DEF StartDeploy, At, Goto
    <3>2. \/ status[d] \in {"absent", "building"}
          \/ status[d] = "queued" /\ "busy" \in Faults
      BY <3>1, Shown DEF Building
    <3>3. status[d] = "absent" \/ "deploying" \in Lifecycle!Successors(status[d])
      BY <3>2 DEF Lifecycle!Successors
    <3> QED BY <3>1, <3>3, <1>b DEF Statuses, Stages, InFlight, Unborn, Deploying
  <2>2. CASE RecordRunning(d)
    <3>1. /\ stage[d] = "routed" /\ SetStatus(d, "running")
          /\ stage' = [stage EXCEPT ![d] = "recorded"]
      BY <2>2, <1>0 DEF RecordRunning, At, Goto, SetStatus
    <3>2. \/ status[d] \in {"absent", "deploying"}
          \/ status[d] \in {"queued", "building"} /\ "busy" \in Faults
      BY <3>1, Shown DEF Deploying
    <3>3. status[d] = "absent" \/ "running" \in Lifecycle!Successors(status[d])
      BY <3>2 DEF Lifecycle!Successors
    <3> QED BY <3>1, <3>3, <1>b DEF Statuses, Stages, InFlight, Unborn
  <2>3. CASE RunContainer(d) \/ RunFails(d) \/ ReadPort(d) \/ OpenTunnel(d)
               \/ TunnelFails(d) \/ RefreshMap(d)
    <3>1. /\ status' = status
          /\ \A e \in Deps : stage'[e] \in Unborn <=> stage[e] \in Unborn
      BY <1>0, <2>3 DEF RunContainer, RunFails, ReadPort, OpenTunnel, TunnelFails, RefreshMap,
                        db, chain, At, Goto, Unborn
    <3> QED BY <3>1, <1>a
  <2> QED BY <1>5, <2>1, <2>2, <2>3 DEF Deploy
<1>6. ASSUME NEW d \in Deps, DeleteRow(d) PROVE Goal
  <2>0. stage' = stage
    BY <1>6 DEF DeleteRow, chain
  <2>1. CASE status' = status
    BY <2>0, <2>1, <1>a
  <2>2. CASE status' # status
    <3>1. status' = [status EXCEPT ![d] = "absent"]
      BY <1>6, <2>2 DEF DeleteRow
    <3>2. status[d] # "absent"
      BY <3>1, <2>2, <1>0
    <3>3. stage[d] \notin Unborn /\ stage[d] \in Stages
      BY <3>2, <1>0, Shown
    <3>4. phases' = [phases EXCEPT ![d] = "gone"]
      BY <2>0, <3>1, <3>3, <1>0, PhaseMoves
    <3>5. phases[d] \notin {"absent", "gone"}
      BY <3>2, <1>0 DEF phases, Phase, Statuses
    <3>6. Lifecycle!Delete(d)
      BY <3>4, <3>5 DEF Lifecycle!Delete, phases
    <3> QED BY <3>6 DEF Lifecycle!Next
  <2> QED BY <2>1, <2>2
<1>7. ASSUME NEW d \in Deps,
             RemoveContainer(d) \/ DeleteFromMaps(d) \/ Rollback(d) \/ ContainerExits(d)
      PROVE  Goal
  <2>1. status' = status /\ stage' = stage
    BY <1>7 DEF RemoveContainer, DeleteFromMaps, Rollback, ContainerExits, db, chain
  <2> QED BY <2>1, <1>a
<1>8. ASSUME NEW p \in Projects, Upload(p) PROVE Goal
  BY <1>8, <1>a DEF Upload, db, chain
<1>9. ASSUME Stop PROVE Goal
  <2>1. status' = status
    BY <1>9 DEF Stop, db
  <2>2. \A d \in Deps : stage'[d] \in Unborn <=> stage[d] \in Unborn
    BY <1>9, StopEffect DEF InFlight, Building, Deploying, Unborn
  <2> QED BY <2>1, <2>2, <1>a
<1>10. ASSUME Start PROVE Goal
  BY <1>10, <1>a DEF Start, chain
<1> HIDE DEF Goal
<1>11. ASSUME NEW d \in Deps, Work(d) PROVE Goal
  BY <1>3, <1>4, <1>5, <1>11 DEF Work
<1>12. ASSUME NEW d \in Deps, Remove(d) PROVE Goal
  BY <1>6, <1>7, <1>12 DEF Remove
<1>13. ASSUME NEW d \in Deps,
              Request(d) \/ Work(d) \/ RemoveContainer(d) \/ Remove(d)
                \/ Rollback(d) \/ ContainerExits(d)
       PROVE  Goal
  BY <1>2, <1>7, <1>11, <1>12, <1>13
<1>14. ASSUME Next PROVE Goal
  BY <1>8, <1>9, <1>10, <1>13, <1>14 DEF Next
<1> QED BY <1>1, <1>14 DEF Goal

\* The pipeline implements the deployment lifecycle: statuses only move forward
\* and a deleted deployment never comes back, whichever worker is late.
THEOREM Refinement == Spec => LifecycleSpec
<1>1. Init => Lifecycle!Init
  BY DEF Init, Lifecycle!Init, Phase, Unborn
<1>2. TypeOK /\ StatusMatchesStage /\ [Next]_vars => [Lifecycle!Next]_phases
  BY LifecycleStep
<1> QED
  BY <1>1, <1>2, TypeCorrect, StatusCorrect, PTL
     DEF Spec, LifecycleSpec, Lifecycle!Spec, phases
=============================================================================
