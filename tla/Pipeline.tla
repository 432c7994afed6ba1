------------------------------ MODULE Pipeline ------------------------------
(***************************************************************************)
(* The deployment pipeline of cmd/standalone/main.go: the HTTP handlers    *)
(* that accept, delete and restart deployments, the build worker and the   *)
(* deploy worker that the mesh bus starts as goroutines, and the state     *)
(* they share: the SQLite rows, the object store, the Docker images and    *)
(* containers, and the URL and port maps of the gateway.                   *)
(*                                                                         *)
(* stage[d] is the place of the one chain of goroutines that carries       *)
(* deployment d: the request (or webhook) that creates it, then the build  *)
(* handler its event starts, then the deploy handler the build's event     *)
(* starts.  Every step of the chain that reads or writes shared state is   *)
(* an action of its own, so any number of deployments, deletions, rollbacks *)
(* and a stop of the server interleave between two of them.                *)
(***************************************************************************)
EXTENDS Integers, FiniteSets

CONSTANTS
  Deps,         \* deployment ids, each the timestamp id of one request
  Projects,     \* project ids: query parameters and repository names
  CoreProject,  \* "proj_core", seeded at every start
  EdgeProject,  \* "proj_edge", the only project the edge repository knows
  Ports,        \* host ports Docker hands out for `docker run -P`
  NoPort,       \* the empty localPort
  NoDep,        \* no image built yet
  Faults        \* what the environment may do besides answering correctly

\* A client deletes or rolls back a deployment, a container exits by itself,
\* the server stops and starts, docker rm fails, a database statement fails (a
\* lock outlives busy_timeout, the request is cancelled).
FaultKinds == {"delete", "rollback", "exit", "stop", "docker", "busy"}

ASSUME PipelineAssumption ==
  /\ {CoreProject, EdgeProject} \subseteq Projects
  /\ NoPort \notin Ports
  /\ NoDep \notin Deps
  /\ Faults \subseteq FaultKinds

VARIABLES
  up,             \* the server process is running
  projects,       \* rows of table projects
  status,         \* status column of table deployments, "absent" without a row
  url,            \* public_url column of table deployments
  source,         \* projects with a source.zip in the object store
  image,          \* whose build ncloud-project-<p>:latest names
  container,      \* the Docker container named after the deployment
  publicURLs,     \* in-memory map deployment -> public URL
  publicURLsNamed,\* in-memory set of deployments with a named URL
  internalPorts,  \* in-memory map project -> host port, read by the gateway
  stage,          \* where the chain of goroutines of a deployment stands
  proj,           \* the project id its request and its events carry
  addr,           \* localPort and publicURL of its deploy handler
  del,            \* where the DELETE handler of a deployment stands
  unread          \* history: rows the last start did not get to read

server  == <<up, unread>>
db      == <<projects, status, url>>
maps    == <<publicURLs, publicURLsNamed, internalPorts>>
chain   == <<stage, proj, addr>>
vars    == <<server, db, source, image, container, maps, chain, del>>

-----------------------------------------------------------------------------
\* Values

Statuses == {"queued", "building", "deploying", "running", "failed"}

\* A URL is told apart by where it leads: a Cloudflare tunnel to a port, or
\* the http://localhost:<port> that stands in for a tunnel that failed.
URLs  == [kind : {"none", "local", "tunnel"}, port : Ports \cup {NoPort}]
NoURL == [kind |-> "none", port |-> NoPort]

Containers  == [state : {"none", "exited", "up"},
                image : Deps \cup {NoDep}, port : Ports \cup {NoPort}]
NoContainer == [state |-> "none", image |-> NoDep, port |-> NoPort]

\* Before its row exists a deployment's id is known to nobody.
Unborn    == {"idle", "cloning", "verifying", "rejected", "edge"}
Building  == {"fetching", "unpacking", "nixpacks", "built", "completed"}
Deploying == {"starting", "started", "ported", "routed"}
InFlight  == {"stored", "created", "recorded"} \cup Building \cup Deploying
Stages    == Unborn \cup InFlight \cup {"returned", "lost"}

IsUp(d)   == container[d].state = "up"
FreePorts == Ports \ {container[d].port : d \in {e \in Deps : IsUp(e)}}

-----------------------------------------------------------------------------
Init ==
  /\ up = TRUE
  /\ projects \in {{CoreProject}} \cup (IF "busy" \in Faults THEN {{}} ELSE {})
  /\ status = [d \in Deps |-> "absent"]
  /\ url = [d \in Deps |-> NoURL]
  /\ source = {}
  /\ image = [p \in Projects |-> NoDep]
  /\ container = [d \in Deps |-> NoContainer]
  /\ publicURLs = [d \in Deps |-> NoURL]
  /\ publicURLsNamed = {}
  /\ internalPorts = [p \in Projects |-> NoPort]
  /\ stage = [d \in Deps |-> "idle"]
  /\ proj = [d \in Deps |-> CoreProject]
  /\ addr = [d \in Deps |-> NoURL]
  /\ del = [d \in Deps |-> "idle"]
  /\ unread = {}

Goto(d, s) == stage' = [stage EXCEPT ![d] = s]

At(d, s) == up /\ stage[d] = s

\* Mutant: an upsert in place of the UPDATE.
SetStatusUpsert(d, s) ==
  \/ status' = [status EXCEPT ![d] = s]
  \/ "busy" \in Faults /\ status' = status

\* UPDATE deployments SET status = s WHERE id = d.  Without a row it changes
\* nothing, and the callers ignore its error.
SetStatus(d, s) ==
  \/ status' = [status EXCEPT ![d] = IF @ = "absent" THEN @ ELSE s]
  \/ "busy" \in Faults /\ status' = status

\* GetByID and Create of the project repository.
FindProject(p)   == p \in projects
InsertProject(p) == projects' = projects \cup {p}

\* Create of the deployment repository, with the status of NewDeployment.
InsertDeployment(d) == status' = [status EXCEPT ![d] = "queued"]

\* GetByID of the edge repository, to which only main() adds.
FindEdgeProject(p) == p = EdgeProject

\* The object store.  A Put that fails half way leaves an object all the same.
Put(p) == source' \in {source, source \cup {p}}
Get(p) == p \in source

\* GetByID, and Create when it finds nothing; the error of Create is ignored.
Ensure(p) ==
  \/ InsertProject(p)
  \/ "busy" \in Faults /\ projects' = projects

\* The project main() creates at every start, whether or not it exists.
SeedProject == Ensure(CoreProject)

-----------------------------------------------------------------------------
\* Requests that create deployments

\* POST /api/v1/projects/upload.
Upload(p) ==
  /\ up
  /\ Put(p)
  /\ UNCHANGED <<server, db, image, container, maps, chain, del>>

\* POST /api/v1/deployments/: insert the project when it is missing, whatever
\* the workload type.  Only then does the service look it up.
EnsureProject(d, p) ==
  /\ At(d, "idle")
  /\ Ensure(p)
  /\ proj' = [proj EXCEPT ![d] = p]
  /\ Goto(d, "verifying")
  /\ UNCHANGED <<server, status, url, source, image, container, maps, addr, del>>

\* The same request with type=edge: the edge repository knows EdgeProject only,
\* its Create keeps no row, and nobody subscribes to its bus.
TriggerEdge(d, p) ==
  /\ At(d, "idle")
  /\ Ensure(p)
  /\ proj' = [proj EXCEPT ![d] = p]
  /\ Goto(d, IF FindEdgeProject(p) THEN "edge" ELSE "rejected")
  /\ UNCHANGED <<server, status, url, source, image, container, maps, addr, del>>

\* POST /api/v1/webhooks/github answers 202 and leaves the rest to a goroutine.
Webhook(d, p) ==
  /\ At(d, "idle")
  /\ proj' = [proj EXCEPT ![d] = p]
  /\ Goto(d, "cloning")
  /\ UNCHANGED <<server, db, source, image, container, maps, addr, del>>

CloneFails(d) ==
  /\ At(d, "cloning")
  /\ Goto(d, "rejected")
  /\ UNCHANGED <<server, db, source, image, container, maps, proj, addr, del>>

\* The zip is put in the object store (the error of Put is ignored) and the
\* goroutine calls TriggerDeployment.  It never inserts the project.
StoreClone(d) ==
  /\ At(d, "cloning")
  /\ Put(proj[d])
  /\ Goto(d, "verifying")
  /\ UNCHANGED <<server, db, image, container, maps, proj, addr, del>>

\* TriggerDeployment, first half: the project exists and the row is inserted.
CreateRow(d) ==
  /\ At(d, "verifying")
  /\ FindProject(proj[d])
  /\ InsertDeployment(d)
  /\ Goto(d, "stored")
  /\ UNCHANGED <<server, projects, url, source, image, container, maps, proj, addr, del>>

\* TriggerDeployment returns an error: no such project, or the insert failed.
RejectTrigger(d) ==
  /\ At(d, "verifying")
  /\ ~FindProject(proj[d]) \/ "busy" \in Faults
  /\ Goto(d, "rejected")
  /\ UNCHANGED <<server, db, source, image, container, maps, proj, addr, del>>

\* Mutant: the event is published under a name nobody subscribed to, and the
\* chain ends where it is.
PublishCreatedUnheard(d) == At(d, "stored") /\ UNCHANGED vars

\* TriggerDeployment, second half: the mesh bus starts the build handler.
PublishCreated(d) ==
  /\ At(d, "stored")
  /\ Goto(d, "created")
  /\ UNCHANGED <<server, db, source, image, container, maps, proj, addr, del>>

-----------------------------------------------------------------------------
\* The build worker

\* Mutant: a misspelt status.
StartBuildMisspelt(d) ==
  /\ At(d, "created")
  /\ SetStatus(d, "build")
  /\ Goto(d, "fetching")
  /\ UNCHANGED <<server, projects, url, source, image, container, maps, proj, addr, del>>

StartBuild(d) ==
  /\ At(d, "created")
  /\ SetStatus(d, "building")
  /\ Goto(d, "fetching")
  /\ UNCHANGED <<server, projects, url, source, image, container, maps, proj, addr, del>>

FetchSource(d) ==
  /\ At(d, "fetching")
  /\ Get(proj[d])
  /\ Goto(d, "unpacking")
  /\ UNCHANGED <<server, db, source, image, container, maps, proj, addr, del>>

\* Fetching, unpacking, obtaining, starting and running nixpacks each end the
\* build with status failed.
BuildFails(d) ==
  /\ At(d, "fetching") \/ At(d, "unpacking") \/ At(d, "nixpacks")
  /\ SetStatus(d, "failed")
  /\ Goto(d, "returned")
  /\ UNCHANGED <<server, projects, url, source, image, container, maps, proj, addr, del>>

\* The one early return of the build that records nothing: the zip could not
\* be created in the build directory.
CreateZipFails(d) ==
  /\ At(d, "unpacking")
  /\ Goto(d, "returned")
  /\ UNCHANGED <<server, db, source, image, container, maps, proj, addr, del>>

Unpack(d) ==
  /\ At(d, "unpacking")
  /\ Goto(d, "nixpacks")
  /\ UNCHANGED <<server, db, source, image, container, maps, proj, addr, del>>

\* Mutant: one tag for the whole platform.
TagGlobally(p, d) == image' = [q \in Projects |-> d]

\* nixpacks tags its image with the project alone.
Tag(p, d) == image' = [image EXCEPT ![p] = d]

BuildImage(d) ==
  /\ At(d, "nixpacks")
  /\ Tag(proj[d], d)
  /\ Goto(d, "built")
  /\ UNCHANGED <<server, db, source, container, maps, proj, addr, del>>

PublishCompleted(d) ==
  /\ At(d, "built")
  /\ Goto(d, "completed")
  /\ UNCHANGED <<server, db, source, image, container, maps, proj, addr, del>>

-----------------------------------------------------------------------------
\* The deploy worker

\* Mutant: the row says running as soon as the deploy handler starts.
StartDeployEagerly(d) ==
  /\ At(d, "completed")
  /\ SetStatus(d, "running")
  /\ Goto(d, "starting")
  /\ UNCHANGED <<server, projects, url, source, image, container, maps, proj, addr, del>>

StartDeploy(d) ==
  /\ At(d, "completed")
  /\ SetStatus(d, "deploying")
  /\ Goto(d, "starting")
  /\ UNCHANGED <<server, projects, url, source, image, container, maps, proj, addr, del>>

\* Mutant: the error of docker run is not looked at.
RunContainerUnchecked(d) ==
  /\ At(d, "starting")
  /\ \/ container' = container
     \/ \E q \in FreePorts \cup {NoPort} :
          container' = [container EXCEPT
                          ![d] = [state |-> "up", image |-> image[proj[d]], port |-> q]]
  /\ Goto(d, "started")
  /\ UNCHANGED <<server, db, source, image, maps, proj, addr, del>>

\* docker run -d -P --name d ncloud-project-<p>:latest.  -P maps the exposed
\* port of the image, if it has one, to a free port of the host.
RunContainer(d) ==
  /\ At(d, "starting")
  /\ container[d].state = "none"
  /\ \E q \in FreePorts \cup {NoPort} :
       container' = [container EXCEPT
                       ![d] = [state |-> "up", image |-> image[proj[d]], port |-> q]]
  /\ Goto(d, "started")
  /\ UNCHANGED <<server, db, source, image, maps, proj, addr, del>>

\* docker run fails, before or after it created the container, and the handler
\* returns without recording it.
RunFails(d) ==
  /\ At(d, "starting")
  /\ \/ container' = container
     \/ /\ container[d].state = "none"
        /\ \E q \in Ports \cup {NoPort} :
             container' = [container EXCEPT
                             ![d] = [state |-> "exited", image |-> image[proj[d]], port |-> q]]
  /\ Goto(d, "returned")
  /\ UNCHANGED <<server, db, source, image, maps, proj, addr, del>>

\* Mutant: the port is looked up by project, not by deployment.
ReadPortOfProject(d) ==
  \E e \in Deps :
    LET q == IF IsUp(e) THEN container[e].port ELSE NoPort
    IN  /\ proj[e] = proj[d]
        /\ At(d, "started")
        /\ addr' = [addr EXCEPT ![d] = [kind |-> "none", port |-> q]]
        /\ Goto(d, IF q = NoPort THEN "routed" ELSE "ported")
        /\ UNCHANGED <<server, db, source, image, container, maps, proj, del>>

\* docker port d.  Without a mapping, without a running container, or when the
\* command fails for another reason, no tunnel is tried.
ReadPort(d) ==
  \E q \in {NoPort} \cup (IF IsUp(d) THEN {container[d].port} ELSE {}) :
    /\ At(d, "started")
    /\ addr' = [addr EXCEPT ![d] = [kind |-> "none", port |-> q]]
    /\ Goto(d, IF q = NoPort THEN "routed" ELSE "ported")
    /\ UNCHANGED <<server, db, source, image, container, maps, proj, del>>

\* Mutant: the build's event does not carry the project.
OpenTunnelOfDefaultProject(d) ==
  LET u == [addr[d] EXCEPT !.kind = "tunnel"]
  IN  /\ At(d, "ported")
      /\ addr' = [addr EXCEPT ![d] = u]
      /\ publicURLs' = [publicURLs EXCEPT ![d] = u]
      /\ publicURLsNamed' = publicURLsNamed \cup {d}
      /\ internalPorts' = [internalPorts EXCEPT ![CoreProject] = u.port]
      /\ Goto(d, "routed")
      /\ UNCHANGED <<server, db, source, image, container, proj, del>>

\* The tunnel is up: under the lock the URL and the gateway's port are set.
OpenTunnel(d) ==
  LET u == [addr[d] EXCEPT !.kind = "tunnel"]
  IN  /\ At(d, "ported")
      /\ addr' = [addr EXCEPT ![d] = u]
      /\ publicURLs' = [publicURLs EXCEPT ![d] = u]
      /\ publicURLsNamed' = publicURLsNamed \cup {d}
      /\ internalPorts' = [internalPorts EXCEPT ![proj[d]] = u.port]
      /\ Goto(d, "routed")
      /\ UNCHANGED <<server, db, source, image, container, proj, del>>

\* Mutant: a tunnel that fails ends the handler.
TunnelFailsForGood(d) ==
  /\ At(d, "ported")
  /\ Goto(d, "returned")
  /\ UNCHANGED <<server, db, source, image, container, maps, proj, addr, del>>

\* The tunnel fails: the deployment is given a localhost URL and no gateway port.
TunnelFails(d) ==
  /\ At(d, "ported")
  /\ addr' = [addr EXCEPT ![d].kind = "local"]
  /\ Goto(d, "routed")
  /\ UNCHANGED <<server, db, source, image, container, maps, proj, del>>

\* The final UPDATE writes status and URL together, if the row is still there.
RecordRunning(d) ==
  /\ At(d, "routed")
  /\ \/ /\ status[d] # "absent"
        /\ status' = [status EXCEPT ![d] = "running"]
        /\ url' = [url EXCEPT ![d] = addr[d]]
     \/ /\ status[d] = "absent" \/ "busy" \in Faults
        /\ UNCHANGED <<status, url>>
  /\ Goto(d, "recorded")
  /\ UNCHANGED <<server, projects, source, image, container, maps, proj, addr, del>>

\* After the UPDATE, whatever it did, the map gets the URL once more.
RefreshMap(d) ==
  /\ At(d, "recorded")
  /\ publicURLs' = IF addr[d] = NoURL THEN publicURLs
                   ELSE [publicURLs EXCEPT ![d] = addr[d]]
  /\ addr' = [addr EXCEPT ![d] = NoURL]
  /\ Goto(d, "returned")
  /\ UNCHANGED <<server, db, source, image, container, publicURLsNamed, internalPorts, proj, del>>

-----------------------------------------------------------------------------
\* DELETE /api/v1/deployments?id=d and POST .../rollback

\* docker rm -f d, whose error is ignored.
RemoveContainer(d) ==
  /\ up /\ "delete" \in Faults
  /\ stage[d] \notin Unborn
  /\ del[d] \in {"idle", "partial"}
  /\ \/ container' = [container EXCEPT ![d] = NoContainer]
     \/ "docker" \in Faults /\ container' = container
  /\ del' = [del EXCEPT ![d] = "removed"]
  /\ UNCHANGED <<server, db, source, image, maps, chain>>

DeleteRow(d) ==
  /\ up /\ del[d] = "removed"
  /\ \/ /\ status' = [status EXCEPT ![d] = "absent"]
        /\ url' = [url EXCEPT ![d] = NoURL]
     \/ "busy" \in Faults /\ UNCHANGED <<status, url>>
  /\ del' = [del EXCEPT ![d] = "unrowed"]
  /\ UNCHANGED <<server, projects, source, image, container, maps, chain>>

\* A deletion that left the row behind is "partial" from then on.
DeleteOutcome(d) == IF status[d] = "absent" THEN "idle" ELSE "partial"

\* The logs are gone by now (LogStream) and the maps forget the URL.  The
\* gateway's port stays.
DeleteFromMaps(d) ==
  /\ up /\ del[d] = "unrowed"
  /\ publicURLs' = [publicURLs EXCEPT ![d] = NoURL]
  /\ publicURLsNamed' = publicURLsNamed \ {d}
  /\ del' = [del EXCEPT ![d] = DeleteOutcome(d)]
  /\ UNCHANGED <<server, db, source, image, container, internalPorts, chain>>

\* A restarted container whose image exposes a port gets a free one anew.
RestartPorts(d) ==
  IF container[d].port = NoPort THEN {NoPort}
  ELSE FreePorts \cup (IF IsUp(d) THEN {container[d].port} ELSE {})

\* docker restart d.
Rollback(d) ==
  /\ up /\ "rollback" \in Faults
  /\ container[d].state # "none"
  /\ \E q \in RestartPorts(d) :
       container' = [container EXCEPT ![d] = [@ EXCEPT !.state = "up", !.port = q]]
  /\ UNCHANGED <<server, db, source, image, maps, chain, del>>

-----------------------------------------------------------------------------
\* The environment: containers end by themselves, the server stops and starts

ContainerExits(d) ==
  /\ "exit" \in Faults
  /\ IsUp(d)
  /\ container' = [container EXCEPT ![d].state = "exited"]
  /\ UNCHANGED <<server, db, source, image, maps, chain, del>>

\* Rows, objects, images and containers survive; goroutines and maps do not.
Stop ==
  /\ up /\ "stop" \in Faults
  /\ up' = FALSE
  /\ stage' = [d \in Deps |->
                 CASE stage[d] \in {"cloning", "verifying"} -> "rejected"
                   [] stage[d] \in InFlight                 -> "lost"
                   [] OTHER                                 -> stage[d]]
  /\ addr' = [d \in Deps |-> NoURL]
  /\ del' = [d \in Deps |-> IF del[d] = "idle" THEN "idle" ELSE DeleteOutcome(d)]
  /\ publicURLs' = [d \in Deps |-> NoURL]
  /\ publicURLsNamed' = {}
  /\ unread' = {}
  /\ internalPorts' = [p \in Projects |-> NoPort]
  /\ UNCHANGED <<db, source, image, container, proj>>

\* Mutant: only tunnels are restored.
RestorableTunnel(d) == status[d] = "running" /\ url[d].kind = "tunnel"

Restorable(d) == status[d] = "running" /\ url[d] # NoURL

\* main() again: the URL map is rebuilt from the rows, the gateway's is not.
\* When the SELECT fails, ends early or a row cannot be scanned, the error is
\* ignored and what was not read is missing from the map.
Start ==
  /\ ~up
  /\ up' = TRUE
  /\ unread' \in {{}} \cup (IF "busy" \in Faults THEN SUBSET {d \in Deps : Restorable(d)} ELSE {})
  /\ publicURLsNamed' = {d \in Deps : Restorable(d)} \ unread'
  /\ publicURLs' = [d \in Deps |-> IF d \in publicURLsNamed' THEN url[d] ELSE NoURL]
  /\ SeedProject
  /\ UNCHANGED <<status, url, source, image, container, internalPorts, chain, del>>

-----------------------------------------------------------------------------
\* What clients are told; these handlers change nothing

\* The port to which the gateway forwards p.zod.cloud, NoPort for a 404.
Gateway(p) == internalPorts[p]

\* The URL in the list of deployments: the row's, or else the map's.
Listed(d) == IF url[d] # NoURL THEN url[d] ELSE publicURLs[d]

\* The URL in the answer to a client that polls the status of d: a deployment
\* that runs without a URL is given the gateway's port of its project.
Polled(d) ==
  IF Listed(d) = NoURL /\ status[d] = "running" /\ Gateway(proj[d]) # NoPort
  THEN [kind |-> "local", port |-> Gateway(proj[d])]
  ELSE Listed(d)

-----------------------------------------------------------------------------
\* Next

Request(d) == \E p \in Projects : EnsureProject(d, p) \/ TriggerEdge(d, p) \/ Webhook(d, p)

\* The steps the chain of d takes by itself once a request started it.
Trigger(d) == CloneFails(d) \/ StoreClone(d) \/ CreateRow(d) \/ RejectTrigger(d)
              \/ PublishCreated(d)
Build(d)   == StartBuild(d) \/ FetchSource(d) \/ BuildFails(d) \/ CreateZipFails(d)
              \/ Unpack(d) \/ BuildImage(d) \/ PublishCompleted(d)
Deploy(d)  == StartDeploy(d) \/ RunContainer(d) \/ RunFails(d) \/ ReadPort(d)
              \/ OpenTunnel(d) \/ TunnelFails(d) \/ RecordRunning(d) \/ RefreshMap(d)
Work(d)    == Trigger(d) \/ Build(d) \/ Deploy(d)
Remove(d)  == DeleteRow(d) \/ DeleteFromMaps(d)

Next ==
  \/ \E p \in Projects : Upload(p)
  \/ \E d \in Deps : Request(d) \/ Work(d) \/ RemoveContainer(d) \/ Remove(d)
                     \/ Rollback(d) \/ ContainerExits(d)
  \/ Stop
  \/ Start

Spec == Init /\ [][Next]_vars

\* Steps without a time limit: git clone; the download of nixpacks, and nixpacks,
\* which blocks for good on a line its scanner gave up on (BuildOutput); and the
\* download of cloudflared, which precedes the 45 seconds of StartTunnel.
OutsideLimits(d) == stage[d] \in {"cloning", "nixpacks", "ported"}

\* Every goroutine that can move does, except in those steps.  Docker commands
\* and statements end.
FairSpec ==
  /\ Spec
  /\ \A d \in Deps : WF_vars(~OutsideLimits(d) /\ Work(d)) /\ WF_vars(Remove(d))

-----------------------------------------------------------------------------
\* Properties

TypeOK ==
  /\ up \in BOOLEAN
  /\ projects \subseteq Projects
  /\ status \in [Deps -> Statuses \cup {"absent"}]
  /\ url \in [Deps -> URLs]
  /\ source \subseteq Projects
  /\ image \in [Projects -> Deps \cup {NoDep}]
  /\ container \in [Deps -> Containers]
  /\ publicURLs \in [Deps -> URLs]
  /\ publicURLsNamed \subseteq Deps
  /\ internalPorts \in [Projects -> Ports \cup {NoPort}]
  /\ stage \in [Deps -> Stages]
  /\ proj \in [Deps -> Projects]
  /\ addr \in [Deps -> URLs]
  /\ del \in [Deps -> {"idle", "removed", "unrowed", "partial"}]
  /\ unread \subseteq Deps

\* The statuses a row may show while the chain of its deployment stands at s.
\* An ignored write error leaves any earlier status behind.
ShownAt(s) ==
  {"absent"} \cup
  CASE s \in Unborn                -> {}
    [] s \in {"stored", "created"} -> {"queued"}
    [] s \in Building  -> {"building"} \cup (IF "busy" \in Faults THEN {"queued"} ELSE {})
    [] s \in Deploying -> {"deploying"} \cup
                          (IF "busy" \in Faults THEN {"queued", "building"} ELSE {})
    [] s = "recorded"  -> {"running"} \cup
                          (IF "busy" \in Faults THEN {"queued", "building", "deploying"} ELSE {})
    [] s = "returned"  -> {"building", "deploying", "running", "failed"} \cup
                          (IF "busy" \in Faults THEN {"queued"} ELSE {})
    [] OTHER           -> {"queued", "building", "deploying", "running"}

\* The status a client polls agrees with where the work really stands: no row
\* says running before the deploy handler's last write, none says failed while
\* a handler still works, and a deployment that was never inserted has no row.
StatusMatchesStage == \A d \in Deps : status[d] \in ShownAt(stage[d])

\* A deployment reported failed never had a container started for it, and
\* none can be started by a later rollback.
FailedNeverRan == \A d \in Deps : status[d] = "failed" => container[d].state = "none"

\* Although the image tag is shared by all deployments of a project, a
\* container always runs an image built from its own project.
ImageOfOwnProject ==
  \A d \in Deps : container[d].state # "none" =>
    \E e \in Deps : container[d].image = e /\ proj[e] = proj[d]

\* A row that says running has its container (perhaps exited), unless a
\* deletion of it is under way or ended half way.
RunningHasContainer ==
  \A d \in Deps : status[d] = "running" /\ del[d] = "idle" => container[d].state # "none"

\* Whenever the server is up and no handler of d is between its two writes,
\* the in-memory URL of a running deployment is the one in its row, also after
\* a restart rebuilt the map.  Only a row the restart could not read (its errors
\* are ignored) may be without one; a wrong or an old URL is never there.
MapAgreesWithRow ==
  up => \A d \in Deps :
          status[d] = "running" /\ url[d] # NoURL /\ del[d] = "idle" /\ stage[d] # "recorded"
            => publicURLs[d] = url[d] \/ (d \in unread /\ publicURLs[d] = NoURL)

\* The phase a client can tell: a deployment without a row is absent before it
\* is accepted and gone afterwards.
Phase(d) ==
  IF status[d] # "absent" THEN status[d]
  ELSE IF stage[d] \in Unborn THEN "absent" ELSE "gone"

Lifecycle == INSTANCE DeploymentLifecycle
               WITH phase <- [d \in Deps |-> Phase(d)], Lossy <- ("busy" \in Faults)

\* Every step of the pipeline is a step forward of the deployment lifecycle, a
\* deletion, or invisible: no status is ever taken back, nothing follows
\* failed or running, and a late worker does not bring a deleted row back.
LifecycleSpec == Lifecycle!Spec

\* A deletion that has completed leaves nothing of the deployment running,
\* even when a worker was still building it (ZOD_CLOUD_ARCHITECTURE.md:99).
DeletedIsStopped ==
  \A d \in Deps : Phase(d) = "gone" /\ del[d] = "idle" => ~IsUp(d)

\* A deployment runs the image of its own build: it is one specific build and
\* run instance of a project (internal/domain/deployment.go:16).
RunsOwnBuild == \A d \in Deps : IsUp(d) => container[d].image = d

(* What follows holds while containers stay where they are: nobody deletes *)
(* or rolls back a deployment, and no container ends by itself.            *)

\* The gateway sends a project's requests to a running container of that
\* project, whatever the order in which its deployments finish.
GatewayServesProject ==
  \A p \in Projects : Gateway(p) # NoPort =>
    \E d \in Deps : proj[d] = p /\ IsUp(d) /\ container[d].port = Gateway(p)

\* Whatever the answer to a poll is made of (the row, the map while the row has
\* no URL yet, the gateway's port when there is none at all), the URL leads to
\* a running container of the project of that deployment.
PolledServesProject ==
  \A d \in Deps : Polled(d) # NoURL =>
    \E e \in Deps : proj[e] = proj[d] /\ IsUp(e) /\ container[e].port = Polled(d).port

\* The URL recorded for a deployment leads to that deployment's own container.
UrlLeadsHome ==
  \A d \in Deps : url[d] # NoURL => IsUp(d) /\ container[d].port = url[d].port

\* A deployment left behind in building or deploying by a handler that has
\* returned has no running container: what is up is also reported running (as
\* long as no write of a status fails; containers may end).
StuckHasNoContainer ==
  \A d \in Deps : stage[d] = "returned" /\ status[d] # "running" => ~IsUp(d)

\* Every accepted deployment is decided: its row becomes running or failed, its
\* handler gave up without telling, a stop of the server took it, or it hangs for
\* ever in nixpacks or a download.
QueuedIsDecided ==
  \A d \in Deps : status[d] = "queued" ~>
    \/ status[d] \in {"running", "failed"}
    \/ stage[d] = "lost" \/ (stage[d] = "returned" /\ ~IsUp(d))
    \/ []OutsideLimits(d)
=============================================================================
