# ZOD CLOUD: specifications and proofs

TLA+ for the standalone server of ZOD CLOUD (`src/ncloud-platform`): a
platform in one Go process that takes an archive or a push, builds a Docker
image with nixpacks, runs it, opens a Cloudflare tunnel to it, forwards
subdomains to it and streams its logs. Its hard parts are goroutines that
nobody waits for and that share a database, Docker, an image tag and three
maps. Paths below are relative to `src/ncloud-platform`; *main.go* is
`cmd/standalone/main.go`.

    cd tla
    tlc -workers 2 -config PipelineFaults.cfg MCPipeline.tla   # any run of the table below
    tlapm Pipeline_proofs.tla

`PROJECT.json` lists components, runs, mutants (changed definitions that break
each property), the lines each definition models, findings, hazards and
theorems.

## 1. The system

| Component | State | Operations | Talks to |
|---|---|---|---|
| Deployment requests: upload, trigger (core and edge), GitHub webhook (main.go 518-605, 815-909), `TriggerDeployment` (`internal/services/deployment_service.go`) | none of their own | put an archive, insert project and row, publish `deployments.created` | object store, SQLite, mesh bus |
| Mesh bus (`adapters/mesh/eventbus.go`), WebSocket bus (`adapters/websocket/eventbus.go`) | handlers per topic, the next id, a vector clock that is only logged | Subscribe, the function that unsubscribes, Publish, which starts a goroutine per handler and drops its result | workers |
| Build worker `handleDeploymentCreated` (main.go 1520-1703) | temporary directory, nixpacks child and its two pipes, `bin/nixpacks.exe` | fetch, unpack, download nixpacks, build, scan its output, tag, publish `builds.completed` | object store, Docker, rows, logs |
| Deploy worker (main.go 297-414) | local port and URL of one handler | docker run, docker port, tunnel, final UPDATE, map | Docker, tunnel, rows, maps |
| Deletion and rollback (main.go 611-652) | none | docker rm, two DELETEs, maps; docker restart | Docker, rows, maps |
| Gateway (main.go 1425-1455) and status endpoint (1468) | `publicURLs`, `publicURLsNamed`, `internalPorts` | look up a project's port, report a status | maps, rows |
| Restart (main.go 247-297) | - | rebuild `publicURLs` from the rows | rows |
| Log lines and SSE broker (main.go 93-178, 913-1045) | table logs, channels of 256 lines per topic | writeLog, Subscribe, Unsubscribe, Broadcast, stream, log page | every component writes lines |
| Tunnels (`adapters/tunnel/cloudflare.go`) | the binary's file, per call a child, a goroutine, two channels | EnsureBinary, StartTunnel | deploy worker |
| Web terminal (main.go 745-813) | per connection a shell in the container, its three pipes, three goroutines' places | carry typed messages to the shell and output to the client, wait for the shell, close | Docker, the client |
| SQLite repositories | rows | insert, update, read | all handlers |
| Object storage (`adapters/localdisk/storage.go`) | a `source.zip` per project | Put, which truncates in place, and Get | uploads, pushes, builds |
| API binary and five worker binaries (`api/cmd/api`, `worker/*`) | a bus or two each, in their own memory | subscribe, publish, unsubscribe when interrupted | nobody, see `EventBus` |
| Raft scheduler (`adapters/raft_scheduler`) | per node a table of deployments, its snapshots; the log is the library's | Deploy, Scale, Stop as log entries; Apply, Snapshot, Persist, Restore; start of a node | hashicorp/raft; no binary starts it |
| Database provisioning, other buses, CRUD endpoints, frontend | see section 6 | | |

Server, API binary and the five worker binaries each make a mesh bus of their
own, which delivers inside one process only: an event of the API binary reaches
no worker binary, and no event at all reaches the handlers of a worker binary.
The server contains all the workers it needs, so their work is modelled there.

**What is hard.** Every accepted deployment is a chain of three goroutines
(request, build, deploy) linked by events that are never repeated. The chains
of several deployments, deletions, rollbacks, containers that end, and a stop of
the process interleave at each access to shared state. Errors of status writes
are ignored, and so are most errors of writing, copying and unpacking files; three
early returns record nothing. Locks cover only single map accesses, the buses and the
broker. Files are shared by their names without any
lock: the archive of a project, the zip a push makes, the tools that are
downloaded when missing. The stream handler joins a database query with a live
channel. A build's handler waits for nixpacks while two goroutines read its
output, and either can be done first. StartTunnel leaves a child and a goroutine
behind that outlive it.

**What makes the parts correct.**

* *Pipeline*: statuses only move forward and agree with where the work stands;
  failed means nothing was started; running means there is a container; the URL
  in memory is the URL in the row, also after a restart, but for rows the restart
  could not read; a project's name leads to a container of that project; one project
  never runs another's image; every accepted deployment is decided, unless a stop
  takes it, or nixpacks or a download of a tool never ends.
* *Logs*: no send on a closed channel; lines of one goroutine stay in order; a
  live line is not shown twice; a subscriber that keeps up gets every line; the
  log page finds what the stream's history leaves out.
* *Buses*: an event reaches the handlers subscribed to its topic on its bus when
  it was published, each once, and nobody in another process.
* *Shared files*: a build works on a whole archive, the latest when it opened it,
  unless another handler's work on the file met it, an error was ignored on the way,
  or a stop of the server cut the writer off; and never on another project's.
* *Output of a build*: lines come into the log in order; what is lost is lost
  when cmd.Wait closes the pipes, or behind a line too long; the handler returns,
  unless nixpacks blocks behind such a line.
* *Tunnel*: the reader of cloudflared's output never blocks, and drains it up to a
  line too long for the scanner; a URL that was found is lost to nothing but the
  timeout, and is not turned into the error that the output ended; downloads of the
  binary over each other leave a whole one; the wait ends.
* *Terminal*: what the client sees of a stream is what the shell wrote, in order
  and without gaps, and all of it while the shell runs; a client that leaves, or a
  shell that ends, leaves no goroutine behind, if the commands in the shell end.
* *Raft scheduler*: every node's table is what the log says, whatever snapshots
  and restarts it went through; to its callers the whole is one table on which calls
  take effect one at a time.

The hazards, each at its line and with the properties aimed at it, are in
`PROJECT.json`.

## 2. Modules

| Module | Models |
|---|---|
| `DeploymentLifecycle` | the abstract specification: what a client that polls may see of a deployment. Absent, queued, building, then failed or deploying, running; gone after a deletion, and never back |
| `Pipeline` | requests, build worker, deploy worker, deletion, rollback, restart, bus, maps |
| `Pipeline_proofs` | the theorems about `Pipeline` |
| `SourceStore` | the files shared by name: archive, zip of a push, nixpacks; Put, Get, the build from fetch to the start of nixpacks |
| `SourceStore_proofs` | the theorems about `SourceStore` |
| `BuildOutput` | nixpacks, its two pipes, the goroutines that scan them, cmd.Wait |
| `BuildOutput_proofs` | the theorems about `BuildOutput` |
| `EventDelivery` | the abstract specification of a bus: who is reached by an event |
| `EventBus` | mesh and WebSocket bus, any number of each in any number of processes |
| `EventBus_proofs` | the theorems about `EventBus` |
| `Platform` | the processes of the repository, their buses, subscriptions and events |
| `LogStream` | writeLog, the SSE broker, the stream handler, the log page, deletion of lines |
| `LogStream_proofs` | the theorems about `LogStream` |
| `Tunnel` | EnsureBinary, StartTunnel, cloudflared and the goroutine that reads it |
| `Tunnel_proofs` | the theorems about `Tunnel` |
| `Terminal` | the handler of a web terminal, its goroutines and pipes, the shell, the client |
| `Terminal_proofs` | the theorems about `Terminal` |
| `ReplicatedTable` | the abstract specification of a replicated scheduler: one table, calls that take effect one at a time, and what a caller may conclude from its answer |
| `RaftScheduler` | applyCommand, the state machine, its snapshots and their restoration, over an external Raft |
| `RaftScheduler_proofs` | the theorems about `RaftScheduler` |
| `MCPipeline`, `MCSourceStore`, `MCEventBus`, `MCLogStream`, `MCTunnel`, `MCTerminal`, `MCRaftScheduler` | the instances TLC checks (`BuildOutput` needs none) |

`Pipeline` refines `DeploymentLifecycle`, `EventBus` refines `EventDelivery`,
`RaftScheduler` refines `ReplicatedTable`. The other components meet `Pipeline` where it
takes a step of theirs as one that happens or fails: `OpenTunnel` and `TunnelFails`
stand for a call of StartTunnel, `FetchSource` and `Unpack` for `SourceStore!Fetch` ..
`SourceStore!Extract`, `BuildImage` for the start of nixpacks there and its output in
`BuildOutput`. That an event starts exactly one handler in `Pipeline`, if the server
stays up, is what `EventDelivery` says for the subscriptions of `Platform`.

### Pipeline

`stage[d]` is where the chain of goroutines of deployment `d` stands; `proj[d]`
the project in its events; `addr[d]` the port and URL its deploy handler holds;
`del[d]` the place of a DELETE handler. `status` and `url` are columns of the
row ("absent" without row), `image[p]` is whose build the tag
`ncloud-project-<p>:latest` names, `container[d]` the container of that name,
`publicURLs`, `publicURLsNamed`, `internalPorts` the maps. A stretch of code
between two accesses to shared state is one action, so everything else can
happen between any two of them:

* request: `EnsureProject`, `TriggerEdge`, `Webhook`, `CloneFails`,
  `StoreClone`, then `CreateRow` or `RejectTrigger`, then `PublishCreated`;
* build: `StartBuild`, `FetchSource`, `Unpack`, `BuildImage`,
  `PublishCompleted`, with `BuildFails` for the early returns that set failed
  and `CreateZipFails` for the one that does not;
* deploy: `StartDeploy`, `RunContainer` or `RunFails`, `ReadPort`,
  `OpenTunnel` or `TunnelFails`, `RecordRunning`, `RefreshMap`;
* `RemoveContainer`, `DeleteRow`, `DeleteFromMaps`; `Rollback`;
* environment: `ContainerExits`, `Stop`, `Start`.

The constant `Faults` says which of deletion, rollback, exit, stop, "docker"
(docker rm fails, its error is ignored) and "busy" (a statement fails, the caller
ignores it) may happen. All other failures of docker, nixpacks, git and cloudflared
may always happen. `unread` is history: the rows the last `Start` did not get to read,
since the errors of its SELECT are ignored too; no guard reads it.

Abstractions. Ids are distinct (in the code they are timestamps in
nanoseconds). A project is one of the two the server seeds; clients may name
either. A URL is told apart by kind (tunnel, localhost) and port. Events other
than `deployments.created` and `builds.completed` have no subscriber in the
server and are left out. One DELETE per deployment runs at a time, and it may be
repeated when it ended with the row still there. A deployment can be deleted
once its row exists. The content of an archive is `SourceStore`'s; here reading
it, while it may be replaced, is a step (`Unpack`) that can fail.

### SourceStore

A handler is an upload, a push or a request for a build; `pc[h]` is its place and
`pos[h]` the next part of the file it copies. `store[p]` is the archive of a
project, `temp[p]` the zip a push makes, `tree[h]` the copy in the private
directory of a build. Parts are told apart by the handler they come from; the last
part is the zip's directory. `CreateObject` truncates in place, `PutPart` writes at
an offset of its own, so what two writers write at one time mixes. `WriteZip`, `OpenZip`,
`RemoveZip` are the push, whose file is named after the project alone; the error of
os.Open is ignored, and Put is then given nothing (`"blind"`). A build `Fetch`es,
copies part by part, and `Extract`s: a zip without its directory is an error; entries
may come out empty or cut short without one. `CheckTool` .. `RemoveToolzip` make sure
of `nixpacks.exe`. `Stop` ends the server in the middle of everything, and what the
handlers were writing stays as it is.

Any call on a file may fail. Where the code returns the error the handler ends
(`CreateObjectFails`, `Fetch`, `UnzipFails`); where it drops it the handler goes on
with what there is (`CreateZipFails`, a lost `WriteZip`, `CopyBreaks`, the lost
entries of `Extract`, `KeepToolzip`, `DownloadBreaks`, `WriteToolBreaks`). nixpacks is
downloaded for Windows, so files are modelled as Windows treats them: open files
cannot be removed, running programs not be overwritten.

`last`, `from` and `clash` are history, which no guard reads: who created the archive
last, and which handlers' work on a file met another's, had an error dropped, or was
cut off by a stop. The properties say what holds of all others: that nothing but these
spoils a file. The API binary's upload is the same code over the same
directory, so an upload of it is an upload here.

### BuildOutput

`pipe[s]`, `buf[s]`, `log[s]` hold the numbers of the lines of stream `s` that are in
the pipe, in bufio.Scanner's buffer, and logged. `Read` takes some whole lines and
perhaps the beginning of another (`half`). `long[s]` is the number of a line longer
than the scanner's 64 KB, if there is one: Scan then ends and nobody reads the pipe
(`TooLong`). cmd.Wait `Close`s the pipes once nixpacks has exited, without waiting
for the goroutines, one of which may then log a fragment (`ReadClosed`, `torn`). Nothing
orders the two goroutines, so the log is kept by stream.

### EventBus and Platform

`subscribers[b]` are the entries of a bus's map, by topic and id; `main[s]` says
whether the subscription `s` of a main function is in force. `PublishMesh` and
`PublishEdge` copy the handlers under the read lock (`left`); `Start` starts a
goroutine for one of them (`started`), `Call` is its call of the handler. A handler
may publish (`Cause`), in the middle of another publication. The mesh's clock is
counted but nothing reads it. `Exit` ends a process and all its buses hold. Whether
`main` subscribes its handlers in order makes no difference, so any order is allowed;
the server takes requests only afterwards (`MayPublish`). No process of the repository
subscribes or unsubscribes on a topic while it publishes there, so that race is not in
the instance.

`Platform` is the table of the repository's processes, buses, subscriptions and
events, those nobody hears included (`DeployPubs`); its assumption
`WorkersHearNothing`, which TLC evaluates, says that no event is published on a bus a
worker binary subscribed to. The worker binaries' handlers are therefore dead code and
not modelled.

### LogStream

A line is named by the rank of its timestamp. `Stamp`, `Insert`, `Broadcast`,
`Send` (to one channel after the other, the read lock held) and `Return` are
writeLog. `Connect`, `Backfill`, `Subscribe`, `Receive`, `HangUp` and
`Unsubscribe` are the handler. `seen[s]` is what client `s` was sent. Subscribe
and Unsubscribe wait for the write lock (`Unlocked`). `DeleteLogs` is the
DELETE handler's third statement. Timestamps are distinct, so rows read
`ORDER BY timestamp` have one order, `Chronological` (the driver's text of a UTC
time sorts as the time does). Heartbeats have no effect and are left out.
`Queried` is what GET /api/v1/logs answers with: there the filters are part of
the query, while the stream's `History` applies its type filter after the limit.

### Tunnel

`file` is the set of parts the binary's file holds, `{0}` when there is none;
os.Create empties it, each download writes at its own place, a partial file
counts as there. `scanner[c]` is the goroutine; a send on a full channel makes
it "blocked". Calls share only the file. cloudflared may say a URL or nothing,
and end or run on; a line too long for the scanner ends the goroutine as an end
of the output does (`ScanEnds`). Which binary can be executed follows the
platform's rule: only one that is whole and that nobody is writing. A download
that fails (`CopyFails`) leaves what it has written; `BinaryIsWhole` says that
nothing else does while the server runs (a stop in the middle of a download leaves a
fragment as well). The timer ends the select whether or not a URL lies in the channel
(`Timeout`), and is an error for the caller; what `UrlLostOnlyToTimeout` excludes is
that a URL gets lost in any other way, or that the end of the output is reported in its
place.

### Terminal

`pipe[s]` and `stdin` are the pipes between server and shell, of capacity `Cap`.
`input` is the place of the goroutine that reads the connection, `output[s]` and
`hand[s]` the place of that of stream `s` and the chunk it holds. `Wait` is
cmd.Wait, which closes the pipes with whatever is in them; the reads of the
output goroutines may therefore end early (`ReadOutputEnds`). The handler and the
output goroutines write to one connection without a lock, which gorilla/websocket
does not support: a write begun during another may go well, garble both, or
panic. In a goroutine of its own a panic ends the server (`wire`, `Alive`); one of the
handler's own write is recovered by net/http and ends the handler (`HandlerPanics`).
The properties say what holds short of that.

### RaftScheduler

hashicorp/raft is external. It is one committed `log`, entries that are written
but not committed (`pending`), one node that can commit (`leader`), and nodes that
still believe they lead (`believes`). Entries commit in the order they were
written; those of a deposed leader may still commit or be overwritten (`Discard`).
What the package adds is modelled whole. A call checks the state of its node
(`Ask`), hands its entry over (`Enqueue`), and waits without a limit: the 5
seconds it passes to Apply bound the hand-over alone. `Applied` is FSM.Apply,
`Snapshot` the clone under the lock, `Persist` its writing while further entries
are applied, `InstallSnapshot` and `Restart` the two ways to Restore.
`Said(d, k)` is the reference the tables are compared with: what the first `k`
entries say of deployment `d`, told from the last DEPLOY or STOP and the last
entry about it, without a fold.

`Table` maps all of it to `ReplicatedTable`: `order` is the log, the table after
`i` effects is what the first `i` entries say, a node shows what it has applied.
A call takes effect when its entry is committed; it succeeds when its own node
applies it (`Succeed`); an error of the future is an answer from which nothing
follows (`Disown`), since the entry may be committed later; an error before the
hand-over means that it never takes effect (`Refuse`).

## 3. Runs

| Run | Instance | Shows |
|---|---|---|
| pipeline_faults | 1 deployment, 2 projects, 2 ports, all faults; about 19,000 states | `TypeOK`, `StatusMatchesStage`, `RunningHasContainer`, `MapAgreesWithRow`, and `LifecycleSpec`: the pipeline implements `DeploymentLifecycle` |
| pipeline_fair | 2 deployments, 2 ports, a server that stops and starts, fairness; about 46,000 states | `GatewayServesProject`, `UrlLeadsHome`, `PolledServesProject`, `StuckHasNoContainer`, `ImageOfOwnProject`, `QueuedIsDecided` |
| source_store | 2 handlers of any kind, 2 projects, archives of 3 and 2 parts, any call may fail, a server that stops, symmetry; about 4,530,000 states | `TypeOK`, `ArchiveIsLastPut`, `BuildsWhatWasStored`, `BuildsOwnProject`, `ToolIsWhole` |
| build_output | pipes of 2 lines, up to 3 lines per stream, an overlong one anywhere; about 70,000 states | `TypeOK`, `OutputAccounted`, `BuildReturns` |
| event_bus | server, API binary and build worker with their 5 buses, 4 subscriptions and their events; about 97,000 states | `TypeOK`, `DeliverySpec` (`EventBus` implements `EventDelivery`), `Delivered` |
| log_stream | writers build and metrics, 1 stream, 3 lines, channel of 2, backfill of 2, INSERTs may fail; about 432,000 states | `TypeOK`, `NoSendOnClosed`, `WriterOrder`, `LiveOnce`, `QueryCoversHistory`, `Streamed` |
| tunnel | 3 calls, binary of 2 parts; about 122,000 states | `ScannerNeverBlocks`, `UrlLostOnlyToTimeout`, `BinaryIsWhole`, `AnswersInTime` |
| terminal | stdout with 3 chunks and stderr with 1, pipes of 1, 2 typed messages; about 152,000 states | `TypeOK`, `OutputKept`, `LeavingEnds`, `ExitEnds` |
| raft_scheduler | 2 nodes, 2 calls, 1 deployment, 2 images, 2 counts, symmetry; about 309,000 states | `TypeOK`, `StateIsReplay`, `TableSpec` (`RaftScheduler` implements `ReplicatedTable`) |

Bounds. One deployment meets every pair of an own step and a fault; two are the least
that share a project, an image tag or a gateway entry, and no action involves three.
Two ports let a restarted container come back elsewhere. What two deployments do under
faults is proved, not checked. In source_store two handlers are what meets on a file;
sizes 3 and 2 let a shorter archive follow a longer one, and a part of each be a file
entry; the projects are interchangeable, hence the symmetry. In build_output three
lines fill a pipe and leave one to block on. In event_bus the server publishes from a
request and from a handler, the API binary publishes what the server subscribes to,
and the build worker subscribes to what both publish and unsubscribes; the other
workers are like it. In log_stream the channel can be full, the table can hold more
lines than the backfill, and the stream can follow d1 or all, with or without a type.
Two parts let a download be half done, and three calls let one start the binary while
two download it over each other. In terminal three chunks of one stream are what it
takes to block the shell while nobody reads: one in the goroutine's hands, one in the
pipe, one to write. In raft_scheduler two nodes are a leader and one that lags or led
before (the quorum is the library's), and two calls are DEPLOY followed by DEPLOY,
SCALE or STOP, in either order; what longer logs say is proved. The symmetry of nodes,
calls, images and counts is sound there, since `TableSpec` states no fairness and
nothing chooses between them. `CHECK_DEADLOCK FALSE` stands where all calls, lines or
deployments of the instance can be used up, and where a server that panicked does
nothing more.

`GatewayServesProject`, `UrlLeadsHome`, `PolledServesProject` and
`StuckHasNoContainer` are checked with `Faults = {"stop"}` and proved for somewhat
more (section 5): the code keeps them only while nobody deletes. After a deletion
`internalPorts` still names the port of the container that is gone (hazard
main.go:643). A container that ends, or comes back on another port after a rollback,
takes URLs with it that nobody corrects; and where writes of a status fail, a
container may run whose row was never told.

**Disagreements with the repository's own words** (TLC's trace is the evidence):

| Run | Violated | What happens |
|---|---|---|
| pipeline_delete | `DeletedIsStopped` | a deployment deleted while building starts its container later; the architecture document says the build is cancelled |
| pipeline_image | `RunsOwnBuild` | two deployments of a project share a tag, and one runs the other's build |
| log_stream_seam | `NothingMissed` | a line stored after the backfill and broadcast before Subscribe never reaches the client |
| build_output, with `INVARIANT EveryLineLogged` in place of its own | `EveryLineLogged` | nixpacks writes a line and exits, cmd.Wait closes the pipe with the line in it, and the goroutine finds the pipe closed: the line is never logged. Nor are lines behind one longer than 64 KB. `ZOD_CLOUD_ARCHITECTURE.md:63` says "For every line, it calls `writeLog()`" |

The last of them is why `OutputAccounted` is weaker than the document: it states which
lines this code may lose, and that it loses no others. The run as it stands in
`BuildOutput.cfg` passes, and must not be read as saying that every line is logged.

## 4. Fairness

* `Pipeline!FairSpec`: weak fairness of the chain of each deployment, and of a
  DELETE under way, except where the chain is in a call without a limit
  (`OutsideLimits`): git clone; the step that downloads and runs nixpacks, which has no
  timeout and whose nixpacks blocks for good behind an overlong line (`BuildOutput`);
  and the call of StartTunnel, whose wait ends (`AnswersInTime`) but may be preceded by
  a download of cloudflared without a timeout. Everywhere else Go runs the goroutine,
  and docker commands and statements end. Clients, faults and Stop get none.
* `SourceStore` has safety only: of a build neither the download of nixpacks nor
  nixpacks need end.
* `BuildOutput!FairSpec`: weak fairness of nixpacks, of each goroutine and of Wait.
  nixpacks goes on when its writes do and ends when it has nothing to write. The
  bound on its lines stands for that.
* `EventBus!FairSpec`: weak fairness of each goroutine a publication starts or is to
  start. Nobody need subscribe, publish or exit.
* `LogStream!FairSpec`: weak fairness of each writeLog under way and each
  handler. Sends do not block and lock holders finish. Nobody need connect,
  leave, or write a line.
* `Tunnel!FairSpec`: weak fairness of the select that waits, whose timer always
  fires. Nothing of the download, cloudflared or the goroutine.
* `Terminal!FairSpec`: weak fairness of the handler, of each goroutine, and of a
  shell that can read, finish a blocked write, or end at the end of its input.
  A client that is there takes what it is sent. The shell need neither write nor
  exit of its own accord, and no client need leave. A command that neither ends
  nor reads its input (`tail -f`) is outside this: the code has no means to end
  it, so a terminal left during one stays.
* `RaftScheduler` has safety only: that entries get committed is the library's
  promise, not this package's.

## 5. Proofs

All theorems hold for every value of the constants, from the named assumption of
each module only (`PipelineAssumption`, `SourceStoreAssumption`,
`BuildOutputAssumption`, `EventBusAssumption`, `LogStreamAssumption`,
`TerminalAssumption`, `TunnelAssumption`, `RaftAssumption`), and for some faults only
where the table says so.

| Module | Theorem | Statement |
|---|---|---|
| `Pipeline_proofs` | `Inductive` | `Spec => []IInv` |
| | `TypeCorrect`, `StatusCorrect`, `FailedCorrect`, `ImageCorrect`, `RunningCorrect`, `MapCorrect` | `[]` of `TypeOK`, `StatusMatchesStage`, `FailedNeverRan`, `ImageOfOwnProject`, `RunningHasContainer`, `MapAgreesWithRow` |
| | `Refinement` | `Spec => LifecycleSpec` |
| | `RowsKept` | `Spec => []Kept`, if nobody deletes (`"delete" \notin Faults`) |
| | `HomeInductive` | `Spec => []HomeInv`, if the server may stop and statements fail, but nobody deletes or rolls back and no container ends (`Faults \subseteq {"stop", "busy"}`) |
| | `UrlCorrect`, `GatewayCorrect`, `PolledCorrect` | `[]` of `UrlLeadsHome`, `GatewayServesProject`, `PolledServesProject`, for the same faults |
| | `StuckCorrect` | `[]` of `StuckHasNoContainer`, if the server may stop and containers end (`Faults \subseteq {"stop", "exit"}`) |
| `SourceStore_proofs` | `Inductive` | `Spec => []IInv` |
| | `TypeCorrect`, `ArchiveCorrect`, `BuildCorrect`, `ProjectsApart`, `ToolCorrect` | `[]` of `TypeOK`, `ArchiveIsLastPut`, `BuildsWhatWasStored`, `BuildsOwnProject`, `ToolIsWhole` |
| `BuildOutput_proofs` | `Inductive` | `Spec => []IInv` |
| | `TypeCorrect`, `OutputCorrect` | `[]` of `TypeOK`, `OutputAccounted` |
| | `NeverStuck` | `Spec => [](SomebodyReady \/ OverOrAbandoned)` |
| `EventBus_proofs` | `Inductive` | `Spec => []IInv` |
| | `TypeCorrect`, `Refinement` | `Spec => []TypeOK`, `Spec => DeliverySpec` |
| `LogStream_proofs` | `BrokerCorrect` | `Spec => []BrokerInv` |
| | `ClosedIsQuiet` | `Spec => []NoSendOnClosed` |
| | `FlowCorrect` | `Spec => []FlowInv` |
| | `TypeCorrect`, `OrderCorrect`, `OnceCorrect`, `QueryCorrect` | `[]` of `TypeOK`, `WriterOrder`, `LiveOnce`, `QueryCoversHistory` |
| `RaftScheduler_proofs` | `Inductive` | `Spec => []IInv` |
| | `TypeCorrect`, `ReplicasCorrect`, `AnswersCorrect` | `[]` of `TypeOK`, `StateIsReplay`, `AnswerMeansLogged` |
| | `Refinement` | `Spec => TableSpec` |
| `Terminal_proofs` | `Inductive` | `Spec => []IInv` |
| | `TypeCorrect`, `OutputCorrect` | `[]` of `TypeOK`, `OutputKept` |
| | `NeverStuck` | `Spec => [](client = "left" \/ shell = "exited" => Ended \/ SomebodyReady)` |
| `Tunnel_proofs` | `Inductive` | `Spec => []IInv` |
| | `TypeCorrect`, `ScannerFree`, `UrlKept`, `BinaryCorrect` | `[]` of `TypeOK`, `ScannerNeverBlocks`, `UrlLostOnlyToTimeout`, `BinaryIsWhole` |

**Pipeline.** None of the invariants but typing is inductive alone, and `IInv`
adds what they rest on:

* `ContainerNeedsDeploy`: only the deploy handler of `d` makes its container.
  With `StatusMatchesStage` this gives `FailedNeverRan`, since failed is set
  only before that handler starts.
* `ImageKnown`: a tag, and the image of a container, were built by an accepted
  deployment of the project, and a deploy handler finds the tag set. The tag may
  move between build and docker run; it never leaves the project.
* `StartedHasContainer`: past docker run a handler has its container unless a
  DELETE came between. This makes the final UPDATE safe for
  `RunningHasContainer`.
* `RecordedURL`: between its two writes the handler holds the URL of the row,
  so `RefreshMap` makes map and row agree again (`MapAgreesWithRow`).

Each conjunct has a lemma for a step (`TypeStep`, `StatusStep`,
`ContainerStep`, `ImageStep`, `RunningStep`, `MapStep`) with one case per group
of actions that can disturb it; `StepIInv` combines them. `Stop` and `Start`
change whole functions and have lemmas of their own. `Refinement` follows from
`LifecycleStep`: under `IInv` each action either leaves every phase alone
(`PhaseStays`) or moves one (`PhaseMoves`) along `Successors`.

Where the requests for a project go is a second argument, for a platform on which
containers stay where they are. `Kept`: while nobody deletes, an accepted deployment
keeps its row, so no status write goes into the void; that alone needs the absence of
deletions only. `HomeInv` is inductive with it: a handler past docker run holds the
port of its own container (`HoldsOwnPort`), so row, URL map and gateway are only ever
given ports that lead home (`UrlLeadsHome`, `MapLeadsHome`, `GatewayServesProject`),
and `UpStays` says that nothing moves a container afterwards. A stop loses the maps
and the handlers, and `Start` rebuilds the map from rows whose URLs lead home. A
failing statement keeps an old URL out of the row, never puts a wrong one in.
`PolledServesProject` follows, by the three places an answer can come from, also after
a start that read only some of the rows. `StuckCorrect` needs other hypotheses:
containers may end, but a status write that fails leaves a container up whose row says
deploying.

**SourceStore.** No lock orders the writers, so the invariant is about who else is
there. `ZipAlone`, `PutAlone`, `CopyAlone` and `ToolAlone` say that a handler which is
not in `clash` has the file to itself; `ZipIsPrefix`, `StoreIsPrefix`, `TreeIsPrefix`
say that such a file then holds the first parts of what its one writer writes, up to
its position. Whoever drops an error or is cut off by a stop is in `clash` as well
(`StopIInv`), and nothing is claimed of it any more. `ZipAlone` says only that nobody
else writes the zip: a push that could not create one may still open, and remove, the
zip of another. When the writer is done the prefix is the whole, which is
`ArchiveIsLastPut` and `BuildsWhatWasStored`. `PartsAtHome` needs none of this: parts
travel only between files named after the same project.

**BuildOutput.** `Intact` says that log, scanner and pipe of a stream concatenate to
the lines written; each step appends at one end (`AppendToLast`), moves the head of
one part to the end of another (`HeadMoves`) or splits the pipe (`SplitRead`).
`Abandoned` is why a goroutine that left an open pipe left it: without it a write to
a pipe nobody reads would not be accounted for. `NeverStuck` excludes a circle of
waits by the same invariant: nixpacks is held up only by a full pipe, the pipe is
open (`PipesOpen`), and so its goroutine can read it, unless it left for an overlong
line.

**EventBus.** Ids are unique below `nextID`, so unsubscribing takes the caller's own
entry out of the map and no other; a goroutine to be started or called belongs to a
publication that has not called that handler. With these each action maps to one
action of `EventDelivery`, and `Start`, which moves a handler within `Due`, to a
stutter.

**LogStream.** `NoSendOnClosed` speaks of channels that are closed; its reason
is about those that are not. `BrokerInv` says that every channel in a list
belongs to a handler that listens, is listed once (`Listed`), and that a
broadcast has channels left only while it holds the read lock and their handlers
still listen (`Sending`). Unsubscribe waits for the lock, so no broadcast has
anything left to send when it removes the channel (`RemoveAtOne`), and no list
holds it afterwards.

`FlowInv` adds what a client is sent. History, lines received and lines still in the
channel are one sequence, `Trail(s)`, and the part after the history is `Live(s)`:
`Receive` moves the border within them (`Moved`) or drops a line (`Dropped`), and
only `Send` appends (`Appended`). It appends the newest line of its writer
(`OwnNewest`), hence `WriterOrder`. `Counted` adds to the times a line occurs in
`Live(s)` the sends its broadcast has still to make; a broadcast starts with at most
one, or two on "all" (`RecipientsCounted`), and a `Send` only moves one over, hence
`LiveOnce`. Occurrences are cardinalities of sets of positions, with lemmas for
concatenation, head and tail (`OccursConcat`, `OccursTail`). `QueryCoversHistory` is
no matter of steps: a line among the newest of a set of rows is among the newest of
a subset (`NewestOfSubset`).

**RaftScheduler.** A node's table is the fold of the entries it has applied,
`Said` the same without the fold. `SaidStep` is the heart: applying entry k + 1
to a table that holds what the first k entries say of `d` gives what the first
k + 1 say; a SCALE of an absent deployment changes neither. `SaidStays`: what a
prefix says never changes, since entries are only appended and a call's command
is set before its entry exists (`Entered`). So a snapshot stays faithful however
late it is written or installed (`SnapshotsReplay`). `Once` and `OkLogged` give
`AnswerMeansLogged`: no call has two entries, in the log or pending.

`Refinement` maps every step to one of `ReplicatedTable`, with a lemma per group of
actions. `Commit` is the interesting one: the table after one more effect is
the effect on the table before (`EffectIsApplied`, `SaidFollows`), and those of all
earlier prefixes are unchanged. An `Apply` is a `Succeed` for the caller
whose entry it is and an `Advance` otherwise; `InstallSnapshot` is an `Advance` since a
snapshot is sent only to a node that has applied less; `Restart` is a `Crash`, since a
stored snapshot is no newer than what its node has applied (`Behind`, the one thing
`IInv` did not say).

**Tunnel.** `SendsOnce` follows the life of the goroutine of one call: before it
starts nothing was sent; while it scans nothing but perhaps the URL was; and the
error is sent only on its last step and only without a URL. So each channel is
sent to at most once and has room. `BinaryCorrect` is about the downloads: the
file always holds all that one of them, the last to create it, has written
(`Backed`), and that one is still writing, has failed or has written everything. So
the file is whole once none writes, unless one broke.

**Terminal.** `Accounted` is the second half of `OutputKept` from the start on, and
`Screen` the first half with what a goroutine still holds. They are inductive with
`HandsFree`, without which a Read would overwrite what a goroutine still holds,
and `Order`: the connection is open until the handler returns, so what is sent to a
client that is there arrives. A Read is where the halves meet: until Wait what
screen, hand and pipe hold is all that was written, hence the first two are a
beginning of it (`BeginningOfNumbers`). `NeverStuck` adds `Phases`, which says for what
reason each goroutine is at its end: a shell at a full pipe has a goroutine that
reads it, a goroutine at a full stdin has a shell that reads, and after Wait every
read and write returns.

Only model-checked: liveness (`QueuedIsDecided`, `BuildReturns`, `Delivered`,
`Streamed`, `AnswersInTime`, `LeavingEnds`, `ExitEnds`), which the prover does not
reach. The two `NeverStuck` are as near as a proof comes here: they state with the
guards of the steps, instead of ENABLED, that somebody can always go on; that the
steps taken come to an end is left to TLC. Every invariant and action property of the
passing runs is a theorem.

## 6. Not modelled

* *The gateway's port after a deletion or restart.* `Pipeline` has every write of
  `internalPorts`; no property says more of it under faults than that it is a port,
  since the code promises nothing more.
* *Equal timestamps.* Ids of deployments and timestamps of lines are nanoseconds and
  taken to be distinct. With equal timestamps the order of two rows is up to SQLite.
* *Handlers of the worker binaries*, which no event reaches (`WorkersHearNothing`),
  and the repositories of the API binary, whose rows nobody reads.
* *NATS and in-memory buses*, used by no binary. The second is the algorithm of the
  WebSocket bus; the first leaves delivery to JetStream, so that a model of it would
  be a model of the library.
* *Database provisioning.* Its handler runs a container and then updates a row that
  no handler of the server inserts, so nothing the program reads changes.
* *Postgres, Spanner, Cockroach, Kubernetes and Cilium adapters*: single statements or
  calls that the standalone server does not use.
* *CRUD endpoints* for billing, payment methods, environment variables, teams, domains
  and the query console: one statement each, without interplay.
* `storage.Delete` and the updates and deletions of the edge repository, which nobody
  calls; `WorkerManager`, which only logs; reads that keep no state; the dashboard; and
  everything about authentication.

Worth adding next: `LogStream` and the ids of `Pipeline` with a clock that can show the
same time twice.
