---------------------------- MODULE RaftScheduler ----------------------------
(***************************************************************************)
(* adapters/raft_scheduler: a scheduler whose table of deployments is      *)
(* replicated by hashicorp/raft.  A call is turned into a log entry, waits *)
(* for the entry to be committed and applied on its node, and returns.     *)
(*                                                                         *)
(* The library is external: it is modelled as one committed log, entries   *)
(* that may or may not be committed yet, and nodes that apply the log at   *)
(* their own pace, fall behind, crash, and catch up from snapshots.        *)
(* What the package adds is modelled whole: the call, the state machine,   *)
(* its snapshots, their restoration, and the start of a node.              *)
(***************************************************************************)
EXTENDS Integers, Sequences, FiniteSets, SequencesExt

CONSTANTS
  Nodes, NoNode,
  Calls,        \* calls of Deploy, Scale and Stop
  Deployments, Images, Counts,
  None          \* no spec, no snapshot, no command

ASSUME RaftAssumption ==
  /\ NoNode \notin Nodes
  /\ None \notin [image : Images, replicas : Counts]

VARIABLES
  log,       \* the committed entries, each the call that wrote it
  pending,   \* entries in some node's log that may still be committed
  leader,    \* the node that can commit entries
  believes,  \* nodes whose State() is Leader; a deposed one learns it late
  applied,   \* how many entries a node has applied
  fsm,       \* SchedulerFSM.deployments of a node
  taken,     \* the snapshot a node is writing
  stored,    \* the snapshot in a node's file store, which retains one
  stage, node, command  \* where a call stands, on which node, with what

raft == <<log, pending, leader, believes>>
snap == <<taken, stored>>
call == <<stage, node, command>>
vars == <<raft, applied, fsm, snap, call>>

\* DeploymentSpec, of which Scale changes the replicas alone.
Specs  == [image : Images, replicas : Counts]
Tables == [Deployments -> Specs \cup {None}]

\* LogPayload.
Commands ==
  [op : {"DEPLOY"}, id : Deployments, spec : Specs]
    \cup [op : {"SCALE"}, id : Deployments, replicas : Counts]
    \cup [op : {"STOP"}, id : Deployments]

\* NewSchedulerFSM.
NewFSM == [d \in Deployments |-> None]

Init ==
  /\ log = <<>> /\ pending = <<>>
  /\ leader = NoNode /\ believes = {}
  /\ applied = [n \in Nodes |-> 0]
  /\ fsm = [n \in Nodes |-> NewFSM]
  /\ taken = [n \in Nodes |-> None]
  /\ stored = [n \in Nodes |-> None]
  /\ stage = [c \in Calls |-> "idle"]
  /\ node = [c \in Calls |-> NoNode]
  /\ command = [c \in Calls |-> None]

InLog(c)   == \E i \in DOMAIN log : log[i] = c
Pending(c) == \E i \in DOMAIN pending : pending[i] = c

-----------------------------------------------------------------------------
\* applyCommand

\* The first check; a deposed leader that does not know it passes.
Ask(c, n) ==
  /\ stage[c] = "idle"
  /\ n \in believes
  /\ node' = [node EXCEPT ![c] = n]
  /\ stage' = [stage EXCEPT ![c] = "asked"]
  /\ UNCHANGED <<raft, applied, fsm, snap, command>>

AskRefused(c) ==
  /\ stage[c] = "idle"
  /\ believes # Nodes
  /\ stage' = [stage EXCEPT ![c] = "refused"]
  /\ UNCHANGED <<raft, applied, fsm, snap, node, command>>

\* Mutant: the future of the entry is not waited for.
EnqueueUnawaited(c, k) ==
  /\ stage[c] = "asked"
  /\ node[c] \in believes
  /\ command' = [command EXCEPT ![c] = k]
  /\ pending' = Append(pending, c)
  /\ stage' = [stage EXCEPT ![c] = "ok"]
  /\ UNCHANGED <<log, leader, believes, applied, fsm, snap, node>>

\* raftNode.Apply hands the entry to a node that still believes it leads, and
\* the call waits without a limit: the 5 seconds are those of the hand-over.
Enqueue(c, k) ==
  /\ stage[c] = "asked"
  /\ node[c] \in believes
  /\ command' = [command EXCEPT ![c] = k]
  /\ pending' = Append(pending, c)
  /\ stage' = [stage EXCEPT ![c] = "waiting"]
  /\ UNCHANGED <<log, leader, believes, applied, fsm, snap, node>>

\* ErrEnqueueTimeout, or ErrNotLeader from a node deposed since the check.
EnqueueFails(c) ==
  /\ stage[c] = "asked"
  /\ stage' = [stage EXCEPT ![c] = "refused"]
  /\ UNCHANGED <<raft, applied, fsm, snap, node, command>>

-----------------------------------------------------------------------------
\* The library

\* A node that led before has stepped down before it is elected again.
Elect(n) ==
  /\ n \notin believes
  /\ leader' = n
  /\ believes' = believes \cup {n}
  /\ UNCHANGED <<log, pending, applied, fsm, snap, call>>

\* Entries are committed in the order they were written, those of a deposed
\* leader too if they had reached its successor.
Commit ==
  /\ leader # NoNode /\ pending # <<>>
  /\ log' = Append(log, Head(pending))
  /\ pending' = Tail(pending)
  /\ UNCHANGED <<leader, believes, applied, fsm, snap, call>>

\* An entry of a deposed leader is overwritten.
Discard(i) ==
  /\ node[pending[i]] # leader
  /\ pending' = RemoveAt(pending, i)
  /\ UNCHANGED <<log, leader, believes, applied, fsm, snap, call>>

\* A node learns that it leads no more.  Its calls that wait for a commit are
\* answered ErrLeadershipLost; for others the commit is already on its way.
StepDown(n) ==
  /\ n \in believes
  /\ believes' = believes \ {n}
  /\ leader' = IF leader = n THEN NoNode ELSE leader
  /\ \E L \in SUBSET {c \in Calls : stage[c] = "waiting" /\ node[c] = n} :
       /\ {c \in Calls : Pending(c) /\ node[c] = n /\ stage[c] = "waiting"} \subseteq L
       /\ stage' = [c \in Calls |-> IF c \in L THEN "lost" ELSE stage[c]]
  /\ UNCHANGED <<log, pending, applied, fsm, snap, node, command>>

-----------------------------------------------------------------------------
\* SchedulerFSM

\* Mutant: SCALE does not look whether the deployment exists.
AppliedUnchecked(t, k) ==
  CASE k.op = "DEPLOY" -> [t EXCEPT ![k.id] = k.spec]
    [] k.op = "SCALE"  -> [t EXCEPT ![k.id] =
                             [image |-> IF @ = None THEN None ELSE @.image,
                              replicas |-> k.replicas]]
    [] k.op = "STOP"   -> [t EXCEPT ![k.id] = None]

\* Apply.  SCALE of a deployment that is not there is logged, not an error.
Applied(t, k) ==
  CASE k.op = "DEPLOY" -> [t EXCEPT ![k.id] = k.spec]
    [] k.op = "SCALE"  -> IF t[k.id] = None THEN t
                          ELSE [t EXCEPT ![k.id].replicas = k.replicas]
    [] k.op = "STOP"   -> [t EXCEPT ![k.id] = None]

\* A node applies its next entry, and answers the call if it is its own.
Apply(n) ==
  /\ applied[n] < Len(log)
  /\ LET c == log[applied[n] + 1]
     IN  /\ fsm' = [fsm EXCEPT ![n] = Applied(@, command[c])]
         /\ stage' = IF node[c] = n /\ stage[c] = "waiting"
                     THEN [stage EXCEPT ![c] = "ok"] ELSE stage
  /\ applied' = [applied EXCEPT ![n] = @ + 1]
  /\ UNCHANGED <<raft, snap, node, command>>

\* Snapshot clones the table under the lock, between two entries.
Snapshot(n) ==
  /\ taken[n] = None
  /\ applied[n] > IF stored[n] = None THEN 0 ELSE stored[n].index
  /\ taken' = [taken EXCEPT ![n] = [index |-> applied[n], table |-> fsm[n]]]
  /\ UNCHANGED <<raft, applied, fsm, stored, call>>

\* Mutant: the snapshot holds the table itself, not a clone.
PersistAliased(n) ==
  /\ taken[n] # None
  /\ stored' = [stored EXCEPT ![n] = [taken[n] EXCEPT !.table = fsm[n]]]
  /\ taken' = [taken EXCEPT ![n] = None]
  /\ UNCHANGED <<raft, applied, fsm, call>>

\* Persist writes the clone while further entries are applied.  A snapshot
\* that arrived meanwhile and is newer stays the one the node keeps.
Persist(n) ==
  /\ taken[n] # None
  /\ stored' = IF stored[n] # None /\ stored[n].index > taken[n].index THEN stored
               ELSE [stored EXCEPT ![n] = taken[n]]
  /\ taken' = [taken EXCEPT ![n] = None]
  /\ UNCHANGED <<raft, applied, fsm, call>>

\* Encoding or writing fails and the sink is cancelled.
PersistFails(n) ==
  /\ taken[n] # None
  /\ taken' = [taken EXCEPT ![n] = None]
  /\ UNCHANGED <<raft, applied, fsm, stored, call>>

\* Restore replaces the table by the decoded one.
Restored(t, s) == s

\* The leader sends its snapshot to a node that is far behind.
InstallSnapshot(n, m) ==
  /\ m = leader /\ n # m /\ n \notin believes
  /\ stored[m] # None /\ stored[m].index > applied[n]
  /\ fsm' = [fsm EXCEPT ![n] = Restored(@, stored[m].table)]
  /\ applied' = [applied EXCEPT ![n] = stored[m].index]
  /\ stored' = [stored EXCEPT ![n] = stored[m]]
  /\ UNCHANGED <<raft, taken, call>>

\* The process dies with its calls, and SetupRaftNode starts it again from
\* an empty state machine and the snapshot in its store.
Restart(n) ==
  LET s == IF stored[n] = None THEN [index |-> 0, table |-> NewFSM] ELSE stored[n]
  IN  /\ fsm' = [fsm EXCEPT ![n] = Restored(NewFSM, s.table)]
      /\ applied' = [applied EXCEPT ![n] = s.index]
      /\ taken' = [taken EXCEPT ![n] = None]
      /\ believes' = believes \ {n}
      /\ leader' = IF leader = n THEN NoNode ELSE leader
      /\ stage' = [c \in Calls |-> IF node[c] = n /\ stage[c] \in {"asked", "waiting"}
                                   THEN "gone" ELSE stage[c]]
      /\ UNCHANGED <<log, pending, stored, node, command>>

-----------------------------------------------------------------------------
Client(c) == \/ \E n \in Nodes : Ask(c, n)
             \/ \E k \in Commands : Enqueue(c, k)
             \/ AskRefused(c) \/ EnqueueFails(c)
Library   == Commit \/ (\E i \in DOMAIN pending : Discard(i)) \/ (\E n \in Nodes : Elect(n) \/ StepDown(n))
Member(n) == \/ Apply(n) \/ Snapshot(n) \/ Persist(n) \/ PersistFails(n) \/ Restart(n)
             \/ \E m \in Nodes : InstallSnapshot(n, m)

Next == (\E c \in Calls : Client(c)) \/ Library \/ (\E n \in Nodes : Member(n))
Spec == Init /\ [][Next]_vars

-----------------------------------------------------------------------------
Snapshots == [index : 1..Len(log), table : Tables] \cup {None}

TypeOK ==
  /\ log \in Seq(Calls) /\ pending \in Seq(Calls)
  /\ leader \in Nodes \cup {NoNode} /\ believes \subseteq Nodes
  /\ applied \in [Nodes -> 0..Len(log)]
  /\ fsm \in [Nodes -> Tables]
  /\ taken \in [Nodes -> Snapshots] /\ stored \in [Nodes -> Snapshots]
  /\ stage \in [Calls -> {"idle", "asked", "refused", "waiting", "ok", "lost", "gone"}]
  /\ node \in [Calls -> Nodes \cup {NoNode}]
  /\ command \in [Calls -> Commands \cup {None}]

\* The entries of the first k that are about deployment d, those of them that
\* deploy or stop it, and the last of a set of places in the log.
Entry(i)     == command[log[i]]
About(d, k)  == {i \in 1..k : Entry(i).id = d}
Bounds(d, k) == {i \in About(d, k) : Entry(i).op # "SCALE"}
Latest(S)    == CHOOSE i \in S : \A j \in S : j <= i

\* What the first k entries say of deployment d: it is there if it was deployed
\* after it was last stopped, with the spec of its last deployment and the
\* replicas of the last entry about it.
Said(d, k) ==
  LET bound == Entry(Latest(Bounds(d, k)))
      last  == Entry(Latest(About(d, k)))
  IN  IF Bounds(d, k) = {} \/ bound.op = "STOP" THEN None
      ELSE IF last.op = "SCALE" THEN [bound.spec EXCEPT !.replicas = last.replicas]
      ELSE bound.spec

\* Every node holds at every moment the table the log says for the entries it
\* has applied, through restarts, snapshots written while further entries are
\* applied, and snapshots installed over an old table.  So two nodes that have
\* applied as much agree, and no restart resurrects a stopped deployment.
StateIsReplay ==
  \A n \in Nodes : \A d \in Deployments : fsm[n][d] = Said(d, applied[n])

\* A call that returned without an error wrote exactly one committed entry; a
\* call that was refused wrote none and never will, so it may be repeated.  A
\* call that lost its leader knows neither.
AnswerMeansLogged ==
  \A c \in Calls :
    /\ stage[c] = "ok" => Cardinality({i \in DOMAIN log : log[i] = c}) = 1
    /\ stage[c] = "refused" => ~InLog(c) /\ ~Pending(c)

\* What a caller knows.  Until its entry is handed over a call has no effect.
Answer(s) ==
  CASE s \in {"idle", "asked"}  -> "none"
    [] s = "waiting"            -> "open"
    [] s \in {"ok", "refused"}  -> s
    [] OTHER                    -> "unknown"

Table == INSTANCE ReplicatedTable
           WITH order  <- log,
                tables <- [i \in 0..Len(log) |-> [d \in Deployments |-> Said(d, i)]],
                at     <- applied,
                shown  <- fsm,
                answer <- [c \in Calls |-> Answer(stage[c])]

\* Nodes, log and snapshots together are one table on which calls take effect
\* one at a time, whoever leads, falls behind or restarts.
TableSpec == Table!Spec
=============================================================================
