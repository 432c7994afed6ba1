-------------------------- MODULE ReplicatedTable --------------------------
(***************************************************************************)
(* What a replicated scheduler promises (ports.Scheduler): there is one    *)
(* table of deployments, on which calls take effect one at a time.  A call *)
(* that succeeds took effect at one moment between its start and its       *)
(* answer, and the node that answers shows it; a call that is refused      *)
(* never takes effect; one whose caller was told neither may, once, even   *)
(* much later.  Every node shows the table as it was after some number of  *)
(* effects, and only a crash takes it back to an earlier one.              *)
(*                                                                         *)
(* Nothing here is about logs, leaders or snapshots.  RaftScheduler        *)
(* implements this module; see RaftScheduler!Table.                        *)
(***************************************************************************)
EXTENDS Integers, Sequences

CONSTANTS Nodes, Calls, Deployments,
  Commands,   \* what calls ask for
  None        \* no deployment, no command

VARIABLES
  order,      \* the calls that took effect, in this order
  tables,     \* the table after each number of effects
  at, shown,  \* how many effects a node shows, and the table it shows
  answer,     \* what the caller knows
  command

vars == <<order, tables, at, shown, answer, command>>

TookEffect(c) == \E i \in 1..Len(order) : order[i] = c

\* What a command makes of a deployment: one that is not there is not scaled.
Becomes(t, k, d) ==
  CASE d # k.id \/ (k.op = "SCALE" /\ t[d] = None) -> t[d]
    [] d = k.id /\ k.op = "DEPLOY"                 -> k.spec
    [] d = k.id /\ k.op = "STOP"                   -> None
    [] OTHER                                       -> [t[d] EXCEPT !.replicas = k.replicas]

Effect(t, k) == [d \in Deployments |-> Becomes(t, k, d)]

Init ==
  /\ order = <<>>
  /\ tables = [i \in 0..0 |-> [d \in Deployments |-> None]]
  /\ at = [n \in Nodes |-> 0]
  /\ shown = [n \in Nodes |-> tables[0]]
  /\ answer = [c \in Calls |-> "none"]
  /\ command = [c \in Calls |-> None]

Issue(c) ==
  /\ answer[c] = "none"
  /\ answer' = [answer EXCEPT ![c] = "open"]
  /\ \E k \in Commands : command' = [command EXCEPT ![c] = k]
  /\ UNCHANGED <<order, tables, at, shown>>

Refuse(c) ==
  /\ answer[c] \in {"none", "open"}
  /\ ~TookEffect(c)
  /\ answer' = [answer EXCEPT ![c] = "refused"]
  /\ UNCHANGED <<order, tables, at, shown, command>>

TakeEffect(c) ==
  /\ answer[c] \in {"open", "unknown"} /\ command[c] \in Commands
  /\ ~TookEffect(c)
  /\ order' = Append(order, c)
  /\ tables' = [i \in 0..(Len(order) + 1) |->
                  IF i <= Len(order) THEN tables[i]
                  ELSE Effect(tables[Len(order)], command[c])]
  /\ UNCHANGED <<at, shown, answer, command>>

Show(n, i) ==
  /\ at' = [at EXCEPT ![n] = i]
  /\ shown' = [shown EXCEPT ![n] = tables[i]]

Advance(n, i) ==
  /\ i > at[n]
  /\ Show(n, i)
  /\ UNCHANGED <<order, tables, answer, command>>

Succeed(c, n, i) ==
  /\ answer[c] = "open"
  /\ i > at[n] /\ i >= 1 /\ order[i] = c
  /\ Show(n, i)
  /\ answer' = [answer EXCEPT ![c] = "ok"]
  /\ UNCHANGED <<order, tables, command>>

\* Some callers are told that nobody knows, or are told nothing.
Lose ==
  \E C \in SUBSET Calls :
    /\ \A c \in C : answer[c] \in {"none", "open"}
    /\ answer' = [c \in Calls |-> IF c \in C THEN "unknown" ELSE answer[c]]

Disown == Lose /\ UNCHANGED <<order, tables, at, shown, command>>

Crash(n, i) ==
  /\ i <= at[n]
  /\ Show(n, i)
  /\ Lose
  /\ UNCHANGED <<order, tables, command>>

Next ==
  \/ \E c \in Calls : Issue(c) \/ Refuse(c) \/ TakeEffect(c)
  \/ \E n \in Nodes, i \in 0..Len(order) :
       Advance(n, i) \/ Crash(n, i) \/ \E c \in Calls : Succeed(c, n, i)
  \/ Disown

Spec == Init /\ [][Next]_vars
=============================================================================
