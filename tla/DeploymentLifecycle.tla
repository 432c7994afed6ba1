------------------------ MODULE DeploymentLifecycle ------------------------
(***************************************************************************)
(* What a client of the platform may observe of a deployment, and nothing  *)
(* about how it is produced: the status column of the row it polls, from   *)
(* the moment the row is inserted to the moment it is deleted.  A          *)
(* deployment is "absent" until it is accepted, moves forward through the  *)
(* statuses of internal/domain/deployment.go, may be deleted at any time,  *)
(* and once "gone" never comes back under the same id.                     *)
(*                                                                         *)
(* Pipeline implements this module; see Pipeline!Lifecycle.                *)
(***************************************************************************)

CONSTANTS
  Deps,    \* deployment ids
  Lossy    \* TRUE iff a status write may be lost (an UPDATE whose error is ignored)

VARIABLE phase

Phases == {"absent", "queued", "building", "failed", "deploying", "running", "gone"}

\* The statuses a deployment may be seen in right after s.  When a write may
\* be lost, an intermediate status may never be seen.
Successors(s) ==
  CASE s = "queued"    -> {"building"} \cup
                          (IF Lossy THEN {"failed", "deploying", "running"} ELSE {})
    [] s = "building"  -> {"failed", "deploying"} \cup
                          (IF Lossy THEN {"running"} ELSE {})
    [] s = "deploying" -> {"running"}
    [] OTHER           -> {}

LifecycleTypeOK == phase \in [Deps -> Phases]

Init == phase = [d \in Deps |-> "absent"]

Accept(d) ==
  /\ phase[d] = "absent"
  /\ phase' = [phase EXCEPT ![d] = "queued"]

Advance(d) ==
  \E s \in Successors(phase[d]) : phase' = [phase EXCEPT ![d] = s]

Delete(d) ==
  /\ phase[d] \notin {"absent", "gone"}
  /\ phase' = [phase EXCEPT ![d] = "gone"]

Next == \E d \in Deps : Accept(d) \/ Advance(d) \/ Delete(d)

Spec == Init /\ [][Next]_phase
=============================================================================
