--------------------------- MODULE EventDelivery ----------------------------
(***************************************************************************)
(* What an event bus promises (ports.EventBus): an event reaches exactly   *)
(* the handlers that are subscribed to its topic, on the bus it is         *)
(* published on, at the moment it is published, each of them at most once, *)
(* whatever they and others do later; and each of them unless the process  *)
(* ends.  Nothing is kept for who subscribes later, nothing survives the   *)
(* process, and nothing reaches another one.                               *)
(***************************************************************************)
CONSTANTS Procs, Subs, Pubs,
  Home,      \* the process of a subscription or publication
  Hears(_, _)   \* publication and subscription share bus and topic

VARIABLES
  up,        \* the processes that have not ended
  joined,    \* subscriptions in force
  published,
  due,       \* whom a publication is still to reach
  reached    \* whom it has reached

vars == <<up, joined, published, due, reached>>

Init ==
  /\ up = Procs /\ joined = {} /\ published = {}
  /\ due = [p \in Pubs |-> {}]
  /\ reached = [p \in Pubs |-> {}]

Join(s) ==
  /\ Home[s] \in up
  /\ joined' = joined \cup {s}
  /\ UNCHANGED <<up, published, due, reached>>

Leave(s) ==
  /\ joined' = joined \ {s}
  /\ UNCHANGED <<up, published, due, reached>>

Publish(p) ==
  /\ Home[p] \in up /\ p \notin published
  /\ published' = published \cup {p}
  /\ due' = [due EXCEPT ![p] = {s \in joined : Hears(p, s)}]
  /\ UNCHANGED <<up, joined, reached>>

Reach(p, s) ==
  /\ s \in due[p] /\ s \notin reached[p]
  /\ due' = [due EXCEPT ![p] = @ \ {s}]
  /\ reached' = [reached EXCEPT ![p] = @ \cup {s}]
  /\ UNCHANGED <<up, joined, published>>

\* A process ends, and with it its subscriptions and what it was to deliver.
End(P) ==
  /\ up' = up \ {P}
  /\ joined' = {s \in joined : Home[s] # P}
  /\ due' = [p \in Pubs |-> IF Home[p] = P THEN {} ELSE due[p]]
  /\ UNCHANGED <<published, reached>>

Next ==
  \/ \E s \in Subs : Join(s) \/ Leave(s)
  \/ \E p \in Pubs : Publish(p) \/ \E s \in Subs : Reach(p, s)
  \/ \E P \in Procs : End(P)

Spec == Init /\ [][Next]_vars
=============================================================================
