------------------------------ MODULE EventBus ------------------------------
(***************************************************************************)
(* The event buses of the platform's processes: MeshEventBus and           *)
(* WebSocketEventBus, which differ only in the mesh's clock.  A bus is a   *)
(* map in the memory of the process that made it; a publication copies the *)
(* handlers of its topic under the lock and then starts a goroutine for    *)
(* each of them, so that a handler may itself publish, and subscriptions   *)
(* come and go while the goroutines are being started.                     *)
(***************************************************************************)
EXTENDS Integers, FiniteSets

CONSTANTS
  Procs,      \* processes
  Buses,      \* buses, ...
  Edge,       \* ... those of them that are WebSocketEventBuses
  Owner,      \* the process that made a bus
  Subs,       \* the calls of Subscribe there are in the code
  Pubs,       \* events that may be published
  Bus,        \* the bus of a subscription or publication
  Topic,      \* its topic
  Cause,      \* the handler call that publishes an event, or None
  Leavers,    \* the processes that unsubscribe when they are interrupted
  None

Topics == {Topic[x] : x \in Subs \cup Pubs}

ASSUME EventBusAssumption ==
  /\ Owner \in [Buses -> Procs]
  /\ Edge \subseteq Buses
  /\ Bus \in [Subs \cup Pubs -> Buses]
  /\ Subs \cap Pubs = {}
  /\ Cause \in [Pubs -> (Pubs \X Subs) \cup {None}]
  /\ Leavers \subseteq Procs

VARIABLES
  alive,        \* the processes that have not ended
  subscribers,  \* per bus: the entries of its two-level map
  nextID,       \* per bus
  id,           \* the id a subscription was given
  main,         \* where a subscription of main stands: new, in force, gone
  clock,        \* per bus: the mesh's clock
  published,    \* the events published
  left,         \* per event: handlers copied, goroutine not started yet
  started,      \* per event: goroutines started, handler not called yet
  calls         \* per event: how often each handler was called

vars == <<alive, subscribers, nextID, id, main, clock, published, left, started, calls>>
bus == <<subscribers, nextID, id, main>>

Home == [x \in Subs \cup Pubs |-> Owner[Bus[x]]]

Entries == [topic : Topics, id : Nat, sub : Subs]

Init ==
  /\ alive = Procs
  /\ subscribers = [b \in Buses |-> {}]
  /\ nextID = [b \in Buses |-> 0]
  /\ id = [s \in Subs |-> 0]
  /\ main = [s \in Subs |-> "new"]
  /\ clock = [b \in Buses |-> 0]
  /\ published = {}
  /\ left = [p \in Pubs |-> {}]
  /\ started = [p \in Pubs |-> {}]
  /\ calls = [p \in Pubs |-> [s \in Subs |-> 0]]

-----------------------------------------------------------------------------
Subscribe(s) ==
  LET b == Bus[s] IN
  /\ Home[s] \in alive /\ main[s] = "new"
  /\ subscribers' = [subscribers EXCEPT ![b] =
       {e \in @ : e.topic # Topic[s] \/ e.id # nextID[b]}
         \cup {[topic |-> Topic[s], id |-> nextID[b], sub |-> s]}]
  /\ id' = [id EXCEPT ![s] = nextID[b]]
  /\ nextID' = [nextID EXCEPT ![b] = @ + 1]
  /\ main' = [main EXCEPT ![s] = "subscribed"]
  /\ UNCHANGED <<alive, clock, published, left, started, calls>>

\* The function Subscribe returned, which a worker defers.
Unsubscribe(s) ==
  /\ Home[s] \in Leavers \cap alive /\ main[s] = "subscribed"
  /\ subscribers' = [subscribers EXCEPT ![Bus[s]] =
       {e \in @ : e.topic # Topic[s] \/ e.id # id[s]}]
  /\ main' = [main EXCEPT ![s] = "gone"]
  /\ UNCHANGED <<alive, nextID, id, clock, published, left, started, calls>>

\* Mutant: the topic is not looked at.
HandlersOfBus(p) == {e.sub : e \in subscribers[Bus[p]]}

\* The handlers Publish copies.
Handlers(p) == {e.sub : e \in {f \in subscribers[Bus[p]] : f.topic = Topic[p]}}

\* Requests are served when main has subscribed its workers; other events
\* are published by a handler.
MayPublish(p) ==
  /\ Home[p] \in alive /\ p \notin published
  /\ IF Cause[p] = None
     THEN \A s \in Subs : Home[s] = Home[p] => main[s] = "subscribed"
     ELSE calls[Cause[p][1]][Cause[p][2]] > 0

Publish(p) ==
  /\ MayPublish(p)
  /\ published' = published \cup {p}
  /\ left' = [left EXCEPT ![p] = Handlers(p)]
  /\ UNCHANGED <<alive, bus, started, calls>>

PublishMesh(p) ==
  /\ Bus[p] \notin Edge
  /\ Publish(p)
  /\ clock' = [clock EXCEPT ![Bus[p]] = @ + 1]

PublishEdge(p) == Bus[p] \in Edge /\ Publish(p) /\ clock' = clock

\* Mutant: an event a handler publishes waits for the lock of the first.
StartLocked(p, s) ==
  /\ s \in left[p] /\ Cause[p] = None
  /\ left' = [left EXCEPT ![p] = @ \ {s}]
  /\ started' = [started EXCEPT ![p] = @ \cup {s}]
  /\ UNCHANGED <<alive, bus, clock, published, calls>>

\* The loop of Publish, in the order the map is iterated in: any.
Start(p, s) ==
  /\ s \in left[p]
  /\ left' = [left EXCEPT ![p] = @ \ {s}]
  /\ started' = [started EXCEPT ![p] = @ \cup {s}]
  /\ UNCHANGED <<alive, bus, clock, published, calls>>

\* Mutant: a goroutine stays in the list of those to be called.
CallAgain(p, s) ==
  /\ s \in started[p] /\ calls[p][s] < 2
  /\ calls' = [calls EXCEPT ![p][s] = @ + 1]
  /\ UNCHANGED <<alive, bus, clock, published, left, started>>

\* A goroutine calls its handler; what it returns is ignored.
Call(p, s) ==
  /\ s \in started[p]
  /\ started' = [started EXCEPT ![p] = @ \ {s}]
  /\ calls' = [calls EXCEPT ![p][s] = @ + 1]
  /\ UNCHANGED <<alive, bus, clock, published, left>>

\* A process is killed, or its main returns: its memory is gone.
Exit(P) ==
  /\ P \in alive
  /\ alive' = alive \ {P}
  /\ subscribers' = [b \in Buses |-> IF Owner[b] = P THEN {} ELSE subscribers[b]]
  /\ left' = [p \in Pubs |-> IF Home[p] = P THEN {} ELSE left[p]]
  /\ started' = [p \in Pubs |-> IF Home[p] = P THEN {} ELSE started[p]]
  /\ UNCHANGED <<nextID, id, main, clock, published, calls>>

Deliver(p, s) == Start(p, s) \/ Call(p, s)

Next ==
  \/ \E s \in Subs : Subscribe(s) \/ Unsubscribe(s)
  \/ \E p \in Pubs : PublishMesh(p) \/ PublishEdge(p) \/ \E s \in Subs : Deliver(p, s)
  \/ \E P \in Procs : Exit(P)

Spec == Init /\ [][Next]_vars

\* Go runs every goroutine.
FairSpec == Spec /\ \A p \in Pubs, s \in Subs : WF_vars(Deliver(p, s))

-----------------------------------------------------------------------------
\* Properties

\* Types; a handler is called at most once per event.
TypeOK ==
  /\ alive \subseteq Procs
  /\ subscribers \in [Buses -> SUBSET Entries]
  /\ nextID \in [Buses -> Nat]
  /\ id \in [Subs -> Nat]
  /\ main \in [Subs -> {"new", "subscribed", "gone"}]
  /\ clock \in [Buses -> Nat]
  /\ published \subseteq Pubs
  /\ left \in [Pubs -> SUBSET Subs]
  /\ started \in [Pubs -> SUBSET Subs]
  /\ calls \in [Pubs -> [Subs -> 0 .. 1]]

Hears(p, s) == Bus[p] = Bus[s] /\ Topic[p] = Topic[s]

\* The subscriptions in the map of a bus, and those an event is due to reach.
Joined  == {s \in Subs : \E e \in subscribers[Bus[s]] : e.sub = s}
Due     == [p \in Pubs |-> left[p] \cup started[p]]
Reached == [p \in Pubs |-> {s \in Subs : calls[p][s] > 0}]

Delivery == INSTANCE EventDelivery
  WITH up <- alive, joined <- Joined, due <- Due, reached <- Reached

\* The buses implement EventDelivery: an event reaches the handlers that were
\* in its topic's map on its own bus when it was published, each at most once,
\* also when events are published by handlers while goroutines are still being
\* started, and when a handler is unsubscribed before its goroutine runs; none
\* in another process, so that the worker binaries, each with a bus of its own,
\* are never called by the server's events.  (No process of the platform
\* subscribes or unsubscribes a topic that it publishes at the same time.)
DeliverySpec == Delivery!Spec

\* Every handler an event is due to reach is called unless the process ends,
\* also when the event is published from inside a handler.
Delivered ==
  \A p \in Pubs : \A s \in {t \in Subs : Hears(p, t)} :
    s \in Due[p] ~> calls[p][s] = 1 \/ Home[p] \notin alive
=============================================================================
