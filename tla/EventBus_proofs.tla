--------------------------- MODULE EventBus_proofs ---------------------------
(***************************************************************************)
(* The buses implement EventDelivery for any processes, buses, topics,     *)
(* subscriptions and events.  The point is the ids: a subscription's id is *)
(* given to no other of its bus, so unsubscribing removes its own entry;   *)
(* and an entry tells the topic and the bus its handler was subscribed to, *)
(* so the handlers that are copied are the ones that hear the event.       *)
(***************************************************************************)
EXTENDS EventBus, TLAPS

\* The ids of a bus: below its counter, and no two alike.
IdsUnique ==
  /\ \A s \in Subs : main[s] # "new" => id[s] < nextID[Bus[s]]
  /\ \A s, t \in Subs :
       main[s] # "new" /\ main[t] # "new" /\ Bus[s] = Bus[t] /\ id[s] = id[t] => s = t

\* What an entry of the map of b says.
EntriesTrue ==
  \A b \in Buses : \A e \in subscribers[b] :
    /\ Bus[e.sub] = b /\ Topic[e.sub] = e.topic /\ id[e.sub] = e.id
    /\ main[e.sub] # "new"

\* A handler is copied, started and called one after the other, and only for
\* an event that was published.
OneByOne ==
  \A p \in Pubs, s \in Subs :
    /\ s \in left[p] => s \notin started[p] /\ calls[p][s] = 0
    /\ s \in started[p] => calls[p][s] = 0
    /\ p \notin published => s \notin left[p] /\ s \notin started[p] /\ calls[p][s] = 0

IInv == TypeOK /\ IdsUnique /\ EntriesTrue /\ OneByOne

-----------------------------------------------------------------------------
LEMMA InitIInv == Init => IInv
  <1>. SUFFICES ASSUME Init PROVE IInv
    OBVIOUS
  <1>1. TypeOK
    BY DEF Init, TypeOK
  <1>2. IdsUnique /\ EntriesTrue /\ OneByOne
    BY DEF Init, IdsUnique, EntriesTrue, OneByOne
  <1>. QED
    BY <1>1, <1>2 DEF IInv

\* No entry of a bus has the id that is given next, so nothing is overwritten.
LEMMA NextIdIsFree ==
  ASSUME IInv, NEW b \in Buses, NEW e \in subscribers[b]
  PROVE  e.id < nextID[b]
  <1>1. e.sub \in Subs
    BY DEF IInv, TypeOK, Entries
  <1>. QED
    BY <1>1 DEF IInv, EntriesTrue, IdsUnique

LEMMA SubscribeStep ==
  ASSUME IInv, NEW s \in Subs, Subscribe(s)
  PROVE  /\ IInv'
         /\ subscribers' = [subscribers EXCEPT ![Bus[s]] =
              @ \cup {[topic |-> Topic[s], id |-> nextID[Bus[s]], sub |-> s]}]
  <1>. DEFINE b == Bus[s]
              new == [topic |-> Topic[s], id |-> nextID[b], sub |-> s]
  <1>1. b \in Buses /\ Topic[s] \in Topics
    BY EventBusAssumption DEF Topics
  <1>2. nextID[b] \in Nat /\ new \in Entries
    BY <1>1 DEF IInv, TypeOK, Entries
  <1>3. \A e \in subscribers[b] : e.id # nextID[b]
    BY <1>1, <1>2, NextIdIsFree DEF IInv, TypeOK, Entries
  <1>4. subscribers' = [subscribers EXCEPT ![b] = @ \cup {new}]
    <2>1. {e \in subscribers[b] : e.topic # Topic[s] \/ e.id # nextID[b]} = subscribers[b]
      BY <1>3
    <2>. QED
      BY <2>1 DEF Subscribe
  <1>5. TypeOK'
    BY <1>1, <1>2, <1>4 DEF Subscribe, IInv, TypeOK
  <1>6. IdsUnique'
    BY <1>1, <1>2, EventBusAssumption DEF Subscribe, IInv, IdsUnique, TypeOK
  <1>7. EntriesTrue'
    <2>. SUFFICES ASSUME NEW c \in Buses, NEW e \in subscribers'[c]
                  PROVE  /\ Bus[e.sub] = c /\ Topic[e.sub] = e.topic
                         /\ id'[e.sub] = e.id /\ main'[e.sub] # "new"
      BY DEF EntriesTrue
    <2>1. CASE c = b /\ e = new
      BY <2>1, <1>1, <1>2 DEF Subscribe, IInv, TypeOK
    <2>2. CASE e \in subscribers[c]
      <3>1. /\ Bus[e.sub] = c /\ Topic[e.sub] = e.topic
            /\ id[e.sub] = e.id /\ main[e.sub] # "new" /\ e.sub \in Subs
        BY <2>2 DEF IInv, EntriesTrue, TypeOK, Entries
      <3>2. e.sub # s
        BY <3>1 DEF Subscribe
      <3>. QED
        BY <3>1, <3>2 DEF Subscribe, IInv, TypeOK
    <2>. QED
      BY <2>1, <2>2, <1>4, <1>1 DEF IInv, TypeOK
  <1>8. OneByOne'
    BY DEF Subscribe, IInv, OneByOne
  <1>. QED
    BY <1>4, <1>5, <1>6, <1>7, <1>8 DEF IInv

LEMMA UnsubscribeStep ==
  ASSUME IInv, NEW s \in Subs, Unsubscribe(s)
  PROVE  /\ IInv'
         /\ subscribers' = [subscribers EXCEPT ![Bus[s]] = {e \in @ : e.sub # s}]
  <1>. DEFINE b == Bus[s]
  <1>1. b \in Buses
    BY EventBusAssumption
  <1>2. \A e \in subscribers[b] : (e.topic # Topic[s] \/ e.id # id[s]) <=> e.sub # s
    <2>. SUFFICES ASSUME NEW e \in subscribers[b]
                  PROVE  (e.topic = Topic[s] /\ e.id = id[s]) <=> e.sub = s
      OBVIOUS
    <2>1. /\ Bus[e.sub] = b /\ Topic[e.sub] = e.topic
          /\ id[e.sub] = e.id /\ main[e.sub] # "new" /\ e.sub \in Subs
      BY <1>1 DEF IInv, EntriesTrue, TypeOK, Entries
    <2>2. main[s] # "new"
      BY DEF Unsubscribe
    <2>. QED
      BY <2>1, <2>2 DEF IInv, IdsUnique
  <1>3. subscribers' = [subscribers EXCEPT ![b] = {e \in @ : e.sub # s}]
    <2>1. {e \in subscribers[b] : e.topic # Topic[s] \/ e.id # id[s]}
            = {e \in subscribers[b] : e.sub # s}
      BY <1>2
    <2>. QED
      BY <2>1 DEF Unsubscribe
  <1>4. TypeOK'
    BY <1>1, <1>3 DEF Unsubscribe, IInv, TypeOK
  <1>5. IdsUnique'
    BY DEF Unsubscribe, IInv, IdsUnique, TypeOK
  <1>6. EntriesTrue'
    BY <1>1, <1>3 DEF Unsubscribe, IInv, EntriesTrue, TypeOK, Entries
  <1>7. OneByOne'
    BY DEF Unsubscribe, IInv, OneByOne
  <1>. QED
    BY <1>3, <1>4, <1>5, <1>6, <1>7 DEF IInv

\* The handlers that are copied are the subscribed ones that hear the event.
LEMMA HandlersHear ==
  ASSUME IInv, NEW p \in Pubs
  PROVE  Handlers(p) = {s \in Joined : Hears(p, s)}
  <1>1. Bus[p] \in Buses
    BY EventBusAssumption
  <1>2. ASSUME NEW s \in Handlers(p) PROVE s \in Joined /\ Hears(p, s)
    <2>1. PICK e \in subscribers[Bus[p]] : e.topic = Topic[p] /\ e.sub = s
      BY <1>2 DEF Handlers
    <2>2. e.sub \in Subs /\ Bus[e.sub] = Bus[p] /\ Topic[e.sub] = e.topic
      BY <1>1 DEF IInv, EntriesTrue, TypeOK, Entries
    <2>. QED
      BY <2>1, <2>2 DEF Joined, Hears
  <1>3. ASSUME NEW s \in Joined, Hears(p, s) PROVE s \in Handlers(p)
    <2>1. PICK e \in subscribers[Bus[s]] : e.sub = s
      BY DEF Joined
    <2>2. Bus[s] = Bus[p] /\ Topic[s] = Topic[p]
      BY <1>3 DEF Hears
    <2>3. Topic[e.sub] = e.topic
      BY <1>1, <2>2 DEF IInv, EntriesTrue
    <2>. QED
      BY <2>1, <2>2, <2>3 DEF Handlers
  <1>. QED
    BY <1>2, <1>3

LEMMA PublishStep ==
  ASSUME IInv, NEW p \in Pubs, PublishMesh(p) \/ PublishEdge(p)
  PROVE  IInv'
  <1>1. Publish(p) /\ clock' \in [Buses -> Nat]
    BY EventBusAssumption DEF PublishMesh, PublishEdge, IInv, TypeOK
  <1>2. Handlers(p) \subseteq Subs
    BY HandlersHear DEF Joined
  <1>3. TypeOK'
    BY <1>1, <1>2 DEF Publish, bus, IInv, TypeOK
  <1>4. IdsUnique' /\ EntriesTrue'
    BY <1>1 DEF Publish, bus, IInv, IdsUnique, EntriesTrue
  <1>5. OneByOne'
    BY <1>1, <1>2 DEF Publish, MayPublish, IInv, OneByOne, TypeOK
  <1>. QED
    BY <1>3, <1>4, <1>5 DEF IInv

LEMMA DeliverStep ==
  ASSUME IInv, NEW p \in Pubs, NEW s \in Subs, Deliver(p, s)
  PROVE  IInv'
  <1>1. CASE Start(p, s)
    BY <1>1 DEF Start, bus, IInv, TypeOK, IdsUnique, EntriesTrue, OneByOne
  <1>2. CASE Call(p, s)
    <2>1. calls[p][s] = 0
      BY <1>2 DEF Call, IInv, OneByOne
    <2>2. TypeOK'
      BY <1>2, <2>1 DEF Call, bus, IInv, TypeOK
    <2>3. IdsUnique' /\ EntriesTrue'
      BY <1>2 DEF Call, bus, IInv, IdsUnique, EntriesTrue
    <2>4. OneByOne'
      BY <1>2 DEF Call, IInv, OneByOne, TypeOK
    <2>. QED
      BY <2>2, <2>3, <2>4 DEF IInv
  <1>. QED
    BY <1>1, <1>2 DEF Deliver

LEMMA ExitStep ==
  ASSUME IInv, NEW P \in Procs, Exit(P)
  PROVE  IInv'
  <1>1. TypeOK'
    BY DEF Exit, IInv, TypeOK
  <1>2. IdsUnique'
    BY DEF Exit, IInv, IdsUnique
  <1>3. EntriesTrue'
    BY DEF Exit, IInv, EntriesTrue
  <1>4. OneByOne'
    BY DEF Exit, IInv, OneByOne
  <1>. QED
    BY <1>1, <1>2, <1>3, <1>4 DEF IInv

LEMMA StepIInv == IInv /\ [Next]_vars => IInv'
  <1>. SUFFICES ASSUME IInv, [Next]_vars PROVE IInv'
    OBVIOUS
  <1>1. CASE UNCHANGED vars
    BY <1>1 DEF vars, IInv, TypeOK, IdsUnique, EntriesTrue, OneByOne
  <1>. QED
    BY <1>1, SubscribeStep, UnsubscribeStep, PublishStep, DeliverStep, ExitStep DEF Next

-----------------------------------------------------------------------------
\* Ids are unique on their bus, entries are true, handlers are started and
\* called one after the other.
THEOREM Inductive == Spec => []IInv
  <1>. QED
    BY InitIInv, StepIInv, PTL DEF Spec

\* The type invariant: a handler is called at most once per event.
THEOREM TypeCorrect == Spec => []TypeOK
  <1>1. IInv => TypeOK
    BY DEF IInv
  <1>. QED
    BY <1>1, Inductive, PTL

-----------------------------------------------------------------------------
\* The refinement, step by step

LEMMA InitDelivers == Init => Delivery!Init
  <1>. SUFFICES ASSUME Init PROVE Delivery!Init
    OBVIOUS
  <1>1. Joined = {}
    BY EventBusAssumption DEF Init, Joined
  <1>2. Due = [p \in Pubs |-> {}] /\ Reached = [p \in Pubs |-> {}]
    BY DEF Init, Due, Reached
  <1>. QED
    BY <1>1, <1>2 DEF Init, Delivery!Init

LEMMA SubscribeDelivers ==
  ASSUME IInv, NEW s \in Subs, Subscribe(s)
  PROVE  Delivery!Join(s)
  <1>. DEFINE new == [topic |-> Topic[s], id |-> nextID[Bus[s]], sub |-> s]
  <1>1. Joined' = Joined \cup {s}
    <2>1. subscribers' = [subscribers EXCEPT ![Bus[s]] = @ \cup {new}]
      BY SubscribeStep
    <2>2. subscribers \in [Buses -> SUBSET Entries] /\ new.sub = s
      BY DEF IInv, TypeOK
    <2>3. ASSUME NEW t \in Subs
          PROVE  (\E e \in subscribers'[Bus[t]] : e.sub = t)
                   <=> t = s \/ \E e \in subscribers[Bus[t]] : e.sub = t
      <3>1. Bus[t] \in Buses /\ Bus[s] \in Buses
        BY EventBusAssumption
      <3>2. CASE Bus[t] = Bus[s]
        <4>1. subscribers'[Bus[t]] = subscribers[Bus[t]] \cup {new}
          BY <2>1, <2>2, <3>1, <3>2
        <4>. HIDE DEF new
        <4>. QED
          BY <4>1, <2>2
      <3>3. CASE Bus[t] # Bus[s]
        BY <2>1, <2>2, <3>1, <3>3
      <3>. QED
        BY <3>2, <3>3
    <2>. QED
      BY <2>3 DEF Joined
  <1>2. UNCHANGED <<Due, Reached>>
    BY DEF Subscribe, Due, Reached
  <1>. QED
    BY <1>1, <1>2 DEF Subscribe, Delivery!Join

LEMMA UnsubscribeDelivers ==
  ASSUME IInv, NEW s \in Subs, Unsubscribe(s)
  PROVE  Delivery!Leave(s)
  <1>1. Joined' = Joined \ {s}
    <2>1. subscribers' = [subscribers EXCEPT ![Bus[s]] = {e \in @ : e.sub # s}]
      BY UnsubscribeStep
    <2>2. subscribers \in [Buses -> SUBSET Entries]
      BY DEF IInv, TypeOK
    <2>3. ASSUME NEW t \in Subs
          PROVE  (\E e \in subscribers'[Bus[t]] : e.sub = t)
                   <=> t # s /\ \E e \in subscribers[Bus[t]] : e.sub = t
      BY <2>1, <2>2, EventBusAssumption
    <2>. QED
      BY <2>3 DEF Joined
  <1>2. UNCHANGED <<Due, Reached>>
    BY DEF Unsubscribe, Due, Reached
  <1>. QED
    BY <1>1, <1>2 DEF Unsubscribe, Delivery!Leave

LEMMA PublishDelivers ==
  ASSUME IInv, NEW p \in Pubs, PublishMesh(p) \/ PublishEdge(p)
  PROVE  Delivery!Publish(p)
  <1>1. Publish(p)
    BY DEF PublishMesh, PublishEdge
  <1>2. Joined' = Joined /\ Reached' = Reached
    BY <1>1 DEF Publish, bus, Joined, Reached
  <1>3. started[p] = {}
    BY <1>1 DEF Publish, MayPublish, IInv, OneByOne, TypeOK
  <1>4. Due' = [Due EXCEPT ![p] = {s \in Joined : Hears(p, s)}]
    BY <1>1, <1>3, HandlersHear DEF Publish, Due, IInv, TypeOK
  <1>. QED
    BY <1>1, <1>2, <1>4 DEF Publish, MayPublish, Delivery!Publish

LEMMA DeliverDelivers ==
  ASSUME IInv, NEW p \in Pubs, NEW s \in Subs, Deliver(p, s)
  PROVE  [Delivery!Reach(p, s)]_Delivery!vars
  <1>1. CASE Start(p, s)
    <2>1. Due' = Due
      BY <1>1 DEF Start, Due, IInv, TypeOK
    <2>. QED
      BY <1>1, <2>1 DEF Start, bus, Joined, Reached, Delivery!vars
  <1>2. CASE Call(p, s)
    <2>1. s \in started[p] /\ s \notin left[p] /\ calls[p][s] = 0
      BY <1>2 DEF Call, IInv, OneByOne
    <2>2. Due' = [Due EXCEPT ![p] = @ \ {s}]
      BY <1>2, <2>1 DEF Call, Due, IInv, TypeOK
    <2>3. Reached' = [Reached EXCEPT ![p] = @ \cup {s}]
      <3>1. calls' = [calls EXCEPT ![p][s] = 1]
        BY <1>2, <2>1 DEF Call
      <3>2. calls \in [Pubs -> [Subs -> 0 .. 1]]
        BY DEF IInv, TypeOK
      <3>3. ASSUME NEW q \in Pubs, NEW t \in Subs
            PROVE  calls'[q][t] > 0 <=> calls[q][t] > 0 \/ (q = p /\ t = s)
        BY <3>1, <3>2
      <3>. QED
        BY <3>3 DEF Reached
    <2>4. s \in Due[p] /\ s \notin Reached[p]
      BY <2>1 DEF Due, Reached
    <2>5. UNCHANGED <<alive, Joined, published>>
      BY <1>2 DEF Call, bus, Joined
    <2>. QED
      BY <2>2, <2>3, <2>4, <2>5 DEF Delivery!Reach
  <1>. QED
    BY <1>1, <1>2 DEF Deliver

LEMMA ExitDelivers ==
  ASSUME IInv, NEW P \in Procs, Exit(P)
  PROVE  Delivery!End(P)
  <1>1. Joined' = {s \in Joined : Home[s] # P}
    BY EventBusAssumption DEF Exit, Joined, Home
  <1>2. Due' = [p \in Pubs |-> IF Home[p] = P THEN {} ELSE Due[p]]
    BY DEF Exit, Due
  <1>3. Reached' = Reached /\ published' = published
    BY DEF Exit, Reached
  <1>. QED
    BY <1>1, <1>2, <1>3 DEF Exit, Delivery!End

LEMMA StepDelivers == IInv /\ [Next]_vars => [Delivery!Next]_Delivery!vars
  <1>. SUFFICES ASSUME IInv, [Next]_vars PROVE [Delivery!Next]_Delivery!vars
    OBVIOUS
  <1>1. CASE UNCHANGED vars
    BY <1>1 DEF vars, Joined, Due, Reached, Delivery!vars
  <1>. QED
    BY <1>1, SubscribeDelivers, UnsubscribeDelivers, PublishDelivers, DeliverDelivers,
       ExitDelivers DEF Next, Delivery!Next

\* The buses implement EventDelivery.
THEOREM Refinement == Spec => DeliverySpec
  <1>. QED
    BY InitDelivers, StepDelivers, Inductive, PTL DEF Spec, DeliverySpec, Delivery!Spec
=============================================================================
