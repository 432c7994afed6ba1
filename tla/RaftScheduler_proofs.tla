------------------------ MODULE RaftScheduler_proofs ------------------------
(***************************************************************************)
(* Proofs about RaftScheduler, for any sets of nodes, calls, deployments,  *)
(* images and counts.                                                      *)
(*                                                                         *)
(* The table of a node is a fold of the entries it has applied; Said tells *)
(* the same without a fold.  SaidStep shows that they agree on one entry   *)
(* more, SaidStays that what a prefix of the log says never changes.       *)
(***************************************************************************)
EXTENDS RaftScheduler, SequenceTheorems, FiniteSetTheorems, WellFoundedInduction, TLAPS

-----------------------------------------------------------------------------
\* A sequence after one element is removed: what stays was there, at the same
\* place or the next.
LEMMA RemoveAtOne ==
  ASSUME NEW S, NEW q \in Seq(S), NEW i \in 1..Len(q)
  PROVE  /\ RemoveAt(q, i) \in Seq(S)
         /\ Len(RemoveAt(q, i)) = Len(q) - 1
         /\ \A k \in 1..(Len(q) - 1) :
              RemoveAt(q, i)[k] = IF k < i THEN q[k] ELSE q[k + 1]
  <1>. DEFINE a == SubSeq(q, 1, i - 1)
              b == SubSeq(q, i + 1, Len(q))
  <1>1. Len(q) \in Nat
    BY LenProperties
  <1>2. a \in Seq(S) /\ Len(a) = i - 1 /\ \A k \in 1..(i - 1) : a[k] = q[k]
    BY <1>1
  <1>3. b \in Seq(S) /\ Len(b) = Len(q) - i /\ \A k \in 1..(Len(q) - i) : b[k] = q[i + k]
    BY <1>1
  <1>. HIDE DEF a, b
  <1>4. /\ a \o b \in Seq(S)
        /\ Len(a \o b) = Len(q) - 1
        /\ \A k \in 1..(Len(q) - 1) :
             (a \o b)[k] = IF k <= i - 1 THEN a[k] ELSE b[k - (i - 1)]
    <2>1. /\ a \o b \in Seq(S)
          /\ Len(a \o b) = Len(a) + Len(b)
          /\ \A k \in 1..(Len(a) + Len(b)) :
               (a \o b)[k] = IF k <= Len(a) THEN a[k] ELSE b[k - Len(a)]
      <3>1. a \in Seq(S) /\ b \in Seq(S)
        BY <1>2, <1>3
      <3>. QED
        BY ONLY <3>1, ConcatProperties
    <2>2. Len(a) = i - 1 /\ Len(a) + Len(b) = Len(q) - 1
      BY <1>1, <1>2, <1>3
    <2>. QED
      BY <2>1, <2>2
  <1>5. \A k \in 1..(Len(q) - 1) : (a \o b)[k] = IF k < i THEN q[k] ELSE q[k + 1]
    <2>. SUFFICES ASSUME NEW k \in 1..(Len(q) - 1)
         PROVE  (a \o b)[k] = IF k < i THEN q[k] ELSE q[k + 1]
      OBVIOUS
    <2>1. CASE k < i
      BY <1>1, <1>2, <1>4, <2>1
    <2>2. CASE ~(k < i)
      <3>1. k - (i - 1) \in 1..(Len(q) - i) /\ i + (k - (i - 1)) = k + 1
        BY <1>1, <2>2
      <3>. QED
        BY <1>1, <1>3, <1>4, <2>2, <3>1
    <2>. QED
      BY <2>1, <2>2
  <1>. QED
    BY <1>4, <1>5 DEF RemoveAt, a, b

\* A set of numbers up to k that is not empty has a largest element: of the
\* intervals from its elements to k one contains no other.
LEMMA LargestExists ==
  ASSUME NEW k \in Nat, NEW S \in SUBSET (1..k), S # {}
  PROVE  \E m \in S : \A j \in S : j <= m
  <1>. DEFINE R == StrictSubsetOrdering(1..k)
              T == {i..k : i \in S}
  <1>1. IsWellFoundedOn(R, SUBSET (1..k))
    <2>1. IsFiniteSet(1..k)
      BY FS_Interval
    <2>. QED
      BY <2>1, FS_FiniteSubsetsOfFinite, FS_StrictSubsetOrderingWellFounded
  <1>2. T \subseteq SUBSET (1..k) /\ T # {}
    <2>1. \A i \in S : i..k \in SUBSET (1..k)
      OBVIOUS
    <2>2. T \subseteq SUBSET (1..k)
      BY <2>1
    <2>3. PICK i \in S : TRUE
      OBVIOUS
    <2>4. i..k \in T
      OBVIOUS
    <2>. QED
      BY <2>2, <2>4
  <1>3. PICK x \in T : \A y \in T : ~(<<y, x>> \in R)
    <2>. HIDE DEF R, T
    <2>. QED
      BY <1>1, <1>2, WFMin
  <1>4. PICK m \in S : x = m..k
    OBVIOUS
  <1>5. ASSUME NEW j \in S, ~(j <= m) PROVE FALSE
    <2>1. j..k \subseteq m..k /\ j..k # m..k
      <3>1. m \in m..k /\ m \notin j..k
        BY <1>5
      <3>. QED
        BY <1>5, <3>1
    <2>2. j..k \in SUBSET (1..k) /\ m..k \in SUBSET (1..k)
      OBVIOUS
    <2>3. <<j..k, m..k>> \in R
      BY <2>1, <2>2 DEF StrictSubsetOrdering
    <2>. QED
      BY <1>3, <1>4, <2>3
  <1>. QED
    BY <1>5

-----------------------------------------------------------------------------

CallStages == {"idle", "asked", "refused", "waiting", "ok", "lost", "gone"}

\* A call with an entry in some log has handed it over.
Sent(c) == command[c] \in Commands /\ stage[c] \in {"waiting", "ok", "lost", "gone"}

Entered ==
  /\ \A i \in 1..Len(log) : Sent(log[i])
  /\ \A i \in 1..Len(pending) : Sent(pending[i])

\* No call has two entries.
Once ==
  /\ \A i, j \in 1..Len(log) : log[i] = log[j] => i = j
  /\ \A i, j \in 1..Len(pending) : pending[i] = pending[j] => i = j
  /\ \A i \in 1..Len(log), j \in 1..Len(pending) : log[i] # pending[j]

OkLogged == \A c \in Calls : stage[c] = "ok" => \E i \in 1..Len(log) : log[i] = c

\* A snapshot holds what the entries up to its index say.
Faithful(s) == s # None => \A d \in Deployments : s.table[d] = Said(d, s.index)

SnapshotsReplay == \A n \in Nodes : Faithful(taken[n]) /\ Faithful(stored[n])

IInv ==
  /\ TypeOK /\ Entered /\ Once /\ OkLogged
  /\ StateIsReplay /\ SnapshotsReplay

-----------------------------------------------------------------------------
\* What the log says

LEMMA LatestIn ==
  ASSUME NEW k \in Nat, NEW S \in SUBSET (1..k), S # {}
  PROVE  Latest(S) \in S
  BY LargestExists DEF Latest

LEMMA LatestIs ==
  ASSUME NEW S \in SUBSET Nat, NEW m \in S, \A j \in S : j <= m
  PROVE  Latest(S) = m
  <1>1. \A i \in S : (\A j \in S : j <= i) => i = m
    OBVIOUS
  <1>. QED
    BY <1>1 DEF Latest

\* The spec of one command.
LEMMA CommandFields ==
  ASSUME NEW k \in Commands
  PROVE  /\ k.id \in Deployments
         /\ k.op \in {"DEPLOY", "SCALE", "STOP"}
         /\ k.op = "DEPLOY" => k.spec \in Specs
         /\ k.op = "SCALE" => k.replicas \in Counts
  BY DEF Commands

LEMMA NoneIsNoSpec == None \notin Specs
  BY RaftAssumption DEF Specs

LEMMA AppliedType ==
  ASSUME NEW t \in Tables, NEW k \in Commands
  PROVE  Applied(t, k) \in Tables
  <1>1. CASE k.op = "DEPLOY"
    BY <1>1, CommandFields DEF Applied, Tables
  <1>2. CASE k.op = "STOP"
    BY <1>2, CommandFields DEF Applied, Tables
  <1>3. CASE k.op = "SCALE"
    <2>1. CASE t[k.id] = None
      BY <1>3, <2>1 DEF Applied
    <2>2. CASE t[k.id] # None
      <3>1. t[k.id] \in Specs /\ k.replicas \in Counts /\ k.id \in Deployments
        BY <1>3, <2>2, CommandFields DEF Tables
      <3>2. [t[k.id] EXCEPT !.replicas = k.replicas] \in Specs
        BY <3>1 DEF Specs
      <3>. QED
        BY <1>3, <2>2, <3>1, <3>2 DEF Applied, Tables
    <2>. QED
      BY <2>1, <2>2
  <1>. QED
    BY <1>1, <1>2, <1>3, CommandFields

\* Applying entry k + 1 to a table that holds what the first k entries say of d
\* gives one that holds what the first k + 1 say.
LEMMA SaidStep ==
  ASSUME NEW k \in Nat, \A i \in 1..(k + 1) : Entry(i) \in Commands,
         NEW t \in Tables, NEW d \in Deployments, t[d] = Said(d, k)
  PROVE  Applied(t, Entry(k + 1))[d] = Said(d, k + 1)
  <1>. DEFINE c == Entry(k + 1)
  <1>1. c \in Commands
    OBVIOUS
  <1>2. About(d, k) \in SUBSET (1..k) /\ Bounds(d, k) \in SUBSET About(d, k)
    BY DEF About, Bounds
  <1>3. CASE c.id # d
    <2>1. About(d, k + 1) = About(d, k)
      BY <1>3 DEF About
    <2>2. Said(d, k + 1) = Said(d, k)
      BY <2>1 DEF Said, Bounds
    <2>3. Applied(t, c)[d] = t[d]
      BY <1>1, <1>3, CommandFields DEF Applied, Tables
    <2>. QED
      BY <2>2, <2>3
  <1>4. CASE c.id = d
    <2>1. About(d, k + 1) = About(d, k) \cup {k + 1}
      BY <1>4 DEF About
    <2>2. Latest(About(d, k + 1)) = k + 1
      BY <1>2, <2>1, LatestIs
    <2>3. CASE c.op \in {"DEPLOY", "STOP"}
      <3>1. Bounds(d, k + 1) = Bounds(d, k) \cup {k + 1}
        BY <2>1, <2>3 DEF Bounds
      <3>2. Latest(Bounds(d, k + 1)) = k + 1
        BY <1>2, <3>1, LatestIs
      <3>3. Said(d, k + 1) = IF c.op = "STOP" THEN None ELSE c.spec
        BY <2>2, <2>3, <3>1, <3>2 DEF Said
      <3>4. Applied(t, c)[d] = IF c.op = "STOP" THEN None ELSE c.spec
        BY <1>4, <2>3 DEF Applied, Tables
      <3>. QED
        BY <3>3, <3>4
    <2>4. CASE c.op = "SCALE"
      <3>1. Bounds(d, k + 1) = Bounds(d, k)
        BY <2>1, <2>4 DEF Bounds
      <3>. DEFINE bound == Entry(Latest(Bounds(d, k)))
                  last  == Entry(Latest(About(d, k)))
      <3>2. CASE Bounds(d, k) = {} \/ bound.op = "STOP"
        <4>1. Said(d, k) = None /\ Said(d, k + 1) = None
          BY <3>1, <3>2 DEF Said
        <4>. QED
          BY <1>4, <2>4, <4>1 DEF Applied
      <3>3. CASE ~(Bounds(d, k) = {} \/ bound.op = "STOP")
        <4>1. /\ Latest(Bounds(d, k)) \in Bounds(d, k)
              /\ Latest(About(d, k)) \in About(d, k)
          <5>1. Bounds(d, k) # {} /\ About(d, k) # {}
            BY <1>2, <3>3
          <5>2. Bounds(d, k) \in SUBSET (1..k)
            BY <1>2
          <5>. QED
            BY <1>2, <5>1, <5>2, LatestIn
        <4>2. bound \in Commands /\ last \in Commands
          <5>1. Latest(Bounds(d, k)) \in 1..(k + 1) /\ Latest(About(d, k)) \in 1..(k + 1)
            BY <1>2, <4>1
          <5>. QED
            BY <5>1
        <4>3. bound.op # "SCALE"
          BY <4>1 DEF Bounds
        <4>4. bound.spec \in Specs /\ (last.op = "SCALE" => last.replicas \in Counts)
          <5>. HIDE DEF bound, last
          <5>. QED
            BY <3>3, <4>2, <4>3, CommandFields
        <4>5. Said(d, k) = IF last.op = "SCALE"
                           THEN [bound.spec EXCEPT !.replicas = last.replicas]
                           ELSE bound.spec
          BY <3>3 DEF Said
        <4>6. Said(d, k + 1) = [bound.spec EXCEPT !.replicas = c.replicas]
          BY <2>2, <2>4, <3>1, <3>3 DEF Said
        <4>7. c.replicas \in Counts
          BY <1>1, <2>4, CommandFields
        <4>. HIDE DEF bound, last, c
        <4>8. Said(d, k) \in Specs
          BY <4>4, <4>5 DEF Specs
        <4>9. [Said(d, k) EXCEPT !.replicas = c.replicas]
                = [bound.spec EXCEPT !.replicas = c.replicas]
          BY <4>4, <4>5, <4>7 DEF Specs
        <4>10. t[d] # None
          BY <4>8, NoneIsNoSpec
        <4>11. Applied(t, c)[d] = [t[d] EXCEPT !.replicas = c.replicas]
          BY <1>4, <2>4, <4>10 DEF Applied, Tables
        <4>. QED
          BY <4>6, <4>9, <4>11 DEF c
      <3>. QED
        BY <3>2, <3>3
    <2>. QED
      BY <1>1, <2>3, <2>4, CommandFields
  <1>. QED
    BY <1>3, <1>4

\* What a prefix of the log says stays, if its entries and their commands do.
LEMMA SaidStays ==
  ASSUME NEW k \in Nat, \A i \in 1..k : Entry(i)' = Entry(i), NEW d \in Deployments
  PROVE  Said(d, k)' = Said(d, k)
  <1>1. About(d, k)' = About(d, k)
    BY DEF About
  <1>2. About(d, k) \in SUBSET (1..k) /\ Bounds(d, k) \in SUBSET About(d, k)
    BY DEF About, Bounds
  <1>3. Bounds(d, k)' = Bounds(d, k)
    BY <1>1, <1>2 DEF Bounds
  <1>4. CASE Bounds(d, k) = {}
    BY <1>3, <1>4 DEF Said
  <1>5. CASE Bounds(d, k) # {}
    <2>1. Latest(Bounds(d, k)) \in 1..k /\ Latest(About(d, k)) \in 1..k
      <3>1. Bounds(d, k) \in SUBSET (1..k) /\ About(d, k) # {}
        BY <1>2, <1>5
      <3>. QED
        BY <1>2, <1>5, <3>1, LatestIn
    <2>2. /\ Entry(Latest(Bounds(d, k)))' = Entry(Latest(Bounds(d, k)))
          /\ Entry(Latest(About(d, k)))' = Entry(Latest(About(d, k)))
      BY <1>1, <1>3, <2>1
    <2>. QED
      BY <1>3, <2>2 DEF Said
  <1>. QED
    BY <1>4, <1>5

-----------------------------------------------------------------------------
\* The initial states

LEMMA InitIInv == Init => IInv
  <1>. SUFFICES ASSUME Init PROVE IInv
    OBVIOUS
  <1>1. log = <<>> /\ pending = <<>> /\ Len(log) = 0 /\ Len(pending) = 0
    BY DEF Init
  <1>2. NewFSM \in Tables
    BY DEF NewFSM, Tables
  <1>3. TypeOK
    BY <1>1, <1>2, RaftAssumption DEF Init, TypeOK, Snapshots
  <1>4. \A d \in Deployments : Said(d, 0) = None
    BY DEF Said, Bounds, About
  <1>5. StateIsReplay
    BY <1>4 DEF Init, StateIsReplay, NewFSM
  <1>6. Entered /\ Once
    BY <1>1 DEF Entered, Once
  <1>7. OkLogged /\ SnapshotsReplay
    BY DEF Init, OkLogged, SnapshotsReplay, Faithful
  <1>. QED
    BY <1>3, <1>5, <1>6, <1>7 DEF IInv

-----------------------------------------------------------------------------
\* Steps that leave the log and the commands alone: what the log says stays.

LEMMA SaidSame ==
  ASSUME UNCHANGED <<log, command>>
  PROVE  \A d, k : Said(d, k)' = Said(d, k)
  BY DEF Said, Bounds, About, Entry

\* A step that changes neither tables nor snapshots keeps the replicas right.
LEMMA ReplicasStay ==
  ASSUME IInv, UNCHANGED <<applied, fsm, taken, stored>>,
         \A d \in Deployments, k \in 0..Len(log) : Said(d, k)' = Said(d, k)
  PROVE  StateIsReplay' /\ SnapshotsReplay'
  <1>. USE DEF IInv
  <1>1. StateIsReplay'
    BY DEF StateIsReplay, TypeOK
  <1>2. ASSUME NEW s \in Snapshots, Faithful(s) PROVE Faithful(s)'
    <2>1. s # None => s.index \in 0..Len(log)
      BY <1>2 DEF Snapshots, TypeOK
    <2>. QED
      BY <1>2, <2>1 DEF Faithful
  <1>3. SnapshotsReplay'
    BY <1>2 DEF SnapshotsReplay, TypeOK
  <1>. QED
    BY <1>1, <1>3

\* The stage of a call moves on from where it has no entry.
LEMMA AskStep ==
  ASSUME IInv, NEW c \in Calls, (\E n \in Nodes : Ask(c, n)) \/ AskRefused(c) \/ EnqueueFails(c)
  PROVE  IInv'
  <1>. USE DEF IInv
  <1>1. /\ UNCHANGED <<log, pending, leader, believes, applied, fsm, taken, stored, command>>
        /\ stage[c] \in {"idle", "asked"}
        /\ \E v \in {"asked", "refused"} : stage' = [stage EXCEPT ![c] = v]
        /\ node' \in [Calls -> Nodes \cup {NoNode}]
    BY DEF Ask, AskRefused, EnqueueFails, raft, snap, TypeOK
  <1>2. TypeOK'
    BY <1>1 DEF TypeOK, Snapshots
  <1>3. Entered'
    <2>1. \A x \in Calls : Sent(x) => Sent(x)'
      BY <1>1 DEF Sent, TypeOK
    <2>2. /\ \A i \in 1..Len(log) : log[i] \in Calls
          /\ \A i \in 1..Len(pending) : pending[i] \in Calls
      BY DEF TypeOK
    <2>. QED
      BY <1>1, <2>1, <2>2 DEF Entered, Sent
  <1>4. Once' /\ OkLogged'
    BY <1>1 DEF Once, OkLogged, TypeOK
  <1>5. StateIsReplay' /\ SnapshotsReplay'
    BY <1>1, SaidSame, ReplicasStay
  <1>. QED
    BY <1>2, <1>3, <1>4, <1>5

LEMMA LeaderStep ==
  ASSUME IInv, NEW n \in Nodes, Elect(n) \/ StepDown(n)
  PROVE  IInv'
  <1>. USE DEF IInv
  <1>1. /\ UNCHANGED <<log, pending, applied, fsm, taken, stored, node, command>>
        /\ leader' \in Nodes \cup {NoNode} /\ believes' \subseteq Nodes
    BY DEF Elect, StepDown, call, snap, TypeOK
  <1>2. /\ stage' \in [Calls -> CallStages]
        /\ \A c \in Calls : stage'[c] = stage[c] \/ (stage[c] = "waiting" /\ stage'[c] = "lost")
    <2>1. CASE Elect(n)
      BY <2>1 DEF Elect, call, TypeOK, CallStages
    <2>2. CASE StepDown(n)
      <3>1. PICK L \in SUBSET {c \in Calls : stage[c] = "waiting" /\ node[c] = n} :
              stage' = [c \in Calls |-> IF c \in L THEN "lost" ELSE stage[c]]
        BY <2>2 DEF StepDown
      <3>. QED
        BY <3>1 DEF TypeOK, CallStages
    <2>. QED
      BY <2>1, <2>2
  <1>3. TypeOK'
    BY <1>1, <1>2 DEF TypeOK, Snapshots, CallStages
  <1>4. Entered'
    BY <1>1, <1>2 DEF Entered, Sent, TypeOK
  <1>5. Once' /\ OkLogged'
    BY <1>1, <1>2 DEF Once, OkLogged, TypeOK
  <1>6. StateIsReplay' /\ SnapshotsReplay'
    BY <1>1, SaidSame, ReplicasStay
  <1>. QED
    BY <1>3, <1>4, <1>5, <1>6

LEMMA DiscardStep ==
  ASSUME IInv, NEW i \in DOMAIN pending, Discard(i)
  PROVE  IInv'
  <1>. USE DEF IInv
  <1>1. /\ UNCHANGED <<log, leader, believes, applied, fsm, taken, stored, stage, node, command>>
        /\ pending' = RemoveAt(pending, i)
    BY DEF Discard, snap, call
  <1>2. pending \in Seq(Calls) /\ i \in 1..Len(pending) /\ Len(pending) \in Nat
    BY DEF TypeOK
  <1>3. /\ pending' \in Seq(Calls)
        /\ Len(pending') = Len(pending) - 1
        /\ \A k \in 1..(Len(pending) - 1) :
             pending'[k] = IF k < i THEN pending[k] ELSE pending[k + 1]
    BY <1>1, <1>2, RemoveAtOne
  <1>4. TypeOK'
    BY <1>1, <1>3 DEF TypeOK, Snapshots
  <1>5. Entered'
    BY <1>1, <1>2, <1>3 DEF Entered, Sent
  <1>6. Once'
    <2>. DEFINE From(k) == IF k < i THEN k ELSE k + 1
    <2>1. \A k \in 1..Len(pending') : From(k) \in 1..Len(pending) /\ pending'[k] = pending[From(k)]
      BY <1>2, <1>3
    <2>2. \A j, k \in 1..Len(pending') : From(j) = From(k) => j = k
      BY <1>2, <1>3
    <2>. HIDE DEF From
    <2>3. \A j, k \in 1..Len(pending') : pending'[j] = pending'[k] => j = k
      BY <2>1, <2>2 DEF Once
    <2>4. \A j \in 1..Len(log), k \in 1..Len(pending') : log[j] # pending'[k]
      BY <2>1 DEF Once
    <2>. QED
      BY <1>1, <2>3, <2>4 DEF Once
  <1>7. OkLogged'
    BY <1>1 DEF OkLogged
  <1>8. StateIsReplay' /\ SnapshotsReplay'
    BY <1>1, SaidSame, ReplicasStay
  <1>. QED
    BY <1>4, <1>5, <1>6, <1>7, <1>8

-----------------------------------------------------------------------------
\* Steps that write to the log

LEMMA EnqueueStep ==
  ASSUME IInv, NEW c \in Calls, NEW k \in Commands, Enqueue(c, k)
  PROVE  IInv'
  <1>. USE DEF IInv
  <1>1. /\ UNCHANGED <<log, leader, believes, applied, fsm, taken, stored, node>>
        /\ stage[c] = "asked"
        /\ stage' = [stage EXCEPT ![c] = "waiting"]
        /\ command' = [command EXCEPT ![c] = k]
        /\ pending' = Append(pending, c)
    BY DEF Enqueue, snap
  <1>2. /\ pending' \in Seq(Calls) /\ Len(pending) \in Nat
        /\ Len(pending') = Len(pending) + 1
        /\ \A i \in 1..Len(pending) : pending'[i] = pending[i]
        /\ pending'[Len(pending) + 1] = c
    BY <1>1 DEF TypeOK
  <1>3. /\ \A i \in 1..Len(log) : log[i] # c /\ log[i] \in Calls
        /\ \A i \in 1..Len(pending) : pending[i] # c /\ pending[i] \in Calls
    <2>1. /\ \A i \in 1..Len(log) : log[i] \in Calls
          /\ \A i \in 1..Len(pending) : pending[i] \in Calls
      BY DEF TypeOK
    <2>2. ~Sent(c)
      BY <1>1 DEF Sent
    <2>3. /\ \A i \in 1..Len(log) : log[i] # c
          /\ \A i \in 1..Len(pending) : pending[i] # c
      BY <2>2 DEF Entered
    <2>. QED
      BY <2>1, <2>3
  <1>4. TypeOK'
    BY <1>1, <1>2 DEF TypeOK, Snapshots
  <1>5. Entered'
    <2>1. \A x \in Calls : Sent(x) => Sent(x)'
      BY <1>1 DEF Sent, TypeOK
    <2>2. Sent(c)'
      BY <1>1 DEF Sent, TypeOK
    <2>3. \A i \in 1..Len(log)' : Sent(log[i])'
      BY <1>1, <1>3, <2>1 DEF Entered, Sent
    <2>4. \A i \in 1..Len(pending)' : Sent(pending[i])'
      <3>. SUFFICES ASSUME NEW i \in 1..Len(pending') PROVE Sent(pending[i])'
        OBVIOUS
      <3>1. CASE i = Len(pending) + 1
        BY <1>2, <2>2, <3>1 DEF Sent
      <3>2. CASE i \in 1..Len(pending)
        BY <1>2, <1>3, <2>1, <3>2 DEF Entered, Sent
      <3>. QED
        BY <1>2, <3>1, <3>2
    <2>. QED
      BY <2>3, <2>4 DEF Entered
  <1>6. Once'
    BY <1>1, <1>2, <1>3 DEF Once
  <1>7. OkLogged'
    BY <1>1 DEF OkLogged, TypeOK
  <1>8. StateIsReplay' /\ SnapshotsReplay'
    <2>1. \A i \in 1..Len(log) : Entry(i)' = Entry(i)
      BY <1>1, <1>3 DEF Entry, TypeOK
    <2>2. ASSUME NEW d \in Deployments, NEW j \in 0..Len(log)
          PROVE  Said(d, j)' = Said(d, j)
      <3>1. j \in Nat /\ \A i \in 1..j : Entry(i)' = Entry(i)
        BY <2>1 DEF TypeOK
      <3>. QED
        BY <3>1, SaidStays
    <2>. QED
      BY <1>1, <2>2, ReplicasStay
  <1>. QED
    BY <1>4, <1>5, <1>6, <1>7, <1>8

LEMMA CommitStep ==
  ASSUME IInv, Commit
  PROVE  IInv'
  <1>. USE DEF IInv
  <1>1. /\ UNCHANGED <<leader, believes, applied, fsm, taken, stored, stage, node, command>>
        /\ pending # <<>>
        /\ log' = Append(log, Head(pending))
        /\ pending' = Tail(pending)
    BY DEF Commit, snap, call
  <1>2. /\ log \in Seq(Calls) /\ pending \in Seq(Calls)
        /\ Len(log) \in Nat /\ Len(pending) \in Nat \ {0}
        /\ Head(pending) = pending[1] /\ pending[1] \in Calls
    BY <1>1 DEF TypeOK
  <1>3. /\ log' \in Seq(Calls) /\ Len(log') = Len(log) + 1
        /\ \A i \in 1..Len(log) : log'[i] = log[i]
        /\ log'[Len(log) + 1] = pending[1]
    BY <1>1, <1>2
  <1>4. /\ pending' \in Seq(Calls) /\ Len(pending') = Len(pending) - 1
        /\ \A i \in 1..(Len(pending) - 1) : pending'[i] = pending[i + 1]
    BY <1>1, <1>2
  <1>5. TypeOK'
    <2>1. 0..Len(log) \subseteq 0..Len(log') /\ 1..Len(log) \subseteq 1..Len(log')
      BY <1>2, <1>3
    <2>2. Snapshots \subseteq Snapshots'
      BY <2>1 DEF Snapshots
    <2>. QED
      BY <1>1, <1>3, <1>4, <2>1, <2>2 DEF TypeOK
  <1>6. Entered'
    <2>1. \A x : Sent(x)' = Sent(x)
      BY <1>1 DEF Sent
    <2>2. \A i \in 1..Len(log') : Sent(log'[i])
      <3>1. Sent(pending[1])
        BY <1>2 DEF Entered
      <3>. QED
        BY <1>2, <1>3, <3>1 DEF Entered
    <2>3. \A i \in 1..Len(pending') : Sent(pending'[i])
      BY <1>2, <1>4 DEF Entered
    <2>. QED
      BY <1>1, <2>2, <2>3 DEF Entered, Sent
  <1>7. Once'
    <2>1. \A i \in 1..Len(log) : log[i] # pending[1]
      BY <1>2 DEF Once
    <2>2. \A i, j \in 1..Len(log') : log'[i] = log'[j] => i = j
      BY <1>2, <1>3, <2>1 DEF Once
    <2>3. ASSUME NEW i \in 1..Len(pending'), NEW j \in 1..Len(pending'),
                 pending'[i] = pending'[j]
          PROVE  i = j
      <3>1. /\ i + 1 \in 1..Len(pending) /\ j + 1 \in 1..Len(pending)
            /\ pending[i + 1] = pending[j + 1]
        BY <1>2, <1>4, <2>3
      <3>2. i + 1 = j + 1
        BY <3>1 DEF Once
      <3>. QED
        BY <1>2, <1>4, <3>2
    <2>4. ASSUME NEW i \in 1..Len(log'), NEW j \in 1..Len(pending')
          PROVE  log'[i] # pending'[j]
      <3>1. /\ pending'[j] = pending[j + 1]
            /\ j + 1 \in 1..Len(pending) /\ 1 \in 1..Len(pending) /\ j + 1 # 1
        BY <1>2, <1>4
      <3>2. CASE i \in 1..Len(log)
        BY <1>3, <3>1, <3>2 DEF Once
      <3>3. CASE i = Len(log) + 1
        BY <1>3, <3>1, <3>3 DEF Once
      <3>. QED
        BY <1>2, <1>3, <3>2, <3>3
    <2>. QED
      BY <2>2, <2>3, <2>4 DEF Once
  <1>8. OkLogged'
    BY <1>1, <1>2, <1>3 DEF OkLogged
  <1>9. StateIsReplay' /\ SnapshotsReplay'
    <2>1. \A i \in 1..Len(log) : Entry(i)' = Entry(i)
      BY <1>1, <1>3 DEF Entry
    <2>2. ASSUME NEW d \in Deployments, NEW j \in 0..Len(log)
          PROVE  Said(d, j)' = Said(d, j)
      <3>1. j \in Nat /\ \A i \in 1..j : Entry(i)' = Entry(i)
        BY <1>2, <2>1
      <3>. QED
        BY <3>1, SaidStays
    <2>. QED
      BY <1>1, <2>2, ReplicasStay
  <1>. QED
    BY <1>5, <1>6, <1>7, <1>8, <1>9

-----------------------------------------------------------------------------
\* The state machine and its snapshots

LEMMA ApplyStep ==
  ASSUME IInv, NEW n \in Nodes, Apply(n)
  PROVE  IInv'
  <1>. USE DEF IInv
  <1>. DEFINE k == applied[n]
              c == log[k + 1]
  <1>1. k \in 0..Len(log) /\ k < Len(log) /\ Len(log) \in Nat /\ k \in Nat
    BY DEF Apply, TypeOK
  <1>2. k + 1 \in 1..Len(log) /\ c \in Calls /\ command[c] \in Commands
    <2>1. k + 1 \in 1..Len(log)
      BY <1>1
    <2>. QED
      BY <2>1 DEF TypeOK, Entered, Sent
  <1>3. /\ UNCHANGED <<log, pending, leader, believes, taken, stored, node, command>>
        /\ fsm' = [fsm EXCEPT ![n] = Applied(fsm[n], Entry(k + 1))]
        /\ applied' = [applied EXCEPT ![n] = k + 1]
        /\ stage' = stage \/ (stage[c] = "waiting" /\ stage' = [stage EXCEPT ![c] = "ok"])
    BY DEF Apply, raft, snap, Entry
  <1>4. Applied(fsm[n], Entry(k + 1)) \in Tables
    <2>1. fsm[n] \in Tables /\ Entry(k + 1) \in Commands
      BY <1>2 DEF TypeOK, Entry
    <2>. QED
      BY <2>1, AppliedType
  <1>5. TypeOK'
    <2>1. stage' \in [Calls -> CallStages]
      BY <1>2, <1>3 DEF TypeOK, CallStages
    <2>2. applied' \in [Nodes -> 0..Len(log)] /\ fsm' \in [Nodes -> Tables]
      BY <1>1, <1>3, <1>4 DEF TypeOK
    <2>. QED
      BY <1>3, <2>1, <2>2 DEF TypeOK, Snapshots, CallStages
  <1>6. Entered'
    <2>1. \A x \in Calls : Sent(x) => Sent(x)'
      BY <1>2, <1>3 DEF Sent, TypeOK
    <2>2. /\ \A i \in 1..Len(log) : log[i] \in Calls
          /\ \A i \in 1..Len(pending) : pending[i] \in Calls
      BY DEF TypeOK
    <2>. QED
      BY <1>3, <2>1, <2>2 DEF Entered, Sent
  <1>7. Once'
    BY <1>3 DEF Once
  <1>8. OkLogged'
    BY <1>2, <1>3 DEF OkLogged, TypeOK
  <1>9. \A d, j : Said(d, j)' = Said(d, j)
    BY <1>3, SaidSame
  <1>10. StateIsReplay'
    <2>. SUFFICES ASSUME NEW m \in Nodes, NEW d \in Deployments
         PROVE  fsm'[m][d] = Said(d, applied'[m])
      BY <1>9 DEF StateIsReplay
    <2>1. CASE m # n
      BY <1>3, <2>1 DEF StateIsReplay, TypeOK
    <2>2. CASE m = n
      <3>1. fsm'[m] = Applied(fsm[n], Entry(k + 1)) /\ applied'[m] = k + 1
        BY <1>3, <2>2 DEF TypeOK
      <3>2. fsm[n] \in Tables /\ fsm[n][d] = Said(d, k)
        BY DEF StateIsReplay, TypeOK
      <3>3. \A i \in 1..(k + 1) : Entry(i) \in Commands
        BY <1>1 DEF Entered, Sent, Entry
      <3>. QED
        BY <1>1, <3>1, <3>2, <3>3, SaidStep
    <2>. QED
      BY <2>1, <2>2
  <1>11. SnapshotsReplay'
    BY <1>3, <1>9 DEF SnapshotsReplay, Faithful
  <1>. QED
    BY <1>5, <1>6, <1>7, <1>8, <1>10, <1>11

LEMMA SnapshotStep ==
  ASSUME IInv, NEW n \in Nodes, Snapshot(n) \/ Persist(n) \/ PersistFails(n)
  PROVE  IInv'
  <1>. USE DEF IInv
  <1>1. UNCHANGED <<log, pending, leader, believes, applied, fsm, stage, node, command>>
    BY DEF Snapshot, Persist, PersistFails, raft, call
  <1>2. \A d, j : Said(d, j)' = Said(d, j)
    BY <1>1, SaidSame
  <1>3. /\ taken' \in [Nodes -> Snapshots] /\ stored' \in [Nodes -> Snapshots]
        /\ \A m \in Nodes : Faithful(taken'[m]) /\ Faithful(stored'[m])
    <2>1. CASE Snapshot(n)
      <3>. DEFINE s == [index |-> applied[n], table |-> fsm[n]]
      <3>1. applied[n] \in 0..Len(log) /\ fsm[n] \in Tables /\ Len(log) \in Nat
        BY DEF TypeOK
      <3>2. applied[n] > 0
        <4>1. stored[n] # None => stored[n].index \in 1..Len(log)
          BY DEF TypeOK, Snapshots
        <4>. QED
          BY <2>1, <3>1, <4>1 DEF Snapshot
      <3>3. s \in Snapshots
        BY <3>1, <3>2 DEF Snapshots
      <3>4. Faithful(s)
        BY DEF Faithful, StateIsReplay
      <3>5. taken' = [taken EXCEPT ![n] = s] /\ stored' = stored
        BY <2>1 DEF Snapshot
      <3>. HIDE DEF s
      <3>. QED
        BY <3>3, <3>4, <3>5 DEF TypeOK, SnapshotsReplay
    <2>2. CASE Persist(n)
      <3>1. /\ taken' = [taken EXCEPT ![n] = None]
            /\ stored' = stored \/ stored' = [stored EXCEPT ![n] = taken[n]]
        BY <2>2 DEF Persist
      <3>2. None \in Snapshots /\ Faithful(None)
        BY DEF Snapshots, Faithful
      <3>. QED
        BY <3>1, <3>2 DEF TypeOK, SnapshotsReplay
    <2>3. CASE PersistFails(n)
      <3>1. taken' = [taken EXCEPT ![n] = None] /\ stored' = stored
        BY <2>3 DEF PersistFails
      <3>2. None \in Snapshots /\ Faithful(None)
        BY DEF Snapshots, Faithful
      <3>. QED
        BY <3>1, <3>2 DEF TypeOK, SnapshotsReplay
    <2>. QED
      BY <2>1, <2>2, <2>3
  <1>4. TypeOK'
    BY <1>1, <1>3 DEF TypeOK, Snapshots
  <1>5. Entered' /\ Once' /\ OkLogged'
    BY <1>1 DEF Entered, Sent, Once, OkLogged
  <1>6. StateIsReplay'
    BY <1>1, <1>2 DEF StateIsReplay
  <1>7. SnapshotsReplay'
    BY <1>2, <1>3 DEF SnapshotsReplay, Faithful
  <1>. QED
    BY <1>4, <1>5, <1>6, <1>7

LEMMA InstallStep ==
  ASSUME IInv, NEW n \in Nodes, NEW m \in Nodes, InstallSnapshot(n, m)
  PROVE  IInv'
  <1>. USE DEF IInv
  <1>1. /\ UNCHANGED <<log, pending, leader, believes, taken, stage, node, command>>
        /\ stored[m] # None
        /\ fsm' = [fsm EXCEPT ![n] = stored[m].table]
        /\ applied' = [applied EXCEPT ![n] = stored[m].index]
        /\ stored' = [stored EXCEPT ![n] = stored[m]]
    BY DEF InstallSnapshot, raft, call, Restored
  <1>2. \A d, j : Said(d, j)' = Said(d, j)
    BY <1>1, SaidSame
  <1>3. /\ stored[m] \in Snapshots /\ stored[m].table \in Tables
        /\ stored[m].index \in 0..Len(log)
    BY <1>1 DEF TypeOK, Snapshots
  <1>4. TypeOK'
    BY <1>1, <1>3 DEF TypeOK, Snapshots
  <1>5. Entered' /\ Once' /\ OkLogged'
    BY <1>1 DEF Entered, Sent, Once, OkLogged
  <1>6. \A d \in Deployments : stored[m].table[d] = Said(d, stored[m].index)
    BY <1>1 DEF SnapshotsReplay, Faithful
  <1>7. StateIsReplay'
    BY <1>1, <1>2, <1>6 DEF StateIsReplay, TypeOK
  <1>8. SnapshotsReplay'
    <2>1. \A i \in Nodes : Faithful(stored'[i]) /\ Faithful(taken'[i])
      BY <1>1 DEF SnapshotsReplay, TypeOK
    <2>. QED
      BY <1>2, <2>1 DEF SnapshotsReplay, Faithful
  <1>. QED
    BY <1>4, <1>5, <1>7, <1>8

LEMMA RestartStep ==
  ASSUME IInv, NEW n \in Nodes, Restart(n)
  PROVE  IInv'
  <1>. USE DEF IInv
  <1>. DEFINE s == IF stored[n] = None THEN [index |-> 0, table |-> NewFSM] ELSE stored[n]
  <1>1. /\ UNCHANGED <<log, pending, stored, node, command>>
        /\ fsm' = [fsm EXCEPT ![n] = s.table]
        /\ applied' = [applied EXCEPT ![n] = s.index]
        /\ taken' = [taken EXCEPT ![n] = None]
        /\ believes' = believes \ {n}
        /\ leader' \in {leader, NoNode}
        /\ stage' = [c \in Calls |-> IF node[c] = n /\ stage[c] \in {"asked", "waiting"}
                                     THEN "gone" ELSE stage[c]]
    BY DEF Restart, Restored
  <1>2. \A d, j : Said(d, j)' = Said(d, j)
    BY <1>1, SaidSame
  <1>3. s.table \in Tables /\ s.index \in 0..Len(log)
    <2>1. CASE stored[n] = None
      BY <2>1 DEF TypeOK, NewFSM, Tables
    <2>2. CASE stored[n] # None
      BY <2>2 DEF TypeOK, Snapshots
    <2>. QED
      BY <2>1, <2>2
  <1>4. \A d \in Deployments : s.table[d] = Said(d, s.index)
    <2>1. CASE stored[n] = None
      <3>1. \A d \in Deployments : Said(d, 0) = None
        BY DEF Said, Bounds, About
      <3>. QED
        BY <2>1, <3>1 DEF NewFSM
    <2>2. CASE stored[n] # None
      BY <2>2 DEF SnapshotsReplay, Faithful
    <2>. QED
      BY <2>1, <2>2
  <1>. HIDE DEF s
  <1>5. TypeOK'
    <2>1. stage' \in [Calls -> CallStages]
      BY <1>1 DEF TypeOK, CallStages
    <2>2. applied' \in [Nodes -> 0..Len(log)] /\ fsm' \in [Nodes -> Tables]
      BY <1>1, <1>3 DEF TypeOK
    <2>3. taken' \in [Nodes -> Snapshots]
      BY <1>1 DEF TypeOK, Snapshots
    <2>. QED
      BY <1>1, <2>1, <2>2, <2>3 DEF TypeOK, Snapshots, CallStages
  <1>6. Entered'
    <2>1. \A x \in Calls : Sent(x) => Sent(x)'
      BY <1>1 DEF Sent, TypeOK
    <2>2. /\ \A i \in 1..Len(log) : log[i] \in Calls
          /\ \A i \in 1..Len(pending) : pending[i] \in Calls
      BY DEF TypeOK
    <2>. QED
      BY <1>1, <2>1, <2>2 DEF Entered, Sent
  <1>7. Once' /\ OkLogged'
    BY <1>1 DEF Once, OkLogged
  <1>8. StateIsReplay'
    BY <1>1, <1>2, <1>4 DEF StateIsReplay, TypeOK
  <1>9. SnapshotsReplay'
    <2>1. \A i \in Nodes : Faithful(stored'[i]) /\ Faithful(taken'[i])
      BY <1>1 DEF SnapshotsReplay, TypeOK, Faithful
    <2>. QED
      BY <1>2, <2>1 DEF SnapshotsReplay, Faithful
  <1>. QED
    BY <1>5, <1>6, <1>7, <1>8, <1>9

LEMMA StutterStep ==
  ASSUME IInv, UNCHANGED vars
  PROVE  IInv'
  <1>1. UNCHANGED <<log, pending, leader, believes, applied, fsm, taken, stored,
                    stage, node, command>>
    BY DEF vars, raft, snap, call
  <1>2. \A d, j : Said(d, j)' = Said(d, j)
    BY <1>1, SaidSame
  <1>3. (TypeOK /\ Entered /\ Once /\ OkLogged)'
    BY <1>1 DEF IInv, TypeOK, Snapshots, Entered, Sent, Once, OkLogged
  <1>4. (StateIsReplay /\ SnapshotsReplay)'
    BY <1>1, <1>2, ReplicasStay
  <1>. QED
    BY <1>3, <1>4 DEF IInv

-----------------------------------------------------------------------------
LEMMA StepIInv == IInv /\ [Next]_vars => IInv'
  <1>. SUFFICES ASSUME IInv, [Next]_vars PROVE IInv'
    OBVIOUS
  <1>1. ASSUME NEW c \in Calls, Client(c) PROVE IInv'
    BY <1>1, AskStep, EnqueueStep DEF Client
  <1>2. CASE Library
    BY <1>2, CommitStep, DiscardStep, LeaderStep DEF Library
  <1>3. ASSUME NEW n \in Nodes, Member(n) PROVE IInv'
    BY <1>3, ApplyStep, SnapshotStep, InstallStep, RestartStep DEF Member
  <1>. QED
    BY <1>1, <1>2, <1>3, StutterStep DEF Next

\* The invariant everything below rests on.
THEOREM Inductive == Spec => []IInv
  <1>. QED
    BY InitIInv, StepIInv, PTL DEF Spec

\* Type correctness.
THEOREM TypeCorrect == Spec => []TypeOK
  <1>1. IInv => TypeOK
    BY DEF IInv
  <1>. QED
    BY <1>1, Inductive, PTL

\* Whatever crashes, falls behind, is restored from a snapshot or loses its
\* leader, the table of a node is what the entries it applied say.
THEOREM ReplicasCorrect == Spec => []StateIsReplay
  <1>1. IInv => StateIsReplay
    BY DEF IInv
  <1>. QED
    BY <1>1, Inductive, PTL

\* A call that succeeded has one committed entry, a call that was refused none
\* and none that could still be committed.
THEOREM AnswersCorrect == Spec => []AnswerMeansLogged
  <1>1. IInv => AnswerMeansLogged
    <2>. SUFFICES ASSUME IInv, NEW c \in Calls
         PROVE  /\ stage[c] = "ok" => Cardinality({i \in DOMAIN log : log[i] = c}) = 1
                /\ stage[c] = "refused" => ~InLog(c) /\ ~Pending(c)
      BY DEF AnswerMeansLogged
    <2>. USE DEF IInv
    <2>1. DOMAIN log = 1..Len(log) /\ DOMAIN pending = 1..Len(pending)
      BY DEF TypeOK
    <2>2. ASSUME stage[c] = "ok"
          PROVE  Cardinality({i \in DOMAIN log : log[i] = c}) = 1
      <3>1. PICK i \in 1..Len(log) : log[i] = c
        BY <2>2 DEF OkLogged
      <3>2. {j \in DOMAIN log : log[j] = c} = {i}
        BY <2>1, <3>1 DEF Once
      <3>. QED
        BY <3>2, FS_Singleton
    <2>3. ASSUME stage[c] = "refused" PROVE ~InLog(c) /\ ~Pending(c)
      BY <2>1, <2>3 DEF Entered, Sent, InLog, Pending
    <2>. QED
      BY <2>2, <2>3
  <1>. QED
    BY <1>1, Inductive, PTL

-----------------------------------------------------------------------------
\* Refinement of ReplicatedTable

\* No snapshot is ahead of the node that holds it, so a restart goes back.
Behind ==
  \A n \in Nodes : /\ taken[n] # None => taken[n].index <= applied[n]
                   /\ stored[n] # None => stored[n].index <= applied[n]

LEMMA BehindStep == TypeOK /\ Behind /\ [Next]_vars => Behind'
  <1>. SUFFICES ASSUME TypeOK, Behind, [Next]_vars PROVE Behind'
    OBVIOUS
  <1>0. /\ applied \in [Nodes -> 0..Len(log)] /\ Len(log) \in Nat
        /\ taken \in [Nodes -> Snapshots] /\ stored \in [Nodes -> Snapshots]
        /\ \A s \in Snapshots : s # None => s.index \in Nat
    BY DEF TypeOK, Snapshots
  <1>1. CASE UNCHANGED <<applied, taken, stored>>
    BY <1>1 DEF Behind
  <1>2. ASSUME NEW n \in Nodes, Apply(n) PROVE Behind'
    BY <1>0, <1>2 DEF Apply, Behind, snap
  <1>3. ASSUME NEW n \in Nodes, Snapshot(n) PROVE Behind'
    BY <1>0, <1>3 DEF Snapshot, Behind
  <1>4. ASSUME NEW n \in Nodes, Persist(n) \/ PersistFails(n) PROVE Behind'
    BY <1>0, <1>4 DEF Persist, PersistFails, Behind
  <1>5. ASSUME NEW n \in Nodes, NEW m \in Nodes, InstallSnapshot(n, m) PROVE Behind'
    BY <1>0, <1>5 DEF InstallSnapshot, Behind
  <1>6. ASSUME NEW n \in Nodes, Restart(n) PROVE Behind'
    BY <1>0, <1>6 DEF Restart, Behind
  <1>7. ASSUME NEW c \in Calls, Client(c) PROVE UNCHANGED <<applied, taken, stored>>
    BY <1>7 DEF Client, Ask, AskRefused, Enqueue, EnqueueFails, snap
  <1>8. CASE Library
    BY <1>1, <1>8 DEF Library, Commit, Discard, Elect, StepDown, snap
  <1>9. CASE UNCHANGED vars
    BY <1>1, <1>9 DEF vars, snap
  <1>. QED
    BY <1>1, <1>2, <1>3, <1>4, <1>5, <1>6, <1>7, <1>8, <1>9 DEF Next, Member

\* The one table after each number of entries, and what the callers know.
History == [i \in 0..Len(log) |-> [d \in Deployments |-> Said(d, i)]]
Answers == [c \in Calls |-> Answer(stage[c])]

\* A table that holds what the first k entries say is the one after k effects.
LEMMA IsVersion ==
  ASSUME NEW k \in 0..Len(log), NEW t \in Tables, \A d \in Deployments : t[d] = Said(d, k)
  PROVE  t = History[k]
  BY DEF History, Tables

\* What the log says of a deployment is a spec or nothing.
LEMMA SaidType ==
  ASSUME IInv, NEW k \in 0..Len(log), NEW d \in Deployments
  PROVE  Said(d, k) \in Specs \cup {None}
  <1>1. k \in Nat /\ \A i \in 1..k : Entry(i) \in Commands
    BY DEF IInv, TypeOK, Entered, Sent, Entry
  <1>2. About(d, k) \in SUBSET (1..k) /\ Bounds(d, k) \in SUBSET About(d, k)
    BY DEF About, Bounds
  <1>. DEFINE bound == Entry(Latest(Bounds(d, k)))
              last  == Entry(Latest(About(d, k)))
  <1>3. CASE Bounds(d, k) = {} \/ bound.op = "STOP"
    BY <1>3 DEF Said
  <1>4. CASE ~(Bounds(d, k) = {} \/ bound.op = "STOP")
    <2>1. Latest(Bounds(d, k)) \in Bounds(d, k) /\ Latest(About(d, k)) \in About(d, k)
      <3>1. Bounds(d, k) # {} /\ About(d, k) # {} /\ Bounds(d, k) \in SUBSET (1..k)
        BY <1>2, <1>4
      <3>. QED
        BY <1>1, <1>2, <3>1, LatestIn
    <2>2. bound \in Commands /\ last \in Commands /\ bound.op # "SCALE"
      BY <1>1, <1>2, <2>1 DEF Bounds
    <2>. HIDE DEF bound, last
    <2>3. bound.spec \in Specs /\ (last.op = "SCALE" => last.replicas \in Counts)
      BY <1>4, <2>2, CommandFields
    <2>4. Said(d, k) = IF last.op = "SCALE" THEN [bound.spec EXCEPT !.replicas = last.replicas]
                       ELSE bound.spec
      BY <1>4 DEF Said, bound, last
    <2>. QED
      BY <2>3, <2>4 DEF Specs
  <1>. QED
    BY <1>3, <1>4

\* The two ways to say what a command does.
LEMMA EffectIsApplied ==
  ASSUME NEW t \in Tables, NEW k \in Commands
  PROVE  Table!Effect(t, k) = Applied(t, k)
  <1>1. Applied(t, k) \in Tables
    BY AppliedType
  <1>2. ASSUME NEW d \in Deployments PROVE Table!Becomes(t, k, d) = Applied(t, k)[d]
    <2>1. CASE d # k.id
      BY <2>1, CommandFields DEF Table!Becomes, Applied, Tables
    <2>2. CASE d = k.id
      BY <2>2, CommandFields DEF Table!Becomes, Applied, Tables
    <2>. QED
      BY <2>1, <2>2
  <1>. QED
    BY <1>1, <1>2 DEF Table!Effect, Tables

\* What the stages of a call mean to its caller.
LEMMA AnswerOf ==
  ASSUME NEW s \in CallStages
  PROVE  /\ s \in {"idle", "asked"} => Answer(s) = "none"
         /\ s = "waiting" => Answer(s) = "open"
         /\ s \in {"ok", "refused"} => Answer(s) = s
         /\ s \in {"lost", "gone"} => Answer(s) = "unknown"
  BY DEF Answer, CallStages

\* SaidStep, of any state and so of the next one.
SaidFollows ==
  \A k \in Nat, t \in Tables, d \in Deployments :
    (\A i \in 1..(k + 1) : Entry(i) \in Commands) /\ t[d] = Said(d, k)
      => Applied(t, Entry(k + 1))[d] = Said(d, k + 1)

LEMMA SaidFollowsNow == SaidFollows
  BY SaidStep DEF SaidFollows

LEMMA SaidFollowsNext == SaidFollows'
  BY SaidFollowsNow, PTL

LEMMA InitTable == Init => Table!Init
  <1>. SUFFICES ASSUME Init PROVE Table!Init
    OBVIOUS
  <1>1. log = <<>> /\ Len(log) = 0
    BY DEF Init
  <1>2. \A d \in Deployments : Said(d, 0) = None
    BY DEF Said, Bounds, About
  <1>3. History = [i \in 0..0 |-> [d \in Deployments |-> None]]
    BY <1>1, <1>2 DEF History
  <1>4. Answers = [c \in Calls |-> "none"]
    BY AnswerOf DEF Init, Answers, CallStages
  <1>5. 0 \in 0..0
    OBVIOUS
  <1>. QED
    BY <1>1, <1>3, <1>4, <1>5 DEF Init, NewFSM, Table!Init, History, Answers

\* A call issues its command when it hands over its entry.
LEMMA ClientTable ==
  ASSUME IInv, IInv', NEW c \in Calls, Client(c)
  PROVE  [Table!Next]_Table!vars
  <1>. USE DEF IInv
  <1>0. log' = log /\ stage \in [Calls -> CallStages] /\ command \in [Calls -> Commands \cup {None}]
    BY DEF Client, Ask, AskRefused, Enqueue, EnqueueFails, raft, TypeOK, CallStages
  <1>1. CASE \E n \in Nodes : Ask(c, n)
    <2>1. History' = History
      BY <1>1, SaidSame DEF Ask, raft, History
    <2>2. Answers' = Answers
      BY <1>0, <1>1, AnswerOf DEF Ask, Answers, CallStages
    <2>. QED
      BY <1>1, <2>1, <2>2 DEF Ask, raft, Table!vars, History, Answers
  <1>2. CASE AskRefused(c) \/ EnqueueFails(c)
    <2>1. History' = History
      BY <1>2, SaidSame DEF AskRefused, EnqueueFails, raft, History
    <2>2. /\ stage[c] \in {"idle", "asked"}
          /\ stage' = [stage EXCEPT ![c] = "refused"]
          /\ UNCHANGED <<log, applied, fsm, command>>
      BY <1>2 DEF AskRefused, EnqueueFails, raft
    <2>3. Answers[c] = "none" /\ Answers' = [Answers EXCEPT ![c] = "refused"]
      BY <1>0, <2>2, AnswerOf DEF Answers, CallStages
    <2>4. ~Table!TookEffect(c)
      BY <2>2 DEF Table!TookEffect, Entered, Sent
    <2>5. Table!Refuse(c)
      BY <2>1, <2>2, <2>3, <2>4 DEF Table!Refuse, History, Answers
    <2>. QED
      BY <2>5 DEF Table!Next
  <1>3. ASSUME NEW k \in Commands, Enqueue(c, k) PROVE [Table!Next]_Table!vars
    <2>1. /\ stage[c] = "asked" /\ stage' = [stage EXCEPT ![c] = "waiting"]
          /\ command' = [command EXCEPT ![c] = k]
          /\ UNCHANGED <<log, applied, fsm>>
      BY <1>3 DEF Enqueue
    <2>2. \A i \in 1..Len(log) : log[i] # c
      BY <2>1 DEF Entered, Sent
    <2>3. \A i \in 1..Len(log) : Entry(i)' = Entry(i)
      BY <1>0, <2>1, <2>2 DEF Entry
    <2>4. ASSUME NEW d \in Deployments, NEW j \in 0..Len(log) PROVE Said(d, j)' = Said(d, j)
      <3>1. j \in Nat /\ \A i \in 1..j : Entry(i)' = Entry(i)
        BY <2>3 DEF TypeOK
      <3>. QED
        BY <3>1, SaidStays
    <2>5. History' = History
      BY <2>1, <2>4 DEF History
    <2>6. Answers[c] = "none" /\ Answers' = [Answers EXCEPT ![c] = "open"]
      BY <1>0, <2>1, AnswerOf DEF Answers, CallStages
    <2>7. Table!Issue(c)
      BY <2>1, <2>5, <2>6 DEF Table!Issue, History, Answers
    <2>. QED
      BY <2>7 DEF Table!Next
  <1>. QED
    BY <1>1, <1>2, <1>3 DEF Client

\* The entry at the end of the log is the effect of its call.
LEMMA CommitTable ==
  ASSUME IInv, IInv', Commit
  PROVE  \E c \in Calls : Table!TakeEffect(c)
  <1>. USE DEF IInv
  <1>1. /\ UNCHANGED <<applied, fsm, stage, command>>
        /\ pending # <<>>
        /\ log' = Append(log, Head(pending))
    BY DEF Commit, call
  <1>. SUFFICES ASSUME NEW c \in Calls, c = pending[1], NEW k \in Nat, k = Len(log)
       PROVE  Table!TakeEffect(c)
    BY <1>1 DEF TypeOK
  <1>2. /\ log \in Seq(Calls) /\ pending \in Seq(Calls)
        /\ Head(pending) = c /\ 1 \in 1..Len(pending)
    BY <1>1 DEF TypeOK
  <1>3. /\ Len(log') = k + 1 /\ log' = Append(log, c)
        /\ \A i \in 1..k : log'[i] = log[i]
        /\ log'[k + 1] = c
    BY <1>1, <1>2
  <1>4. \A i \in 1..k : log[i] # c
    BY <1>2 DEF Once
  <1>5. Answers[c] \in {"open", "unknown"} /\ command[c] \in Commands
    <2>1. command[c] \in Commands /\ stage[c] \in {"waiting", "ok", "lost", "gone"}
      BY <1>2 DEF Entered, Sent
    <2>2. stage[c] # "ok"
      BY <1>2, <1>4 DEF OkLogged
    <2>3. Answer(stage[c]) \in {"open", "unknown"}
      BY <2>1, <2>2, AnswerOf DEF CallStages
    <2>. QED
      BY <1>2, <2>1, <2>3 DEF Answers
  <1>6. \A i \in 1..k : Entry(i)' = Entry(i)
    BY <1>1, <1>3 DEF Entry
  <1>7. ASSUME NEW d \in Deployments, NEW j \in 0..k PROVE Said(d, j)' = Said(d, j)
    <2>1. j \in Nat /\ \A i \in 1..j : Entry(i)' = Entry(i)
      BY <1>2, <1>6
    <2>. QED
      BY <2>1, SaidStays
  <1>8. History[k] \in Tables /\ \A d \in Deployments : History[k][d] = Said(d, k)
    <2>1. History[k] = [d \in Deployments |-> Said(d, k)]
      BY <1>2 DEF History
    <2>2. \A d \in Deployments : Said(d, k) \in Specs \cup {None}
      BY <1>2, SaidType
    <2>. QED
      BY <2>1, <2>2 DEF Tables
  <1>9. \A i \in 1..(k + 1) : Entry(i)' \in Commands
    BY <1>2, <1>3 DEF Entered, Sent, Entry
  <1>10. Entry(k + 1)' = command[c]
    BY <1>1, <1>3 DEF Entry
  <1>11. \A d \in Deployments : Applied(History[k], command[c])[d] = Said(d, k + 1)'
    <2>. SUFFICES ASSUME NEW d \in Deployments
         PROVE  Applied(History[k], command[c])[d] = Said(d, k + 1)'
      OBVIOUS
    <2>1. History[k][d] = Said(d, k)'
      BY <1>2, <1>7, <1>8
    <2>. DEFINE t == History[k]
    <2>2. t \in Tables /\ t[d] = Said(d, k)'
      BY <1>8, <2>1
    <2>. HIDE DEF t
    <2>. QED
      BY <1>2, <1>9, <1>10, <2>2, SaidFollowsNext DEF SaidFollows, t
  <1>12. [d \in Deployments |-> Said(d, k + 1)'] = Table!Effect(History[k], command[c])
    <2>1. Table!Effect(History[k], command[c]) = Applied(History[k], command[c])
      BY <1>5, <1>8, EffectIsApplied
    <2>2. Applied(History[k], command[c]) \in Tables
      BY <1>5, <1>8, AppliedType
    <2>. QED
      BY <1>11, <2>1, <2>2 DEF Tables
  <1>13. History' = [i \in 0..(k + 1) |->
                       IF i <= k THEN History[i] ELSE Table!Effect(History[k], command[c])]
    <2>1. History' = [i \in 0..(k + 1) |-> [d \in Deployments |-> Said(d, i)']]
      BY <1>3 DEF History
    <2>2. ASSUME NEW i \in 0..(k + 1), i <= k
          PROVE  [d \in Deployments |-> Said(d, i)'] = History[i]
      BY <1>2, <1>7, <2>2 DEF History
    <2>3. ASSUME NEW i \in 0..(k + 1), ~(i <= k)
          PROVE  [d \in Deployments |-> Said(d, i)'] = Table!Effect(History[k], command[c])
      <3>1. i = k + 1
        BY <1>2, <2>3
      <3>. QED
        BY <1>12, <3>1
    <2>. QED
      BY <2>1, <2>2, <2>3
  <1>14. Answers' = Answers
    BY <1>1 DEF Answers
  <1>15. ~Table!TookEffect(c)
    BY <1>4 DEF Table!TookEffect
  <1>. QED
    BY <1>1, <1>3, <1>5, <1>13, <1>14, <1>15 DEF Table!TakeEffect, History, Answers

\* Elections and lost entries show nobody anything; a leader that steps down
\* leaves callers in doubt.
LEMMA LeaderTable ==
  ASSUME IInv, NEW n \in Nodes, Elect(n) \/ StepDown(n)
  PROVE  [Table!Next]_Table!vars
  <1>1. /\ UNCHANGED <<log, applied, fsm, command>>
        /\ History' = History
    BY SaidSame DEF Elect, StepDown, call, History
  <1>2. CASE Elect(n)
    <2>1. Answers' = Answers
      BY <1>2 DEF Elect, call, Answers
    <2>. QED
      BY <1>1, <2>1 DEF Table!vars, History, Answers
  <1>3. CASE StepDown(n)
    <2>1. PICK L \in SUBSET {c \in Calls : stage[c] = "waiting" /\ node[c] = n} :
            stage' = [c \in Calls |-> IF c \in L THEN "lost" ELSE stage[c]]
      BY <1>3 DEF StepDown
    <2>2. L \in SUBSET Calls /\ \A c \in L : Answers[c] = "open"
      BY AnswerOf DEF Answers, CallStages
    <2>3. Answers' = [c \in Calls |-> IF c \in L THEN "unknown" ELSE Answers[c]]
      BY <2>1, AnswerOf DEF Answers, CallStages
    <2>4. Table!Lose
      BY <2>2, <2>3 DEF Table!Lose, Answers
    <2>5. Table!Disown
      BY <1>1, <2>4 DEF Table!Disown, History, Answers
    <2>. QED
      BY <2>5 DEF Table!Next
  <1>. QED
    BY <1>2, <1>3

\* A node that applies the next entry shows the next table, and answers the
\* call if it is its own.
LEMMA ApplyTable ==
  ASSUME IInv, IInv', NEW n \in Nodes, Apply(n)
  PROVE  Table!Next
  <1>. USE DEF IInv
  <1>. SUFFICES ASSUME NEW k \in Nat, k = applied[n] + 1 PROVE Table!Next
    BY DEF TypeOK
  <1>1. k \in 1..Len(log) /\ k \in 0..Len(log) /\ k > applied[n] /\ k >= 1 /\ log[k] \in Calls
    BY DEF Apply, TypeOK
  <1>. DEFINE c == log[k]
  <1>2. /\ UNCHANGED <<log, command>>
        /\ applied' = [applied EXCEPT ![n] = k]
        /\ \/ node[c] = n /\ stage[c] = "waiting" /\ stage' = [stage EXCEPT ![c] = "ok"]
           \/ stage' = stage
    BY DEF Apply, raft
  <1>3. History' = History
    BY <1>2, SaidSame DEF History
  <1>4. fsm' = [fsm EXCEPT ![n] = History[k]]
    <2>. DEFINE t == Applied(fsm[n], command[c])
    <2>1. fsm' = [fsm EXCEPT ![n] = t]
      BY DEF Apply
    <2>2. command[c] \in Commands /\ fsm[n] \in Tables
      BY <1>1 DEF Entered, Sent, TypeOK
    <2>3. t \in Tables
      BY <2>2, AppliedType
    <2>. HIDE DEF t
    <2>4. fsm'[n] = t /\ applied'[n] = k
      BY <1>2, <2>1 DEF TypeOK
    <2>5. \A d \in Deployments : t[d] = Said(d, k)
      BY <1>2, <2>4, SaidSame DEF StateIsReplay
    <2>6. t = History[k]
      BY <1>1, <2>3, <2>5, IsVersion
    <2>. QED
      BY <2>1, <2>6
  <1>5. Table!Show(n, k)
    BY <1>2, <1>4 DEF Table!Show, History
  <1>. HIDE DEF c
  <1>6. CASE stage' = stage
    <2>1. Answers' = Answers
      BY <1>6 DEF Answers
    <2>2. Table!Advance(n, k)
      BY <1>1, <1>2, <1>3, <1>5, <2>1 DEF Table!Advance, History, Answers
    <2>. QED
      BY <1>1, <2>2 DEF Table!Next
  <1>7. CASE stage[c] = "waiting" /\ stage' = [stage EXCEPT ![c] = "ok"]
    <2>1. c \in Calls /\ stage \in [Calls -> CallStages]
      BY <1>1 DEF c, TypeOK, CallStages
    <2>2. Answers[c] = "open" /\ Answers' = [Answers EXCEPT ![c] = "ok"]
      BY <1>7, <2>1, AnswerOf DEF Answers, CallStages
    <2>3. Table!Succeed(c, n, k)
      BY <1>1, <1>2, <1>3, <1>5, <2>2 DEF Table!Succeed, History, Answers, c
    <2>. QED
      BY <1>1, <2>1, <2>3 DEF Table!Next
  <1>. QED
    BY <1>2, <1>6, <1>7

\* Snapshots show nobody anything.
LEMMA SnapshotTable ==
  ASSUME NEW n \in Nodes, Snapshot(n) \/ Persist(n) \/ PersistFails(n)
  PROVE  UNCHANGED Table!vars
  <1>1. UNCHANGED <<log, applied, fsm, stage, command>>
    BY DEF Snapshot, Persist, PersistFails, raft, call
  <1>2. History' = History /\ Answers' = Answers
    BY <1>1, SaidSame DEF History, Answers
  <1>. QED
    BY <1>1, <1>2 DEF Table!vars, History, Answers

\* A snapshot that is installed is the table of a later time.
LEMMA InstallTable ==
  ASSUME IInv, NEW n \in Nodes, NEW m \in Nodes, InstallSnapshot(n, m)
  PROVE  Table!Next
  <1>. USE DEF IInv
  <1>. SUFFICES ASSUME NEW k \in 1..Len(log), k = stored[m].index, stored[m] # None,
                       stored[m].table \in Tables
       PROVE  Table!Next
    BY DEF InstallSnapshot, TypeOK, Snapshots
  <1>1. /\ UNCHANGED <<log, stage, command>>
        /\ k > applied[n]
        /\ applied' = [applied EXCEPT ![n] = k]
        /\ fsm' = [fsm EXCEPT ![n] = stored[m].table]
    BY DEF InstallSnapshot, raft, call, Restored
  <1>2. k \in 0..Len(log) /\ \A d \in Deployments : stored[m].table[d] = Said(d, k)
    BY DEF SnapshotsReplay, Faithful, TypeOK
  <1>3. stored[m].table = History[k]
    BY <1>2, IsVersion
  <1>4. History' = History /\ Answers' = Answers
    BY <1>1, SaidSame DEF History, Answers
  <1>5. Table!Advance(n, k)
    BY <1>1, <1>3, <1>4 DEF Table!Advance, Table!Show, History, Answers
  <1>. QED
    BY <1>2, <1>5 DEF Table!Next

\* A node that restarts shows the table of its snapshot, or the empty one, and
\* its callers never learn what became of their calls.
LEMMA RestartTable ==
  ASSUME IInv, Behind, NEW n \in Nodes, Restart(n)
  PROVE  Table!Next
  <1>. USE DEF IInv
  <1>. DEFINE s == IF stored[n] = None THEN [index |-> 0, table |-> NewFSM] ELSE stored[n]
  <1>1. /\ UNCHANGED <<log, command>>
        /\ fsm' = [fsm EXCEPT ![n] = s.table]
        /\ applied' = [applied EXCEPT ![n] = s.index]
        /\ stage' = [c \in Calls |-> IF node[c] = n /\ stage[c] \in {"asked", "waiting"}
                                     THEN "gone" ELSE stage[c]]
    BY DEF Restart, Restored
  <1>2. /\ s.table \in Tables /\ s.index \in 0..Len(log) /\ s.index <= applied[n]
        /\ \A d \in Deployments : s.table[d] = Said(d, s.index)
    <2>1. CASE stored[n] = None
      <3>1. \A d \in Deployments : Said(d, 0) = None
        BY DEF Said, Bounds, About
      <3>. QED
        BY <2>1, <3>1 DEF TypeOK, NewFSM, Tables
    <2>2. CASE stored[n] # None
      BY <2>2 DEF TypeOK, Snapshots, SnapshotsReplay, Faithful, Behind
    <2>. QED
      BY <2>1, <2>2
  <1>. HIDE DEF s
  <1>3. s.table = History[s.index]
    BY <1>2, IsVersion
  <1>4. History' = History
    BY <1>1, SaidSame DEF History
  <1>5. Table!Lose
    <2>. DEFINE C == {c \in Calls : node[c] = n /\ stage[c] \in {"asked", "waiting"}}
    <2>1. \A c \in C : Answers[c] \in {"none", "open"}
      BY AnswerOf DEF Answers, CallStages
    <2>2. Answers' = [c \in Calls |-> IF c \in C THEN "unknown" ELSE Answers[c]]
      BY <1>1, AnswerOf DEF Answers, CallStages
    <2>. QED
      BY <2>1, <2>2 DEF Table!Lose, Answers
  <1>6. Table!Crash(n, s.index)
    BY <1>1, <1>2, <1>3, <1>4, <1>5 DEF Table!Crash, Table!Show, History
  <1>. QED
    BY <1>2, <1>6 DEF Table!Next

LEMMA StepTable == IInv /\ IInv' /\ Behind /\ [Next]_vars => [Table!Next]_Table!vars
  <1>. SUFFICES ASSUME IInv, IInv', Behind, [Next]_vars PROVE [Table!Next]_Table!vars
    OBVIOUS
  <1>1. ASSUME NEW c \in Calls, Client(c) PROVE [Table!Next]_Table!vars
    BY <1>1, ClientTable
  <1>2. CASE Library
    <2>1. ASSUME NEW i \in DOMAIN pending, Discard(i) PROVE UNCHANGED Table!vars
      <3>1. UNCHANGED <<log, applied, fsm, stage, command>>
        BY <2>1 DEF Discard, call
      <3>2. History' = History /\ Answers' = Answers
        BY <3>1, SaidSame DEF History, Answers
      <3>. QED
        BY <3>1, <3>2 DEF Table!vars, History, Answers
    <2>2. CASE Commit
      BY <2>2, CommitTable DEF Table!Next
    <2>. QED
      BY <1>2, <2>1, <2>2, LeaderTable DEF Library
  <1>3. ASSUME NEW n \in Nodes, Member(n) PROVE [Table!Next]_Table!vars
    BY <1>3, ApplyTable, SnapshotTable, InstallTable, RestartTable DEF Member
  <1>4. CASE UNCHANGED vars
    <2>1. UNCHANGED <<log, applied, fsm, stage, command>>
      BY <1>4 DEF vars, raft, call
    <2>2. History' = History /\ Answers' = Answers
      BY <2>1, SaidSame DEF History, Answers
    <2>. QED
      BY <2>1, <2>2 DEF Table!vars, History, Answers
  <1>. QED
    BY <1>1, <1>2, <1>3, <1>4 DEF Next

\* The replicated scheduler is one table on which calls take effect one at a
\* time between their start and their answer, and every node shows the table of
\* some time, whatever is lost, overwritten, snapshotted and restarted.
THEOREM Refinement == Spec => TableSpec
  <1>1. Init => Behind
    BY DEF Init, Behind
  <1>2. Spec => []Behind
    BY <1>1, BehindStep, TypeCorrect, PTL DEF Spec
  <1>. QED
    BY InitTable, StepTable, <1>2, Inductive, PTL DEF Spec, TableSpec, Table!Spec
=============================================================================
