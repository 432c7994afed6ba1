------------------------- MODULE LogStream_proofs -------------------------
(***************************************************************************)
(* Proofs about LogStream, for any sets of writers, streams and topics and *)
(* any bounds.                                                             *)
(*                                                                         *)
(* That nobody sends on a closed channel rests on the lock: a broadcast    *)
(* reads the lists and sends while it holds the read lock, and a channel   *)
(* is closed under the write lock.  The order and the number of the lines  *)
(* a client is sent rest on its history and its channel taken as one       *)
(* sequence, at whose end alone lines come in.                             *)
(***************************************************************************)
EXTENDS LogStream, SequenceTheorems, FiniteSetTheorems, TLAPS

-----------------------------------------------------------------------------
\* Sequences

\* A sequence after one element is removed: what stays was there, at the same
\* place or the next.
LEMMA RemoveAtOne ==
  ASSUME NEW S, NEW q \in Seq(S), NEW i \in 1..Len(q)
  PROVE  /\ RemoveAt(q, i) \in Seq(S)
         /\ Len(RemoveAt(q, i)) = Len(q) - 1
         /\ \A k \in 1..(Len(q) - 1) :
              RemoveAt(q, i)[k] = IF k < i THEN q[k] ELSE q[k + 1]
  <1>. DEFINE a == SubSeq(q, 1, i - 1)
              b == SubSeq(q, i + 1, Len(q))
  <1>1. Len(q) \in Nat
    BY LenProperties
  <1>2. a \in Seq(S) /\ Len(a) = i - 1 /\ \A k \in 1..(i - 1) : a[k] = q[k]
    BY <1>1
  <1>3. b \in Seq(S) /\ Len(b) = Len(q) - i /\ \A k \in 1..(Len(q) - i) : b[k] = q[i + k]
    BY <1>1
  <1>. HIDE DEF a, b
  <1>4. /\ a \o b \in Seq(S)
        /\ Len(a \o b) = Len(q) - 1
        /\ \A k \in 1..(Len(q) - 1) :
             (a \o b)[k] = IF k <= i - 1 THEN a[k] ELSE b[k - (i - 1)]
    <2>1. /\ a \o b \in Seq(S)
          /\ Len(a \o b) = Len(a) + Len(b)
          /\ \A k \in 1..(Len(a) + Len(b)) :
               (a \o b)[k] = IF k <= Len(a) THEN a[k] ELSE b[k - Len(a)]
      <3>1. a \in Seq(S) /\ b \in Seq(S)
        BY <1>2, <1>3
      <3>. QED
        BY ONLY <3>1, ConcatProperties
    <2>2. Len(a) = i - 1 /\ Len(a) + Len(b) = Len(q) - 1
      BY <1>1, <1>2, <1>3
    <2>. QED
      BY <2>1, <2>2
  <1>5. \A k \in 1..(Len(q) - 1) : (a \o b)[k] = IF k < i THEN q[k] ELSE q[k + 1]
    <2>. SUFFICES ASSUME NEW k \in 1..(Len(q) - 1)
         PROVE  (a \o b)[k] = IF k < i THEN q[k] ELSE q[k + 1]
      OBVIOUS
    <2>1. CASE k < i
      BY <1>1, <1>2, <1>4, <2>1
    <2>2. CASE ~(k < i)
      <3>1. k - (i - 1) \in 1..(Len(q) - i) /\ i + (k - (i - 1)) = k + 1
        BY <1>1, <2>2
      <3>. QED
        BY <1>1, <1>3, <1>4, <2>2, <3>1
    <2>. QED
      BY <2>1, <2>2
  <1>. QED
    BY <1>4, <1>5 DEF RemoveAt, a, b

\* A sequence of a head and a tail, put together again.
LEMMA HeadAndTail ==
  ASSUME NEW S, NEW q \in Seq(S), q # <<>>
  PROVE  /\ Head(q) \in S /\ Tail(q) \in Seq(S) /\ <<Head(q)>> \in Seq(S)
         /\ q = <<Head(q)>> \o Tail(q)
  <1>1. Len(q) \in Nat \ {0} /\ Head(q) = q[1] /\ Head(q) \in S /\ Tail(q) \in Seq(S)
    OBVIOUS
  <1>2. SubSeq(q, 1, Len(q)) = <<q[1]>> \o SubSeq(q, 2, Len(q))
    BY <1>1, SubSeqRecursiveFirst
  <1>3. SubSeq(q, 1, Len(q)) = q /\ Tail(q) = SubSeq(q, 2, Len(q))
    BY SubSeqFull, TailIsSubSeq
  <1>4. <<Head(q)>> \in Seq(S)
    BY <1>1
  <1>. QED
    BY <1>1, <1>2, <1>3, <1>4

\* The end of a sequence grows with the sequence.
LEMMA EndOfAppend ==
  ASSUME NEW S, NEW q \in Seq(S), NEW x \in S, NEW m \in 0..Len(q)
  PROVE  SubSeq(Append(q, x), m + 1, Len(Append(q, x)))
           = Append(SubSeq(q, m + 1, Len(q)), x)
  <1>. DEFINE a == SubSeq(Append(q, x), m + 1, Len(Append(q, x)))
              e == SubSeq(q, m + 1, Len(q))
  <1>1. /\ Len(q) \in Nat /\ Append(q, x) \in Seq(S) /\ Len(Append(q, x)) = Len(q) + 1
        /\ \A i \in 1..Len(q) : Append(q, x)[i] = q[i]
        /\ Append(q, x)[Len(q) + 1] = x
    OBVIOUS
  <1>2. /\ a \in Seq(S) /\ Len(a) = Len(q) + 1 - m
        /\ \A i \in 1..(Len(q) + 1 - m) : a[i] = Append(q, x)[m + i]
    BY <1>1
  <1>3. /\ e \in Seq(S) /\ Len(e) = Len(q) - m
        /\ \A i \in 1..(Len(q) - m) : e[i] = q[m + i]
    BY <1>1
  <1>. HIDE DEF a, e
  <1>4. /\ Append(e, x) \in Seq(S) /\ Len(Append(e, x)) = Len(q) - m + 1
        /\ \A i \in 1..(Len(q) - m) : Append(e, x)[i] = e[i]
        /\ Append(e, x)[Len(q) - m + 1] = x
    BY <1>1, <1>3
  <1>5. ASSUME NEW i \in 1..Len(a) PROVE a[i] = Append(e, x)[i]
    <2>1. CASE i \in 1..(Len(q) - m)
      BY <1>1, <1>2, <1>3, <1>4, <2>1
    <2>2. CASE i = Len(q) - m + 1
      <3>1. m + i = Len(q) + 1 /\ i \in 1..(Len(q) + 1 - m)
        BY <1>1, <2>2
      <3>2. a[i] = x
        BY <1>1, <1>2, <3>1
      <3>. QED
        BY <1>4, <2>2, <3>2
    <2>3. i \in 1..(Len(q) + 1 - m)
      BY <1>2
    <2>4. i \in 1..(Len(q) - m) \/ i = Len(q) - m + 1
      <3>1. Len(q) \in Nat
        BY <1>1
      <3>. QED
        BY <2>3, <3>1
    <2>. QED
      BY <2>1, <2>2, <2>4
  <1>6. a = Append(e, x)
    <2>1. Len(a) = Len(Append(e, x))
      BY <1>1, <1>2, <1>4
    <2>. QED
      BY <1>2, <1>4, <1>5, <2>1, SeqEqual
  <1>. QED
    BY <1>6 DEF a, e

\* A sequence that loses an element after a: what stays was there, in the same
\* order.
LEMMA TailOfConcat ==
  ASSUME NEW S, NEW a \in Seq(S), NEW b \in Seq(S), b # <<>>
  PROVE  /\ a \o Tail(b) \in Seq(S)
         /\ Len(a \o b) = Len(a \o Tail(b)) + 1
         /\ \A k \in 1..Len(a \o Tail(b)) :
              (a \o Tail(b))[k] = (a \o b)[IF k <= Len(a) THEN k ELSE k + 1]
  <1>. DEFINE t == Tail(b)
  <1>1. /\ t \in Seq(S) /\ Len(t) = Len(b) - 1 /\ Len(a) \in Nat /\ Len(b) \in Nat \ {0}
        /\ \A k \in 1..Len(t) : t[k] = b[k + 1]
    OBVIOUS
  <1>. HIDE DEF t
  <1>2. /\ a \o t \in Seq(S) /\ Len(a \o t) = Len(a) + Len(t)
        /\ \A k \in 1..(Len(a) + Len(t)) :
             (a \o t)[k] = IF k <= Len(a) THEN a[k] ELSE t[k - Len(a)]
    BY <1>1, ConcatProperties
  <1>3. /\ Len(a \o b) = Len(a) + Len(b)
        /\ \A k \in 1..(Len(a) + Len(b)) :
             (a \o b)[k] = IF k <= Len(a) THEN a[k] ELSE b[k - Len(a)]
    BY ConcatProperties
  <1>4. ASSUME NEW k \in 1..Len(a \o t)
        PROVE  (a \o t)[k] = (a \o b)[IF k <= Len(a) THEN k ELSE k + 1]
    <2>1. CASE k <= Len(a)
      BY <1>1, <1>2, <1>3, <2>1
    <2>2. CASE ~(k <= Len(a))
      <3>1. /\ k - Len(a) \in 1..Len(t) /\ (k - Len(a)) + 1 = (k + 1) - Len(a)
            /\ k \in 1..(Len(a) + Len(t)) /\ k + 1 \in 1..(Len(a) + Len(b))
            /\ ~(k + 1 <= Len(a))
        BY <1>1, <1>2, <2>2
      <3>2. (a \o t)[k] = t[k - Len(a)] /\ (a \o b)[k + 1] = b[(k + 1) - Len(a)]
        BY <1>2, <1>3, <2>2, <3>1
      <3>3. t[k - Len(a)] = b[(k - Len(a)) + 1]
        BY <1>1, <3>1
      <3>. QED
        BY <2>2, <3>1, <3>2, <3>3
    <2>. QED
      BY <2>1, <2>2
  <1>5. Len(a \o b) = Len(a \o t) + 1
    BY <1>1, <1>2, <1>3
  <1>. QED
    BY <1>2, <1>4, <1>5 DEF t

-----------------------------------------------------------------------------
\* How often x occurs in q.
Occurs(q, x) == Cardinality({k \in 1..Len(q) : q[k] = x})

LEMMA OccursNat ==
  ASSUME NEW S, NEW q \in Seq(S), NEW x
  PROVE  /\ IsFiniteSet({k \in 1..Len(q) : q[k] = x})
         /\ Occurs(q, x) \in Nat
         /\ Occurs(q, x) = 0 <=> \A k \in 1..Len(q) : q[k] # x
  <1>. DEFINE P == {k \in 1..Len(q) : q[k] = x}
  <1>1. IsFiniteSet(1..Len(q))
    <2>1. Len(q) \in Nat
      BY LenProperties
    <2>. QED
      BY <2>1, FS_Interval
  <1>2. IsFiniteSet(P) /\ Cardinality(P) \in Nat /\ (Cardinality(P) = 0 <=> P = {})
    <2>1. P \in SUBSET (1..Len(q))
      OBVIOUS
    <2>. HIDE DEF P
    <2>. QED
      BY <1>1, <2>1, FS_Subset, FS_CardinalityType, FS_EmptySet
  <1>. QED
    BY <1>2 DEF Occurs

LEMMA OccursEmpty == \A x : Occurs(<<>>, x) = 0
  <1>1. \A x : {k \in 1..Len(<<>>) : <<>>[k] = x} = {}
    OBVIOUS
  <1>. QED
    BY <1>1, FS_EmptySet DEF Occurs

LEMMA OccursOne ==
  ASSUME NEW x, NEW y
  PROVE  Occurs(<<y>>, x) = IF y = x THEN 1 ELSE 0
  <1>1. {k \in 1..Len(<<y>>) : <<y>>[k] = x} = IF y = x THEN {1} ELSE {}
    OBVIOUS
  <1>. QED
    BY <1>1, FS_EmptySet, FS_Singleton DEF Occurs

\* The places of x in a \o b are its places in a and, shifted, those in b.
LEMMA OccursConcat ==
  ASSUME NEW S, NEW a \in Seq(S), NEW b \in Seq(S), NEW x
  PROVE  Occurs(a \o b, x) = Occurs(a, x) + Occurs(b, x)
  <1>. DEFINE A == {k \in 1..Len(a) : a[k] = x}
              B == {k \in 1..Len(b) : b[k] = x}
              C == {k \in (Len(a) + 1)..(Len(a) + Len(b)) : b[k - Len(a)] = x}
  <1>1. Len(a) \in Nat /\ Len(b) \in Nat
    BY LenProperties
  <1>2. IsFiniteSet(A) /\ IsFiniteSet(B) /\ Cardinality(A) = Occurs(a, x)
        /\ Cardinality(B) = Occurs(b, x) /\ Cardinality(A) \in Nat /\ Cardinality(B) \in Nat
    BY OccursNat DEF Occurs
  <1>3. {k \in 1..Len(a \o b) : (a \o b)[k] = x} = A \cup C
    <2>1. /\ Len(a \o b) = Len(a) + Len(b)
          /\ \A i \in 1..(Len(a) + Len(b)) :
               (a \o b)[i] = IF i <= Len(a) THEN a[i] ELSE b[i - Len(a)]
      BY ConcatProperties
    <2>. QED
      BY <1>1, <2>1
  <1>4. IsFiniteSet(C) /\ Cardinality(C) = Cardinality(B)
    <2>. DEFINE f == [k \in B |-> k + Len(a)]
    <2>1. f \in [B -> C]
      BY <1>1
    <2>2. \A j, k \in B : f[j] = f[k] => j = k
      BY <1>1
    <2>3. \A c \in C : \E k \in B : f[k] = c
      <3>. SUFFICES ASSUME NEW c \in C PROVE \E k \in B : f[k] = c
        OBVIOUS
      <3>1. c - Len(a) \in B /\ f[c - Len(a)] = c
        BY <1>1
      <3>. QED
        BY <3>1
    <2>4. ExistsBijection(B, C)
      <3>. HIDE DEF f, B, C
      <3>. QED
        BY <2>1, <2>2, <2>3 DEF ExistsBijection, Bijection, Injection, Surjection, IsInjective
    <2>. HIDE DEF f, B, C
    <2>. QED
      BY <1>2, <2>4, FS_Bijection
  <1>5. A \cap C = {}
    BY <1>1
  <1>6. Cardinality(A \cup C) = Cardinality(A) + Cardinality(C)
    <2>. HIDE DEF A, C
    <2>1. Cardinality(A \cup C) = Cardinality(A) + Cardinality(C) - Cardinality(A \cap C)
      BY <1>2, <1>4, FS_Union
    <2>2. Cardinality(A \cap C) = 0
      BY <1>5, FS_EmptySet
    <2>. QED
      BY <1>2, <1>4, <2>1, <2>2
  <1>. QED
    BY <1>2, <1>3, <1>4, <1>6 DEF Occurs

LEMMA OccursAppend ==
  ASSUME NEW S, NEW q \in Seq(S), NEW y \in S, NEW x
  PROVE  Occurs(Append(q, y), x) = Occurs(q, x) + (IF y = x THEN 1 ELSE 0)
  <1>1. <<y>> \in Seq(S) /\ Append(q, y) = q \o <<y>>
    BY AppendIsConcat
  <1>2. Occurs(q \o <<y>>, x) = Occurs(q, x) + Occurs(<<y>>, x)
    BY <1>1, OccursConcat
  <1>. QED
    BY <1>1, <1>2, OccursOne

LEMMA OccursTail ==
  ASSUME NEW S, NEW q \in Seq(S), q # <<>>, NEW x
  PROVE  Occurs(q, x) = (IF Head(q) = x THEN 1 ELSE 0) + Occurs(Tail(q), x)
  <1>1. /\ Head(q) \in S /\ Tail(q) \in Seq(S) /\ <<Head(q)>> \in Seq(S)
        /\ q = <<Head(q)>> \o Tail(q)
    BY HeadAndTail
  <1>2. Occurs(<<Head(q)>> \o Tail(q), x) = Occurs(<<Head(q)>>, x) + Occurs(Tail(q), x)
    BY <1>1, OccursConcat
  <1>. QED
    BY <1>1, <1>2, OccursOne

LEMMA OccursOnce ==
  ASSUME NEW S, NEW q \in Seq(S), NEW x,
         \A j, k \in 1..Len(q) : q[j] = x /\ q[k] = x => j = k
  PROVE  Occurs(q, x) <= 1
  <1>. DEFINE P == {k \in 1..Len(q) : q[k] = x}
  <1>1. CASE P = {}
    <2>1. Cardinality(P) = 0
      BY <1>1, FS_EmptySet
    <2>. QED
      BY <2>1 DEF Occurs
  <1>2. CASE P # {}
    <2>1. PICK k \in P : TRUE
      BY <1>2
    <2>2. P = {k}
      BY <2>1
    <2>3. Cardinality(P) = 1
      BY <2>2, FS_Singleton
    <2>. QED
      BY <2>3 DEF Occurs
  <1>. QED
    BY <1>1, <1>2

-----------------------------------------------------------------------------
\* The broker

Stages    == {"idle", "connected", "backfilled", "streaming", "leaving", "left"}
Line      == [by : Writers, topic : Topics, type : Types]
Listening == {"streaming", "leaving"}

\* The types of what the broker uses.
BrokerTypes ==
  /\ lines \in Seq(Line)
  /\ pc \in [Writers -> {"idle", "stamped", "stored", "sending"}]
  /\ line \in [Writers -> Nat]
  /\ todo \in [Writers -> Seq(Streams)]
  /\ subscribers \in [Topics -> Seq(Streams)]
  /\ closed \subseteq Streams
  /\ stage \in [Streams -> Stages]
  /\ query \in [Streams -> [topic : Topics, type : Types \cup {AnyType}]]

\* Whoever is writing a line has stamped it.
LineIsStamped == \A w \in Writers : pc[w] # "idle" => line[w] \in 1..Len(lines)

\* A list of channels holds channels of handlers that listen to its topic, each
\* of them once.
Listed ==
  \A t \in Topics : \A k \in 1..Len(subscribers[t]) :
    /\ stage[subscribers[t][k]] \in Listening
    /\ query[subscribers[t][k]].topic = t
    /\ \A j \in 1..Len(subscribers[t]) : subscribers[t][j] = subscribers[t][k] => j = k

\* Only with the read lock does a broadcast have channels to send to, and then
\* their handlers still listen.
Sending ==
  \A w \in Writers : \A k \in 1..Len(todo[w]) :
    pc[w] = "sending" /\ stage[todo[w][k]] \in Listening

ClosedLeft == \A s \in closed : stage[s] = "left"

BrokerInv == BrokerTypes /\ LineIsStamped /\ Listed /\ Sending /\ ClosedLeft

-----------------------------------------------------------------------------
LEMMA BrokerInit == Init => BrokerInv
  <1>. SUFFICES ASSUME Init PROVE BrokerInv
    OBVIOUS
  <1>. QED
    BY LogStreamAssumption
    DEF Init, BrokerInv, BrokerTypes, LineIsStamped, Listed, Sending, ClosedLeft, Stages

\* writeLog: Stamp and Insert leave the broker alone, Broadcast copies the two
\* lists, Send shortens what is left to do.
LEMMA StampStep ==
  ASSUME BrokerInv, NEW w \in Writers, Stamp(w)
  PROVE  BrokerInv'
  <1>. USE DEF BrokerInv
  <1>1. PICK about \in Says[w] :
          lines' = Append(lines, [by |-> w, topic |-> about.topic, type |-> about.type])
    BY DEF Stamp
  <1>2. [by |-> w, topic |-> about.topic, type |-> about.type] \in Line
    BY LogStreamAssumption DEF Line
  <1>3. lines' \in Seq(Line) /\ Len(lines') = Len(lines) + 1 /\ Len(lines) \in Nat
    BY <1>1, <1>2 DEF BrokerTypes
  <1>4. BrokerTypes'
    BY <1>3 DEF Stamp, BrokerTypes, stream
  <1>5. LineIsStamped'
    BY <1>3 DEF Stamp, BrokerTypes, LineIsStamped
  <1>6. Listed' /\ ClosedLeft'
    BY DEF Stamp, Listed, ClosedLeft, stream
  <1>7. Sending'
    BY DEF Stamp, Sending, BrokerTypes, stream
  <1>. QED
    BY <1>4, <1>5, <1>6, <1>7

LEMMA InsertStep ==
  ASSUME BrokerInv, NEW w \in Writers, Insert(w)
  PROVE  BrokerInv'
  <1>. USE DEF BrokerInv
  <1>1. BrokerTypes' /\ LineIsStamped' /\ Sending'
    BY DEF Insert, BrokerTypes, LineIsStamped, Sending, stream
  <1>2. Listed' /\ ClosedLeft'
    BY DEF Insert, Listed, ClosedLeft, stream
  <1>. QED
    BY <1>1, <1>2

LEMMA BroadcastStep ==
  ASSUME BrokerInv, NEW w \in Writers, Broadcast(w)
  PROVE  BrokerInv'
  <1>. USE DEF BrokerInv
  <1>. DEFINE t == lines[line[w]].topic
              a == subscribers[t]
              b == subscribers[All]
  <1>1. t \in Topics /\ All \in Topics
    <2>1. line[w] \in 1..Len(lines)
      BY DEF Broadcast, LineIsStamped
    <2>2. lines[line[w]] \in Line
      BY <2>1 DEF BrokerTypes
    <2>. QED
      BY <2>2, LogStreamAssumption DEF Line
  <1>2. a \in Seq(Streams) /\ b \in Seq(Streams)
    BY <1>1 DEF BrokerTypes
  <1>3. /\ a \o b \in Seq(Streams)
        /\ \A k \in 1..Len(a \o b) : \/ k \in 1..Len(a) /\ (a \o b)[k] = a[k]
                                     \/ k - Len(a) \in 1..Len(b) /\ (a \o b)[k] = b[k - Len(a)]
    <2>. HIDE DEF a, b
    <2>. QED
      BY <1>2
  <1>4. \A k \in 1..Len(a \o b) : stage[(a \o b)[k]] \in Listening
    <2>1. /\ \A k \in 1..Len(a) : stage[a[k]] \in Listening
          /\ \A k \in 1..Len(b) : stage[b[k]] \in Listening
      BY <1>1 DEF Listed
    <2>. HIDE DEF a, b
    <2>. QED
      BY <1>3, <2>1
  <1>5. todo' = [todo EXCEPT ![w] = a \o b]
    BY DEF Broadcast, Recipients
  <1>. HIDE DEF a, b
  <1>6. BrokerTypes'
    BY <1>3, <1>5 DEF Broadcast, BrokerTypes, stream
  <1>7. LineIsStamped' /\ Listed' /\ ClosedLeft'
    BY DEF Broadcast, BrokerTypes, LineIsStamped, Listed, ClosedLeft, stream
  <1>8. Sending'
    BY <1>4, <1>5 DEF Broadcast, BrokerTypes, Sending, stream
  <1>. QED
    BY <1>6, <1>7, <1>8

LEMMA SendStep ==
  ASSUME BrokerInv, NEW w \in Writers, Send(w)
  PROVE  BrokerInv'
  <1>. USE DEF BrokerInv
  <1>1. /\ Tail(todo[w]) \in Seq(Streams)
        /\ \A k \in 1..Len(Tail(todo[w])) : /\ k + 1 \in 1..Len(todo[w])
                                            /\ Tail(todo[w])[k] = todo[w][k + 1]
    BY DEF Send, BrokerTypes
  <1>2. BrokerTypes'
    BY <1>1 DEF Send, BrokerTypes
  <1>3. LineIsStamped' /\ Listed' /\ ClosedLeft'
    BY DEF Send, LineIsStamped, Listed, ClosedLeft
  <1>4. Sending'
    BY <1>1 DEF Send, BrokerTypes, Sending
  <1>. QED
    BY <1>2, <1>3, <1>4

LEMMA ReturnStep ==
  ASSUME BrokerInv, NEW w \in Writers, Return(w)
  PROVE  BrokerInv'
  <1>. USE DEF BrokerInv
  <1>1. BrokerTypes' /\ LineIsStamped' /\ Sending'
    BY DEF Return, BrokerTypes, LineIsStamped, Sending, stream
  <1>2. Listed' /\ ClosedLeft'
    BY DEF Return, Listed, ClosedLeft, stream
  <1>. QED
    BY <1>1, <1>2

-----------------------------------------------------------------------------
\* The handler.  With the write lock in hand no broadcast has anything to send.
LEMMA LockedOut ==
  ASSUME BrokerInv, Unlocked, NEW w \in Writers
  PROVE  1..Len(todo[w]) = {}
  BY DEF BrokerInv, Sending, Unlocked

\* Steps before it subscribes, and those that change neither lists nor channels.
LEMMA QuietStep ==
  ASSUME BrokerInv, NEW s \in Streams,
         Connect(s) \/ Backfill(s) \/ Receive(s) \/ HangUp(s)
  PROVE  BrokerInv'
  <1>. USE DEF BrokerInv
  <1>1. UNCHANGED <<lines, pc, line, todo, subscribers, closed>>
    BY DEF Connect, Backfill, Receive, HangUp, writer
  <1>2. /\ stage' \in [Streams -> Stages]
        /\ query' \in [Streams -> [topic : Topics, type : Types \cup {AnyType}]]
        /\ \A r \in Streams : stage[r] \in Listening =>
             stage'[r] \in Listening /\ query'[r] = query[r]
        /\ \A r \in Streams : stage[r] = "left" => stage'[r] = "left"
    <2>1. CASE Connect(s)
      BY <2>1 DEF Connect, BrokerTypes, Stages, Listening
    <2>2. CASE Backfill(s)
      BY <2>2 DEF Backfill, BrokerTypes, Stages, Listening
    <2>3. CASE Receive(s)
      BY <2>3 DEF Receive, BrokerTypes
    <2>4. CASE HangUp(s)
      BY <2>4 DEF HangUp, BrokerTypes, Stages, Listening
    <2>. QED
      BY <2>1, <2>2, <2>3, <2>4
  <1>3. BrokerTypes' /\ LineIsStamped' /\ ClosedLeft'
    BY <1>1, <1>2 DEF BrokerTypes, LineIsStamped, ClosedLeft
  <1>4. Listed'
    <2>1. \A t \in Topics : \A k \in 1..Len(subscribers[t]) : subscribers[t][k] \in Streams
      BY DEF BrokerTypes
    <2>. QED
      BY <1>1, <1>2, <2>1 DEF Listed
  <1>5. Sending'
    <2>1. \A w \in Writers : \A k \in 1..Len(todo[w]) : todo[w][k] \in Streams
      BY DEF BrokerTypes
    <2>. QED
      BY <1>1, <1>2, <2>1 DEF Sending
  <1>. QED
    BY <1>3, <1>4, <1>5

LEMMA SubscribeStep ==
  ASSUME BrokerInv, NEW s \in Streams, Subscribe(s)
  PROVE  BrokerInv'
  <1>. USE DEF BrokerInv
  <1>. DEFINE u == query[s].topic
              q == subscribers[u]
  <1>1. u \in Topics /\ q \in Seq(Streams) /\ Len(q) \in Nat
    BY DEF BrokerTypes
  <1>2. /\ subscribers' = [subscribers EXCEPT ![u] = Append(q, s)]
        /\ stage[s] = "backfilled"
        /\ stage' = [stage EXCEPT ![s] = "streaming"]
        /\ UNCHANGED <<lines, pc, line, todo, closed, query>>
    BY DEF Subscribe, writer
  <1>3. /\ Append(q, s) \in Seq(Streams)
        /\ Len(Append(q, s)) = Len(q) + 1
        /\ \A k \in 1..Len(q) : Append(q, s)[k] = q[k]
        /\ Append(q, s)[Len(q) + 1] = s
    <2>. HIDE DEF q
    <2>. QED
      BY <1>1
  <1>4. BrokerTypes'
    BY <1>1, <1>2, <1>3 DEF BrokerTypes, Stages
  <1>5. LineIsStamped' /\ ClosedLeft'
    BY <1>2 DEF LineIsStamped, ClosedLeft, BrokerTypes
  <1>6. Listed'
    <2>. SUFFICES ASSUME NEW t \in Topics, NEW k \in 1..Len(subscribers'[t])
         PROVE  /\ stage'[subscribers'[t][k]] \in Listening
                /\ query[subscribers'[t][k]].topic = t
                /\ \A j \in 1..Len(subscribers'[t]) :
                     subscribers'[t][j] = subscribers'[t][k] => j = k
      BY <1>2 DEF Listed
    <2>1. \A v \in Topics : \A j \in 1..Len(subscribers[v]) :
            subscribers[v][j] \in Streams /\ subscribers[v][j] # s
      <3>1. stage[s] \notin Listening
        BY <1>2 DEF Listening
      <3>2. \A v \in Topics : \A j \in 1..Len(subscribers[v]) : subscribers[v][j] \in Streams
        BY DEF BrokerTypes
      <3>. QED
        BY <3>1, <3>2 DEF Listed
    <2>2. CASE t # u
      BY <1>2, <2>1, <2>2 DEF Listed, BrokerTypes
    <2>3. CASE t = u
      <3>1. subscribers'[t] = Append(q, s)
        BY <1>1, <1>2, <2>3 DEF BrokerTypes
      <3>2. \A j \in 1..Len(q) :
              /\ stage'[q[j]] \in Listening /\ query[q[j]].topic = u /\ q[j] # s
              /\ \A i \in 1..Len(q) : q[i] = q[j] => i = j
        BY <1>1, <1>2, <2>1 DEF Listed, BrokerTypes
      <3>3. stage'[s] \in Listening /\ query[s].topic = u
        BY <1>2 DEF BrokerTypes, Listening
      <3>. HIDE DEF q, u
      <3>. QED
        BY <1>1, <1>3, <2>3, <3>1, <3>2, <3>3
    <2>. QED
      BY <2>2, <2>3
  <1>7. Sending'
    BY <1>2, LockedOut DEF Sending, Subscribe
  <1>. QED
    BY <1>4, <1>5, <1>6, <1>7

LEMMA UnsubscribeStep ==
  ASSUME BrokerInv, NEW s \in Streams, Unsubscribe(s)
  PROVE  BrokerInv'
  <1>. USE DEF BrokerInv
  <1>. DEFINE u == query[s].topic
              q == subscribers[u]
  <1>1. u \in Topics /\ q \in Seq(Streams) /\ Len(q) \in Nat
    BY DEF BrokerTypes
  <1>2. PICK i \in 1..Len(q) :
          q[i] = s /\ subscribers' = [subscribers EXCEPT ![u] = RemoveAt(q, i)]
    <2>1. DOMAIN q = 1..Len(q)
      <3>. HIDE DEF q
      <3>. QED
        BY <1>1
    <2>. QED
      BY <2>1 DEF Unsubscribe
  <1>3. /\ stage[s] = "leaving"
        /\ stage' = [stage EXCEPT ![s] = "left"]
        /\ closed' = closed \cup {s}
        /\ UNCHANGED <<lines, pc, line, todo, query>>
    BY DEF Unsubscribe, writer
  <1>4. /\ RemoveAt(q, i) \in Seq(Streams)
        /\ Len(RemoveAt(q, i)) = Len(q) - 1
        /\ \A k \in 1..(Len(q) - 1) :
             RemoveAt(q, i)[k] = IF k < i THEN q[k] ELSE q[k + 1]
    <2>. HIDE DEF q
    <2>. QED
      BY <1>1, <1>2, RemoveAtOne
  <1>5. BrokerTypes'
    BY <1>1, <1>2, <1>3, <1>4 DEF BrokerTypes, Stages
  <1>6. LineIsStamped' /\ ClosedLeft'
    BY <1>3 DEF LineIsStamped, ClosedLeft, BrokerTypes
  <1>7. Listed'
    <2>. SUFFICES ASSUME NEW t \in Topics, NEW k \in 1..Len(subscribers'[t])
         PROVE  /\ stage'[subscribers'[t][k]] \in Listening
                /\ query[subscribers'[t][k]].topic = t
                /\ \A j \in 1..Len(subscribers'[t]) :
                     subscribers'[t][j] = subscribers'[t][k] => j = k
      BY <1>3 DEF Listed
    <2>1. \A j \in 1..Len(q) :
            /\ q[j] \in Streams /\ stage[q[j]] \in Listening /\ query[q[j]].topic = u
            /\ \A m \in 1..Len(q) : q[m] = q[j] => m = j
      BY <1>1 DEF Listed, BrokerTypes
    <2>2. CASE t # u
      <3>1. subscribers'[t] = subscribers[t]
        BY <1>2, <2>2 DEF BrokerTypes
      <3>2. \A j \in 1..Len(subscribers[t]) : subscribers[t][j] # s
        BY <2>2 DEF Listed
      <3>. QED
        BY <1>3, <3>1, <3>2 DEF Listed, BrokerTypes
    <2>3. CASE t = u
      <3>1. subscribers'[t] = RemoveAt(q, i)
        BY <1>1, <1>2, <2>3 DEF BrokerTypes
      <3>2. \A j \in 1..Len(q) : j # i => stage'[q[j]] = stage[q[j]]
        BY <1>2, <1>3, <2>1 DEF BrokerTypes
      <3>. DEFINE at(m) == IF m < i THEN m ELSE m + 1
      <3>3. \A m \in 1..(Len(q) - 1) :
              at(m) \in 1..Len(q) /\ at(m) # i /\ RemoveAt(q, i)[m] = q[at(m)]
        <4>. HIDE DEF q
        <4>. QED
          BY <1>1, <1>4
      <3>4. \A m, n \in 1..(Len(q) - 1) : at(m) = at(n) => m = n
        <4>. HIDE DEF q
        <4>. QED
          BY <1>1
      <3>. HIDE DEF q, u, at
      <3>. QED
        BY <1>1, <1>4, <2>1, <2>3, <3>1, <3>2, <3>3, <3>4
    <2>. QED
      BY <2>2, <2>3
  <1>8. Sending'
    BY <1>3, LockedOut DEF Sending, Unsubscribe
  <1>. QED
    BY <1>5, <1>6, <1>7, <1>8

-----------------------------------------------------------------------------
LEMMA DeleteLogsStep ==
  ASSUME BrokerInv, NEW t \in Topics, DeleteLogs(t)
  PROVE  BrokerInv'
  BY DEF DeleteLogs, BrokerInv, BrokerTypes, LineIsStamped, Listed, Sending, ClosedLeft,
         writer, stream

LEMMA StutterStep ==
  ASSUME BrokerInv, UNCHANGED vars
  PROVE  BrokerInv'
  BY DEF vars, BrokerInv, BrokerTypes, LineIsStamped, Listed, Sending, ClosedLeft,
         writer, stream

LEMMA BrokerStep == BrokerInv /\ [Next]_vars => BrokerInv'
  <1>. SUFFICES ASSUME BrokerInv, [Next]_vars PROVE BrokerInv'
    OBVIOUS
  <1>1. ASSUME NEW w \in Writers, Stamp(w) \/ Write(w) PROVE BrokerInv'
    BY <1>1, StampStep, InsertStep, BroadcastStep, SendStep, ReturnStep DEF Write
  <1>2. ASSUME NEW s \in Streams, Connect(s) \/ Handle(s) \/ HangUp(s) PROVE BrokerInv'
    BY <1>2, QuietStep, SubscribeStep, UnsubscribeStep DEF Handle
  <1>3. ASSUME NEW t \in Topics, DeleteLogs(t) PROVE BrokerInv'
    BY <1>3, DeleteLogsStep
  <1>. QED
    BY <1>1, <1>2, <1>3, StutterStep DEF Next

\* The broker's bookkeeping is consistent at all times: lists hold the channels
\* of those who listen, once, and only broadcasts that hold the read lock have
\* something to send.
THEOREM BrokerCorrect == Spec => []BrokerInv
  <1>. QED
    BY BrokerInit, BrokerStep, PTL DEF Spec

\* No line is ever sent on a closed channel, which would end the server: neither
\* a broadcast under way nor a list holds a channel that Unsubscribe has closed.
THEOREM ClosedIsQuiet == Spec => []NoSendOnClosed
  <1>1. BrokerInv => NoSendOnClosed
    <2>. SUFFICES ASSUME BrokerInv, NEW s \in closed
         PROVE  /\ \A w \in Writers : s \notin ToSet(todo[w])
                /\ \A t \in Topics : s \notin ToSet(subscribers[t])
      BY DEF NoSendOnClosed
    <2>1. stage[s] \notin Listening
      BY DEF BrokerInv, ClosedLeft, Listening
    <2>2. ASSUME NEW q \in Seq(Streams)
          PROVE  ToSet(q) = {q[k] : k \in 1..Len(q)}
      <3>1. DOMAIN q = 1..Len(q)
        OBVIOUS
      <3>. QED
        BY <3>1 DEF ToSet
    <2>3. ASSUME NEW w \in Writers
          PROVE  s \notin ToSet(todo[w])
      <3>1. \A k \in 1..Len(todo[w]) : todo[w][k] # s
        BY <2>1 DEF BrokerInv, Sending
      <3>2. todo[w] \in Seq(Streams)
        BY DEF BrokerInv, BrokerTypes
      <3>3. ToSet(todo[w]) = {todo[w][k] : k \in 1..Len(todo[w])}
        BY <2>2, <3>2
      <3>. QED
        BY ONLY <3>1, <3>3
    <2>4. ASSUME NEW t \in Topics
          PROVE  s \notin ToSet(subscribers[t])
      <3>1. \A k \in 1..Len(subscribers[t]) : subscribers[t][k] # s
        BY <2>1 DEF BrokerInv, Listed
      <3>2. subscribers[t] \in Seq(Streams)
        BY DEF BrokerInv, BrokerTypes
      <3>3. ToSet(subscribers[t]) = {subscribers[t][k] : k \in 1..Len(subscribers[t])}
        BY <2>2, <3>2
      <3>. QED
        BY ONLY <3>1, <3>3
    <2>. QED
      BY <2>3, <2>4
  <1>. QED
    BY <1>1, BrokerCorrect, PTL

-----------------------------------------------------------------------------
(***************************************************************************)
(* The way of a line into a stream.  What a client has been sent or will   *)
(* be sent from its channel is one sequence, which writeLog only appends   *)
(* to: with the newest line of its writer, and as often as the writer's    *)
(* broadcast has the channel on its list.                                  *)
(***************************************************************************)
Trail(s) == seen[s] \o queue[s]
Live(s)  == SubSeq(seen[s], past[s] + 1, Len(seen[s])) \o queue[s]

StreamTypes ==
  /\ rows \subseteq Stamps
  /\ queue \in [Streams -> Seq(Stamps)]
  /\ seen \in [Streams -> Seq(Stamps)]
  /\ past \in [Streams -> Nat]
  /\ \A s \in Streams : past[s] <= Len(seen[s])
  /\ \A w \in Writers : pc[w] = "idle" => line[w] = 0

\* Nothing was sent before the backfill, nor into a channel nobody subscribed.
NotBefore ==
  \A s \in Streams :
    /\ stage[s] \in {"idle", "connected"} => seen[s] = <<>>
    /\ stage[s] \in {"idle", "connected", "backfilled"} => queue[s] = <<>>

\* Whoever is writing a line has stamped none since.
OwnNewest ==
  \A w \in Writers : pc[w] # "idle" =>
    /\ lines[line[w]].by = w
    /\ \A i \in Stamps : lines[i].by = w => i <= line[w]

InOrder(q) ==
  \A j, k \in 1..Len(q) : j < k /\ lines[q[j]].by = lines[q[k]].by => q[j] <= q[k]

Ordered == \A s \in Streams : InOrder(Trail(s))

Times(s, i) == IF lines[i].topic = All /\ query[s].topic = All THEN 2 ELSE 1

\* A line was sent as often as it may be, less the sends still to come.
Counted ==
  /\ \A s \in Streams : \A i \in Stamps : Occurs(Live(s), i) <= Times(s, i)
  /\ \A s \in Streams : \A w \in Writers :
       /\ pc[w] \in {"stamped", "stored"} => Occurs(Live(s), line[w]) = 0
       /\ pc[w] = "sending" =>
            Occurs(Live(s), line[w]) + Occurs(todo[w], s) <= Times(s, line[w])

FlowInv == BrokerInv /\ StreamTypes /\ NotBefore /\ OwnNewest /\ Ordered /\ Counted

-----------------------------------------------------------------------------
LEMMA TrailTypes ==
  ASSUME StreamTypes, NEW s \in Streams
  PROVE  /\ seen[s] \in Seq(Stamps) /\ queue[s] \in Seq(Stamps)
         /\ Trail(s) \in Seq(Stamps) /\ Live(s) \in Seq(Stamps)
         /\ SubSeq(seen[s], past[s] + 1, Len(seen[s])) \in Seq(Stamps)
         /\ Len(seen[s]) \in Nat /\ past[s] \in 0..Len(seen[s])
  <1>1. /\ seen[s] \in Seq(Stamps) /\ queue[s] \in Seq(Stamps) /\ Len(seen[s]) \in Nat
        /\ past[s] \in 0..Len(seen[s])
    BY DEF StreamTypes
  <1>2. SubSeq(seen[s], past[s] + 1, Len(seen[s])) \in Seq(Stamps)
    BY <1>1
  <1>. QED
    BY <1>1, <1>2, ConcatProperties DEF Trail, Live

\* A line appended to the channel is appended to the trail.
LEMMA Appended ==
  ASSUME StreamTypes, NEW s \in Streams, NEW i \in Stamps,
         seen'[s] = seen[s], past'[s] = past[s], queue'[s] = Append(queue[s], i)
  PROVE  /\ Trail(s)' = Append(Trail(s), i)
         /\ Live(s)' = Append(Live(s), i)
  <1>1. ASSUME NEW a \in Seq(Stamps), NEW b \in Seq(Stamps)
        PROVE  a \o Append(b, i) = Append(a \o b, i)
    <2>1. <<i>> \in Seq(Stamps) /\ a \o b \in Seq(Stamps)
      BY ConcatProperties
    <2>2. Append(b, i) = b \o <<i>> /\ Append(a \o b, i) = (a \o b) \o <<i>>
      BY <2>1, AppendIsConcat
    <2>3. (a \o b) \o <<i>> = a \o (b \o <<i>>)
      BY <2>1, ConcatAssociative
    <2>. QED
      BY <2>2, <2>3
  <1>. QED
    BY <1>1, TrailTypes DEF Trail, Live

\* A line that passes the filter only changes from the channel to the client.
LEMMA Moved ==
  ASSUME StreamTypes, NEW s \in Streams, queue[s] # <<>>,
         seen'[s] = Append(seen[s], Head(queue[s])), past'[s] = past[s],
         queue'[s] = Tail(queue[s])
  PROVE  /\ Trail(s)' = Trail(s)
         /\ Live(s)' = Live(s)
  <1>1. ASSUME NEW a \in Seq(Stamps), NEW b \in Seq(Stamps), b # <<>>
        PROVE  Append(a, Head(b)) \o Tail(b) = a \o b
    <2>1. /\ b = <<Head(b)>> \o Tail(b) /\ Head(b) \in Stamps
          /\ <<Head(b)>> \in Seq(Stamps) /\ Tail(b) \in Seq(Stamps)
      BY <1>1, HeadAndTail
    <2>2. Append(a, Head(b)) = a \o <<Head(b)>>
      BY <2>1, AppendIsConcat
    <2>3. (a \o <<Head(b)>>) \o Tail(b) = a \o (<<Head(b)>> \o Tail(b))
      BY <2>1, ConcatAssociative
    <2>. QED
      BY <2>1, <2>2, <2>3
  <1>2. Head(queue[s]) \in Stamps
    BY TrailTypes, HeadAndTail
  <1>3. SubSeq(Append(seen[s], Head(queue[s])), past[s] + 1, Len(Append(seen[s], Head(queue[s]))))
          = Append(SubSeq(seen[s], past[s] + 1, Len(seen[s])), Head(queue[s]))
    BY <1>2, TrailTypes, EndOfAppend
  <1>. DEFINE live == SubSeq(seen[s], past[s] + 1, Len(seen[s]))
              h    == Head(queue[s])
  <1>4. seen[s] \in Seq(Stamps) /\ queue[s] \in Seq(Stamps) /\ live \in Seq(Stamps)
    BY TrailTypes
  <1>5. Append(seen[s], h) \o Tail(queue[s]) = seen[s] \o queue[s]
    BY <1>1, <1>4
  <1>6. Append(live, h) \o Tail(queue[s]) = live \o queue[s]
    BY <1>1, <1>4
  <1>. QED
    BY <1>3, <1>5, <1>6 DEF Trail, Live

\* One that does not pass leaves it.
LEMMA Dropped ==
  ASSUME StreamTypes, NEW s \in Streams, queue[s] # <<>>,
         seen'[s] = seen[s], past'[s] = past[s], queue'[s] = Tail(queue[s])
  PROVE  /\ InOrder(Trail(s)) => InOrder(Trail(s)')
         /\ \A i : Occurs(Live(s)', i) <= Occurs(Live(s), i)
  <1>. DEFINE n    == Len(seen[s])
              live == SubSeq(seen[s], past[s] + 1, n)
              t    == Tail(queue[s])
  <1>1. /\ seen[s] \in Seq(Stamps) /\ queue[s] \in Seq(Stamps) /\ live \in Seq(Stamps)
        /\ n \in Nat /\ queue[s] # <<>>
    BY TrailTypes
  <1>2. t \in Seq(Stamps)
    BY <1>1
  <1>3. InOrder(Trail(s)) => InOrder(Trail(s)')
    <2>. DEFINE at(k) == IF k <= n THEN k ELSE k + 1
                a == seen[s] \o queue[s]
                b == seen[s] \o t
    <2>1. Trail(s) = a /\ Trail(s)' = b
      BY DEF Trail
    <2>2. b \in Seq(Stamps) /\ Len(a) = Len(b) + 1 /\ \A k \in 1..Len(b) : b[k] = a[at(k)]
      <3>1. ASSUME NEW x \in Seq(Stamps), NEW y \in Seq(Stamps), y # <<>>
            PROVE  /\ x \o Tail(y) \in Seq(Stamps)
                   /\ Len(x \o y) = Len(x \o Tail(y)) + 1
                   /\ \A k \in 1..Len(x \o Tail(y)) :
                        (x \o Tail(y))[k] = (x \o y)[IF k <= Len(x) THEN k ELSE k + 1]
        BY <3>1, TailOfConcat
      <3>. QED
        BY <1>1, <3>1, Zenon
    <2>. HIDE DEF a, b, t, n
    <2>3. \A j, k \in 1..Len(b) :
            at(j) \in 1..Len(a) /\ at(k) \in 1..Len(a) /\ (j < k => at(j) < at(k))
      <3>1. Len(b) \in Nat
        BY <2>2, LenProperties
      <3>. QED
        BY <1>1, <2>2, <3>1
    <2>. HIDE DEF at
    <2>. QED
      BY <2>1, <2>2, <2>3 DEF InOrder
  <1>4. ASSUME NEW i PROVE Occurs(Live(s)', i) <= Occurs(Live(s), i)
    <2>1. Live(s) = live \o queue[s] /\ Live(s)' = live \o t
      BY DEF Live
    <2>. HIDE DEF live, t
    <2>2. /\ Occurs(live \o queue[s], i) = Occurs(live, i) + Occurs(queue[s], i)
          /\ Occurs(live \o t, i) = Occurs(live, i) + Occurs(t, i)
      BY <1>1, <1>2, OccursConcat
    <2>3. Occurs(queue[s], i) = (IF Head(queue[s]) = i THEN 1 ELSE 0) + Occurs(t, i)
      BY <1>1, OccursTail DEF t
    <2>4. Occurs(live, i) \in Nat /\ Occurs(t, i) \in Nat
      BY <1>1, <1>2, OccursNat
    <2>. QED
      BY <2>1, <2>2, <2>3, <2>4
  <1>. QED
    BY <1>3, <1>4

-----------------------------------------------------------------------------
LEMMA FlowInit == Init => FlowInv
  <1>. SUFFICES ASSUME Init PROVE FlowInv
    OBVIOUS
  <1>1. BrokerInv
    BY BrokerInit
  <1>2. \A S : <<>> \in Seq(S)
    BY EmptySeq
  <1>3. StreamTypes
    BY <1>2 DEF Init, StreamTypes, Stamps
  <1>4. NotBefore /\ OwnNewest
    BY DEF Init, NotBefore, OwnNewest
  <1>5. Stamps = {}
    BY DEF Init, Stamps
  <1>6. Ordered
    <2>1. \A s \in Streams : Trail(s) \in Seq({})
      BY <1>3, <1>5, TrailTypes
    <2>2. \A q \in Seq({}) : InOrder(q)
      BY ElementOfSeq DEF InOrder
    <2>. QED
      BY <2>1, <2>2 DEF Ordered
  <1>7. Counted
    BY <1>5 DEF Init, Counted
  <1>. QED
    BY <1>1, <1>3, <1>4, <1>6, <1>7 DEF FlowInv

\* A channel is on the two lists of a line as often as the line may be sent.
LEMMA RecipientsCounted ==
  ASSUME BrokerInv, NEW i \in Stamps, NEW s \in Streams
  PROVE  Occurs(Recipients(lines[i].topic), s) <= Times(s, i)
  <1>. DEFINE t == lines[i].topic
  <1>1. t \in Topics /\ All \in Topics
    <2>1. lines[i] \in Line
      BY ElementOfSeq DEF BrokerInv, BrokerTypes, Stamps
    <2>. QED
      BY <2>1, LogStreamAssumption DEF Line
  <1>2. ASSUME NEW u \in Topics
        PROVE  /\ subscribers[u] \in Seq(Streams)
               /\ Occurs(subscribers[u], s) \in Nat
               /\ Occurs(subscribers[u], s) <= 1
               /\ query[s].topic # u => Occurs(subscribers[u], s) = 0
    <2>1. subscribers[u] \in Seq(Streams)
      BY DEF BrokerInv, BrokerTypes
    <2>2. \A k \in 1..Len(subscribers[u]) :
            /\ subscribers[u][k] = s => query[s].topic = u
            /\ \A j \in 1..Len(subscribers[u]) : subscribers[u][j] = subscribers[u][k] => j = k
      BY DEF BrokerInv, Listed
    <2>. DEFINE q == subscribers[u]
    <2>. HIDE DEF q
    <2>3. \A j, k \in 1..Len(q) : q[j] = s /\ q[k] = s => j = k
      BY <2>2 DEF q
    <2>4. Occurs(q, s) <= 1 /\ Occurs(q, s) \in Nat
      BY <2>1, <2>3, OccursOnce, OccursNat DEF q
    <2>5. query[s].topic # u => Occurs(q, s) = 0
      BY <2>1, <2>2, OccursNat DEF q
    <2>. QED
      BY <2>1, <2>4, <2>5 DEF q
  <1>3. Occurs(subscribers[t] \o subscribers[All], s)
          = Occurs(subscribers[t], s) + Occurs(subscribers[All], s)
    BY <1>1, <1>2, OccursConcat
  <1>. HIDE DEF t
  <1>4. CASE query[s].topic = t /\ t = All
    BY <1>1, <1>2, <1>3, <1>4 DEF Times, Recipients, t
  <1>5. CASE ~(query[s].topic = t /\ t = All)
    <2>1. Occurs(subscribers[t], s) + Occurs(subscribers[All], s) <= 1
      <3>1. Occurs(subscribers[t], s) = 0 \/ Occurs(subscribers[All], s) = 0
        BY <1>1, <1>2, <1>5
      <3>. QED
        BY <1>1, <1>2, <3>1
    <2>. QED
      BY <1>1, <1>2, <1>3, <2>1 DEF Times, Recipients, t
  <1>. QED
    BY <1>4, <1>5

\* A step that sends nothing and stamps nothing: it may move a writer on, or the
\* handler of a stream after it subscribed.
LEMMA StillStep ==
  ASSUME FlowInv, BrokerInv', UNCHANGED <<lines, query, queue, seen, past>>,
         rows' \subseteq Stamps,
         \A s \in Streams :
           stage'[s] \in {"idle", "connected", "backfilled"} => stage'[s] = stage[s],
         \A w \in Writers :
           \/ pc'[w] = "idle" /\ line'[w] = 0
           \/ /\ pc[w] # "idle" /\ line'[w] = line[w]
              /\ \/ pc'[w] = pc[w] /\ todo'[w] = todo[w]
                 \/ pc[w] = "stamped" /\ pc'[w] = "stored"
                 \/ /\ pc[w] = "stored" /\ pc'[w] = "sending"
                    /\ \A s \in Streams : Occurs(todo'[w], s) <= Times(s, line[w])
  PROVE  FlowInv'
  <1>. USE DEF FlowInv
  <1>1. /\ Stamps' = Stamps
        /\ \A s \in Streams : Trail(s)' = Trail(s) /\ Live(s)' = Live(s)
        /\ \A s \in Streams : \A i : Times(s, i)' = Times(s, i)
    BY DEF Stamps, Trail, Live, Times
  <1>2. StreamTypes'
    BY <1>1 DEF StreamTypes
  <1>3. NotBefore'
    BY DEF NotBefore
  <1>4. OwnNewest'
    BY <1>1 DEF OwnNewest
  <1>5. Ordered'
    BY <1>1 DEF Ordered, InOrder
  <1>6. Counted'
    <2>1. \A s \in Streams : \A i \in Stamps' : Occurs(Live(s)', i) <= Times(s, i)'
      BY <1>1 DEF Counted
    <2>2. ASSUME NEW s \in Streams, NEW w \in Writers, pc'[w] # "idle"
          PROVE  /\ pc'[w] \in {"stamped", "stored"} => Occurs(Live(s)', line'[w]) = 0
                 /\ pc'[w] = "sending" =>
                      Occurs(Live(s)', line'[w]) + Occurs(todo'[w], s) <= Times(s, line[w])'
      <3>1. /\ pc[w] \in {"stamped", "stored"} => Occurs(Live(s), line[w]) = 0
            /\ pc[w] = "sending" =>
                 Occurs(Live(s), line[w]) + Occurs(todo[w], s) <= Times(s, line[w])
        BY DEF Counted
      <3>2. Live(s)' = Live(s) /\ line'[w] = line[w] /\ Times(s, line[w])' = Times(s, line[w])
        BY <1>1, <2>2
      <3>3. CASE pc'[w] = pc[w] /\ todo'[w] = todo[w]
        BY <3>1, <3>2, <3>3
      <3>4. CASE pc[w] = "stamped" /\ pc'[w] = "stored"
        BY <3>1, <3>2, <3>4
      <3>5. CASE /\ pc[w] = "stored" /\ pc'[w] = "sending"
                 /\ Occurs(todo'[w], s) <= Times(s, line[w])
        <4>1. Occurs(Live(s), line[w]) = 0
          BY <3>1, <3>5
        <4>2. Occurs(todo'[w], s) \in Nat
          <5>1. todo'[w] \in Seq(Streams)
            BY DEF BrokerInv, BrokerTypes
          <5>. QED
            BY <5>1, OccursNat
        <4>. QED
          BY <3>2, <3>5, <4>1, <4>2
      <3>. QED
        BY <2>2, <3>3, <3>4, <3>5
    <2>. QED
      BY <2>1, <2>2 DEF Counted
  <1>. QED
    BY <1>2, <1>3, <1>4, <1>5, <1>6

\* Nothing sent so far is the line stamped now.
LEMMA StampFlow ==
  ASSUME FlowInv, BrokerInv', NEW w \in Writers, Stamp(w)
  PROVE  FlowInv'
  <1>. USE DEF FlowInv
  <1>. DEFINE n == Len(lines) + 1
  <1>1. PICK about \in Says[w] :
          lines' = Append(lines, [by |-> w, topic |-> about.topic, type |-> about.type])
    BY DEF Stamp
  <1>2. [by |-> w, topic |-> about.topic, type |-> about.type] \in Line
    BY LogStreamAssumption DEF Line
  <1>3. /\ lines \in Seq(Line) /\ Len(lines) \in Nat /\ Len(lines') = n
        /\ \A i \in 1..Len(lines) : lines'[i] = lines[i]
        /\ lines'[n].by = w
    BY <1>1, <1>2 DEF BrokerInv, BrokerTypes
  <1>4. /\ Stamps' = Stamps \cup {n} /\ Stamps \subseteq Stamps' /\ n \notin Stamps
        /\ \A i \in Stamps : lines'[i] = lines[i] /\ i <= n
    BY <1>3 DEF Stamps
  <1>5. /\ UNCHANGED <<rows, todo, queue, seen, past, query, stage>>
        /\ pc[w] = "idle" /\ pc' = [pc EXCEPT ![w] = "stamped"]
        /\ line' = [line EXCEPT ![w] = n]
    BY DEF Stamp, stream
  <1>6. /\ pc'[w] = "stamped" /\ line'[w] = n
        /\ \A v \in Writers : v # w => pc'[v] = pc[v] /\ line'[v] = line[v]
    BY <1>5 DEF BrokerInv, BrokerTypes
  <1>7. StreamTypes'
    <2>1. \A q \in Seq(Stamps) : q \in Seq(Stamps')
      BY <1>4, SeqMonotonic
    <2>2. queue' \in [Streams -> Seq(Stamps')] /\ seen' \in [Streams -> Seq(Stamps')]
      BY <1>5, <2>1 DEF StreamTypes
    <2>. QED
      BY <1>4, <1>5, <1>6, <2>2 DEF StreamTypes
  <1>8. NotBefore'
    BY <1>5 DEF NotBefore
  <1>9. \A v \in Writers : pc[v] # "idle" => line[v] \in Stamps
    BY DEF BrokerInv, LineIsStamped, Stamps
  <1>10. OwnNewest'
    BY <1>3, <1>4, <1>6, <1>9 DEF OwnNewest
  <1>11. ASSUME NEW s \in Streams
         PROVE  /\ Trail(s)' = Trail(s) /\ Live(s)' = Live(s)
                /\ Trail(s) \in Seq(Stamps) /\ Live(s) \in Seq(Stamps)
                /\ Occurs(Live(s), n) = 0
                /\ \A i \in Stamps : Times(s, i)' = Times(s, i)
    <2>1. Trail(s) \in Seq(Stamps) /\ Live(s) \in Seq(Stamps)
      BY TrailTypes
    <2>2. \A k \in 1..Len(Live(s)) : Live(s)[k] # n
      BY <1>4, <2>1, ElementOfSeq
    <2>3. Occurs(Live(s), n) = 0
      BY <2>1, <2>2, OccursNat
    <2>. QED
      BY <1>4, <1>5, <2>1, <2>3 DEF Trail, Live, Times
  <1>12. Ordered'
    <2>. SUFFICES ASSUME NEW s \in Streams PROVE InOrder(Trail(s))'
      BY DEF Ordered
    <2>1. \A k \in 1..Len(Trail(s)) : Trail(s)[k] \in Stamps
      BY <1>11, ElementOfSeq
    <2>2. \A k \in 1..Len(Trail(s)) : lines'[Trail(s)[k]] = lines[Trail(s)[k]]
      BY <1>4, <2>1
    <2>. QED
      BY <1>11, <2>2 DEF Ordered, InOrder
  <1>13. Counted'
    <2>1. ASSUME NEW s \in Streams, NEW i \in Stamps'
          PROVE  Occurs(Live(s)', i) <= Times(s, i)'
      <3>1. CASE i \in Stamps
        BY <1>11, <3>1 DEF Counted
      <3>2. CASE i = n
        BY <1>11, <3>2 DEF Times
      <3>. QED
        BY <1>4, <3>1, <3>2
    <2>2. ASSUME NEW s \in Streams, NEW v \in Writers, v # w
          PROVE  /\ pc'[v] \in {"stamped", "stored"} => Occurs(Live(s)', line'[v]) = 0
                 /\ pc'[v] = "sending" =>
                      Occurs(Live(s)', line'[v]) + Occurs(todo'[v], s) <= Times(s, line[v])'
      <3>1. Live(s)' = Live(s) /\ line'[v] = line[v] /\ pc'[v] = pc[v] /\ todo' = todo
        BY <1>5, <1>6, <1>11, <2>2
      <3>2. pc[v] # "idle" => Times(s, line[v])' = Times(s, line[v])
        BY <1>9, <1>11, <3>1
      <3>. QED
        BY <3>1, <3>2 DEF Counted
    <2>3. \A s \in Streams : Occurs(Live(s)', line'[w]) = 0
      BY <1>6, <1>11
    <2>. QED
      BY <1>6, <2>1, <2>2, <2>3 DEF Counted
  <1>. QED
    BY <1>7, <1>8, <1>10, <1>12, <1>13

\* The newest line of its writer comes last, in the channel of a stream that
\* the broadcast has on its list.
LEMMA SendFlow ==
  ASSUME FlowInv, BrokerInv', NEW w \in Writers, Send(w)
  PROVE  FlowInv'
  <1>. USE DEF FlowInv
  <1>. DEFINE r == Head(todo[w])
              i == line[w]
  <1>1. /\ pc[w] = "sending" /\ todo[w] # <<>> /\ todo[w] \in Seq(Streams)
        /\ r \in Streams /\ Tail(todo[w]) \in Seq(Streams)
        /\ i \in Stamps
    BY DEF Send, BrokerInv, BrokerTypes, LineIsStamped, Stamps
  <1>2. /\ UNCHANGED <<lines, rows, pc, line, stage, query, seen, past>>
        /\ todo' = [todo EXCEPT ![w] = Tail(@)]
        /\ queue' = queue \/ queue' = [queue EXCEPT ![r] = Append(@, i)]
    BY DEF Send
  <1>3. /\ Stamps' = Stamps
        /\ \A s, j : Times(s, j)' = Times(s, j)
        /\ todo'[w] = Tail(todo[w])
        /\ \A v \in Writers : v # w => todo'[v] = todo[v]
    BY <1>2 DEF Stamps, Times, BrokerInv, BrokerTypes
  <1>4. /\ OwnNewest'
        /\ \A s \in Streams : queue'[s] = queue[s] \/ (s = r /\ queue'[s] = Append(queue[s], i))
        /\ queue' \in [Streams -> Seq(Stamps)]
    <2>1. OwnNewest'
      BY <1>2, <1>3 DEF OwnNewest
    <2>2. queue[r] \in Seq(Stamps) /\ Append(queue[r], i) \in Seq(Stamps)
      BY <1>1, AppendProperties DEF StreamTypes
    <2>. HIDE DEF r, i
    <2>3. queue \in [Streams -> Seq(Stamps)]
      BY DEF StreamTypes
    <2>. QED
      BY <1>1, <1>2, <2>1, <2>2, <2>3
  <1>5. StreamTypes'
    BY <1>2, <1>3, <1>4 DEF StreamTypes
  <1>6. stage[r] \in Listening
    BY <1>1 DEF BrokerInv, Sending
  <1>7. NotBefore'
    BY <1>2, <1>4, <1>6 DEF NotBefore, Listening
  <1>8. ASSUME NEW s \in Streams
        PROVE  /\ \/ Trail(s)' = Trail(s) /\ Live(s)' = Live(s)
                  \/ s = r /\ Trail(s)' = Append(Trail(s), i) /\ Live(s)' = Append(Live(s), i)
               /\ Trail(s) \in Seq(Stamps) /\ Live(s) \in Seq(Stamps)
    <2>1. CASE queue'[s] = queue[s]
      BY <1>2, <2>1, TrailTypes DEF Trail, Live
    <2>2. CASE s = r /\ queue'[s] = Append(queue[s], i)
      BY <1>1, <1>2, <2>2, Appended, TrailTypes
    <2>. QED
      BY <1>4, <2>1, <2>2
  <1>9. Ordered'
    <2>. SUFFICES ASSUME NEW s \in Streams PROVE InOrder(Trail(s))'
      BY DEF Ordered
    <2>. DEFINE q == Trail(s)
    <2>1. q \in Seq(Stamps) /\ InOrder(q)
      BY <1>8 DEF Ordered
    <2>2. \A k \in 1..Len(q) : lines[q[k]].by = lines[i].by => q[k] <= i
      <3>1. \A k \in 1..Len(q) : q[k] \in Stamps
        BY <2>1, ElementOfSeq
      <3>. QED
        BY <1>1, <3>1 DEF OwnNewest
    <2>3. Trail(s)' = q \/ Trail(s)' = Append(q, i)
      BY <1>8
    <2>4. lines' = lines
      BY <1>2
    <2>. HIDE DEF q
    <2>5. InOrder(Append(q, i))
      <3>1. /\ Len(q) \in Nat /\ Len(Append(q, i)) = Len(q) + 1
            /\ \A k \in 1..Len(q) : Append(q, i)[k] = q[k]
            /\ Append(q, i)[Len(q) + 1] = i
        BY <1>1, <2>1, AppendProperties, LenProperties
      <3>. HIDE DEF i
      <3>2. \A k \in 1..(Len(q) + 1) : k \in 1..Len(q) \/ k = Len(q) + 1
        BY <3>1
      <3>. QED
        BY <2>1, <2>2, <3>1, <3>2 DEF InOrder
    <2>. QED
      BY <2>1, <2>3, <2>4, <2>5 DEF InOrder
  <1>10. ASSUME NEW s \in Streams
         PROVE  /\ \A j : j # i => Occurs(Live(s)', j) = Occurs(Live(s), j)
                /\ Occurs(Live(s)', i) + Occurs(todo'[w], s)
                     <= Occurs(Live(s), i) + Occurs(todo[w], s)
                /\ Occurs(Live(s)', i) \in Nat /\ Occurs(todo'[w], s) \in Nat
    <2>. DEFINE L == Live(s)
    <2>1. Occurs(todo[w], s) = (IF r = s THEN 1 ELSE 0) + Occurs(todo'[w], s)
      BY <1>1, <1>3, OccursTail
    <2>2. \/ Live(s)' = L
          \/ s = r /\ Live(s)' = Append(L, i)
      BY <1>8
    <2>3. L \in Seq(Stamps)
      BY <1>8
    <2>4. \A j : Occurs(Append(L, i), j) = Occurs(L, j) + (IF i = j THEN 1 ELSE 0)
      BY <1>1, <2>3, OccursAppend
    <2>5. Occurs(todo'[w], s) \in Nat /\ \A j : Occurs(L, j) \in Nat
      BY <1>1, <1>3, <2>3, OccursNat
    <2>. HIDE DEF r, i
    <2>6. CASE Live(s)' = L
      <3>. HIDE DEF L
      <3>. QED
        BY <2>1, <2>5, <2>6 DEF L
    <2>7. CASE s = r /\ Live(s)' = Append(L, i)
      <3>. HIDE DEF L
      <3>1. Occurs(Live(s)', i) = Occurs(L, i) + 1
        BY <2>4, <2>7
      <3>2. \A j : j # i => Occurs(Live(s)', j) = Occurs(L, j)
        BY <2>4, <2>5, <2>7
      <3>3. Occurs(todo[w], s) = 1 + Occurs(todo'[w], s)
        BY <2>1, <2>7
      <3>. QED
        BY <2>5, <3>1, <3>2, <3>3 DEF L
    <2>. QED
      BY <2>2, <2>6, <2>7
  <1>11. Counted'
    <2>1. ASSUME NEW s \in Streams
          PROVE  Occurs(Live(s)', i) + Occurs(todo'[w], s) <= Times(s, i)
      <3>1. Occurs(Live(s), i) + Occurs(todo[w], s) <= Times(s, i)
        BY <1>1 DEF Counted
      <3>2. Occurs(Live(s), i) \in Nat /\ Occurs(todo[w], s) \in Nat
        BY <1>1, <1>8, OccursNat
      <3>3. Times(s, i) \in Nat
        BY DEF Times
      <3>. HIDE DEF i
      <3>. QED
        BY <1>10, <3>1, <3>2, <3>3
    <2>2. ASSUME NEW s \in Streams, NEW j \in Stamps
          PROVE  Occurs(Live(s)', j) <= Times(s, j)
      <3>1. CASE j = i
        <4>1. Times(s, i) \in Nat
          BY DEF Times
        <4>. HIDE DEF i
        <4>. QED
          BY <1>10, <2>1, <3>1, <4>1
      <3>2. CASE j # i
        BY <1>10, <3>2 DEF Counted
      <3>. QED
        BY <3>1, <3>2
    <2>3. ASSUME NEW s \in Streams, NEW v \in Writers, v # w
          PROVE  /\ pc'[v] \in {"stamped", "stored"} => Occurs(Live(s)', line'[v]) = 0
                 /\ pc'[v] = "sending" =>
                      Occurs(Live(s)', line'[v]) + Occurs(todo'[v], s) <= Times(s, line[v])'
      <3>1. pc' = pc /\ line' = line /\ todo'[v] = todo[v] /\ Times(s, line[v])' = Times(s, line[v])
        BY <1>2, <1>3, <2>3
      <3>2. pc[v] # "idle" => line[v] # i
        BY <1>1, <2>3 DEF OwnNewest
      <3>3. pc[v] # "idle" => Occurs(Live(s)', line[v]) = Occurs(Live(s), line[v])
        BY <1>10, <3>2
      <3>. QED
        BY <3>1, <3>3 DEF Counted
    <2>. QED
      BY <1>1, <1>2, <1>3, <2>1, <2>2, <2>3 DEF Counted
  <1>. QED
    BY <1>4, <1>5, <1>7, <1>9, <1>11

\* A step of the handler of one stream that sends it nothing new.
LEMMA HandlerFlow ==
  ASSUME FlowInv, BrokerInv', NEW s \in Streams,
         UNCHANGED <<lines, rows, pc, line, todo>>,
         seen' \in [Streams -> Seq(Stamps)], queue' \in [Streams -> Seq(Stamps)],
         past' \in [Streams -> Nat], past'[s] <= Len(seen'[s]),
         stage'[s] \in {"idle", "connected"} => seen'[s] = <<>>,
         stage'[s] \in {"idle", "connected", "backfilled"} => queue'[s] = <<>>,
         \A r \in Streams : r # s =>
           /\ seen'[r] = seen[r] /\ queue'[r] = queue[r] /\ past'[r] = past[r]
           /\ query'[r] = query[r] /\ stage'[r] = stage[r],
         InOrder(Trail(s)'),
         \A j \in Stamps : Occurs(Live(s)', j) <= Occurs(Live(s), j),
         \/ query'[s] = query[s]
         \/ /\ \A j \in Stamps : Occurs(Live(s)', j) = 0
            /\ \A w \in Writers : Occurs(todo[w], s) = 0
  PROVE  FlowInv'
  <1>. USE DEF FlowInv
  <1>1. Stamps' = Stamps
    BY DEF Stamps
  <1>2. StreamTypes'
    BY <1>1 DEF StreamTypes
  <1>3. NotBefore' /\ OwnNewest'
    BY <1>1 DEF NotBefore, OwnNewest
  <1>4. \A r \in Streams : r # s =>
          /\ Trail(r)' = Trail(r) /\ Live(r)' = Live(r)
          /\ \A j : Times(r, j)' = Times(r, j)
    BY DEF Trail, Live, Times
  <1>5. Ordered'
    BY <1>4 DEF Ordered, InOrder
  <1>6. \A r \in Streams : \A j : Occurs(Live(r), j) \in Nat /\ Occurs(Live(r)', j) \in Nat
    <2>1. \A r \in Streams : Live(r) \in Seq(Stamps)
      BY TrailTypes
    <2>2. \A r \in Streams : Live(r)' \in Seq(Stamps)'
      <3>. SUFFICES ASSUME NEW r \in Streams PROVE Live(r)' \in Seq(Stamps)
        BY <1>1
      <3>. DEFINE n == Len(seen'[r])
      <3>1. seen'[r] \in Seq(Stamps) /\ queue'[r] \in Seq(Stamps) /\ n \in Nat
            /\ past'[r] \in 0..n
        BY <1>1, <1>2 DEF StreamTypes
      <3>2. SubSeq(seen'[r], past'[r] + 1, n) \in Seq(Stamps)
        BY <3>1
      <3>. QED
        BY <3>1, <3>2, ConcatProperties DEF Live
    <2>. QED
      BY <2>1, <2>2, OccursNat
  <1>7. Counted'
    <2>1. \A v \in Writers : pc[v] # "idle" => line[v] \in Stamps
      BY DEF BrokerInv, LineIsStamped, Stamps
    <2>2. ASSUME NEW r \in Streams, NEW j \in Stamps, NEW k \in Nat,
                 Occurs(Live(r), j) + k <= Times(r, j),
                 k = 0 \/ \E w \in Writers : k = Occurs(todo[w], r)
          PROVE  Occurs(Live(r)', j) + k <= Times(r, j)'
      <3>1. Times(r, j) \in Nat /\ 1 <= Times(r, j)' /\ Times(r, j)' \in Nat
        BY DEF Times
      <3>2. CASE r # s
        BY <1>4, <2>2, <3>2
      <3>3. CASE r = s /\ query'[s] = query[s]
        <4>1. Times(r, j)' = Times(r, j) /\ Occurs(Live(r)', j) <= Occurs(Live(r), j)
          BY <3>3 DEF Times
        <4>. QED
          BY <1>6, <2>2, <3>1, <4>1
      <3>4. CASE /\ r = s /\ \A w \in Writers : Occurs(todo[w], s) = 0
                 /\ \A i \in Stamps : Occurs(Live(s)', i) = 0
        BY <2>2, <3>1, <3>4
      <3>. QED
        BY <3>2, <3>3, <3>4
    <2>3. \A r \in Streams : \A j \in Stamps' : Occurs(Live(r)', j) <= Times(r, j)'
      <3>. SUFFICES ASSUME NEW r \in Streams, NEW j \in Stamps
           PROVE  Occurs(Live(r)', j) <= Times(r, j)'
        BY <1>1
      <3>1. Occurs(Live(r), j) + 0 <= Times(r, j)
        BY <1>6 DEF Counted
      <3>2. Occurs(Live(r)', j) + 0 <= Times(r, j)'
        BY <2>2, <3>1
      <3>. QED
        BY <1>6, <3>2
    <2>4. ASSUME NEW r \in Streams, NEW w \in Writers
          PROVE  /\ pc[w] \in {"stamped", "stored"} => Occurs(Live(r)', line[w]) = 0
                 /\ pc[w] = "sending" =>
                      Occurs(Live(r)', line[w]) + Occurs(todo[w], r) <= Times(r, line[w])'
      <3>1. CASE pc[w] \in {"stamped", "stored"}
        <4>1. line[w] \in Stamps /\ Occurs(Live(r), line[w]) = 0
          BY <2>1, <3>1 DEF Counted
        <4>2. Occurs(Live(r)', line[w]) <= Occurs(Live(r), line[w])
          <5>1. CASE r = s
            BY <4>1, <5>1
          <5>2. CASE r # s
            <6>1. Live(r)' = Live(r)
              BY <1>4, <5>2
            <6>. QED
              BY <1>6, <6>1
          <5>. QED
            BY <5>1, <5>2
        <4>. QED
          BY <1>6, <3>1, <4>1, <4>2
      <3>2. CASE pc[w] = "sending"
        <4>1. /\ line[w] \in Stamps
              /\ Occurs(Live(r), line[w]) + Occurs(todo[w], r) <= Times(r, line[w])
          BY <2>1, <3>2 DEF Counted
        <4>2. Occurs(todo[w], r) \in Nat
          BY OccursNat DEF BrokerInv, BrokerTypes
        <4>3. Occurs(Live(r)', line[w]) + Occurs(todo[w], r) <= Times(r, line[w])'
          BY <2>2, <4>1, <4>2
        <4>. QED
          BY <3>2, <4>3
      <3>. QED
        BY <3>1, <3>2
    <2>. QED
      BY <2>3, <2>4 DEF Counted
  <1>. QED
    BY <1>2, <1>3, <1>5, <1>7

LEMMA ConnectFlow ==
  ASSUME FlowInv, BrokerInv', NEW s \in Streams, Connect(s)
  PROVE  FlowInv'
  <1>1. /\ stage[s] = "idle" /\ stage' = [stage EXCEPT ![s] = "connected"]
        /\ UNCHANGED <<lines, rows, pc, line, todo, queue, seen, past>>
        /\ \A r \in Streams : r # s => query'[r] = query[r]
    BY DEF Connect, writer, FlowInv, BrokerInv, BrokerTypes
  <1>2. seen[s] = <<>> /\ queue[s] = <<>> /\ past[s] \in Nat
    BY <1>1 DEF FlowInv, NotBefore, StreamTypes
  <1>3. Trail(s)' = <<>> /\ Live(s)' = <<>>
    BY <1>1, <1>2, ConcatEmptySeq, SubSeqEmpty DEF Trail, Live
  <1>4. \A j : Occurs(Live(s)', j) = 0
    BY <1>3, OccursEmpty
  <1>5. \A w \in Writers : Occurs(todo[w], s) = 0
    <2>. SUFFICES ASSUME NEW w \in Writers PROVE Occurs(todo[w], s) = 0
      OBVIOUS
    <2>1. \A k \in 1..Len(todo[w]) : todo[w][k] # s
      BY <1>1 DEF FlowInv, BrokerInv, Sending, Listening
    <2>2. todo[w] \in Seq(Streams)
      BY DEF FlowInv, BrokerInv, BrokerTypes
    <2>. QED
      BY <2>1, <2>2, OccursNat
  <1>6. Live(s) \in Seq(Stamps)
    BY TrailTypes DEF FlowInv
  <1>7. \A j \in Stamps : Occurs(Live(s)', j) <= Occurs(Live(s), j)
    <2>1. \A j : Occurs(Live(s), j) \in Nat
      BY <1>6, OccursNat
    <2>. QED
      BY <1>4, <2>1
  <1>8. InOrder(Trail(s)')
    BY <1>3 DEF InOrder
  <1>9. /\ seen' \in [Streams -> Seq(Stamps)] /\ queue' \in [Streams -> Seq(Stamps)]
        /\ past' \in [Streams -> Nat] /\ past'[s] <= Len(seen'[s])
        /\ seen'[s] = <<>> /\ queue'[s] = <<>>
        /\ \A r \in Streams : r # s => stage'[r] = stage[r]
    BY <1>1, <1>2 DEF FlowInv, StreamTypes, BrokerInv, BrokerTypes
  <1>. QED
    BY <1>1, <1>4, <1>5, <1>7, <1>8, <1>9, HandlerFlow

\* The lines of the history come one after the other, each once.
LEMMA ChronologicalOrder ==
  ASSUME StreamTypes, NEW S \in SUBSET Stamps, NEW q \in Chronological(S)
  PROVE  q \in Seq(Stamps) /\ InOrder(q)
  <1>1. Stamps \in SUBSET Nat /\ IsFiniteSet(Stamps)
    BY FS_Interval DEF Stamps
  <1>2. Cardinality(S) \in Nat
    BY <1>1, FS_Subset, FS_CardinalityType
  <1>. DEFINE n == Cardinality(S)
  <1>3. /\ q \in [1..n -> S]
        /\ \A j, k \in 1..n : j < k => q[j] < q[k]
    BY DEF Chronological
  <1>. HIDE DEF n
  <1>4. q \in Seq(Stamps) /\ Len(q) = n
    BY <1>2, <1>3 DEF n
  <1>5. InOrder(q)
    <2>1. \A j, k \in 1..n : q[j] \in Nat /\ q[k] \in Nat /\ (j < k => q[j] <= q[k])
      <3>1. \A j \in 1..n : q[j] \in S
        BY <1>3
      <3>2. \A j \in 1..n : q[j] \in Nat
        BY <1>1, <3>1
      <3>. QED
        BY <1>3, <3>2
    <2>. QED
      BY <1>4, <2>1 DEF InOrder
  <1>. QED
    BY <1>4, <1>5

LEMMA BackfillFlow ==
  ASSUME FlowInv, BrokerInv', NEW s \in Streams, Backfill(s)
  PROVE  FlowInv'
  <1>1. /\ stage[s] = "connected" /\ stage' = [stage EXCEPT ![s] = "backfilled"]
        /\ past' = [past EXCEPT ![s] = Len(seen'[s])]
        /\ UNCHANGED <<lines, rows, pc, line, todo, queue, query>>
    BY DEF Backfill, writer
  <1>2. seen[s] = <<>> /\ queue[s] = <<>> /\ StreamTypes
    BY <1>1 DEF FlowInv, NotBefore
  <1>3. PICK q \in Seq(Stamps) : InOrder(q) /\ seen' = [seen EXCEPT ![s] = q]
    <2>1. CASE \E q \in Chronological(History(s)) : seen' = [seen EXCEPT ![s] = q]
      <3>1. History(s) \in SUBSET Stamps
        BY <1>2 DEF History, Newest, StreamTypes
      <3>. QED
        BY <1>2, <2>1, <3>1, ChronologicalOrder
    <2>2. CASE seen' = seen
      <3>1. <<>> \in Seq(Stamps) /\ InOrder(<<>>)
        BY DEF InOrder
      <3>2. seen' = [seen EXCEPT ![s] = <<>>]
        BY <1>2, <2>2 DEF StreamTypes
      <3>. QED
        BY <3>1, <3>2
    <2>. QED
      BY <2>1, <2>2 DEF Backfill
  <1>4. /\ seen' \in [Streams -> Seq(Stamps)] /\ seen'[s] = q
        /\ past' \in [Streams -> Nat] /\ past'[s] = Len(q) /\ Len(q) \in Nat
        /\ queue' \in [Streams -> Seq(Stamps)] /\ queue'[s] = <<>>
        /\ stage'[s] = "backfilled"
        /\ \A r \in Streams : r # s =>
             seen'[r] = seen[r] /\ past'[r] = past[r] /\ stage'[r] = stage[r]
    BY <1>1, <1>2, <1>3 DEF StreamTypes, FlowInv, BrokerInv, BrokerTypes
  <1>5. Trail(s)' = q
    BY <1>4, ConcatEmptySeq DEF Trail
  <1>6. Live(s)' = <<>>
    <2>1. SubSeq(seen'[s], past'[s] + 1, Len(seen'[s])) = <<>>
      BY <1>4, SubSeqEmpty
    <2>. QED
      BY <1>4, <2>1, ConcatEmptySeq DEF Live
  <1>7. \A j \in Stamps : Occurs(Live(s)', j) <= Occurs(Live(s), j)
    <2>1. Live(s) \in Seq(Stamps)
      BY <1>2, TrailTypes
    <2>2. \A j : Occurs(Live(s), j) \in Nat
      BY <2>1, OccursNat
    <2>3. \A j : Occurs(Live(s)', j) = 0
      BY <1>6, OccursEmpty
    <2>. QED
      BY <2>2, <2>3
  <1>8. InOrder(Trail(s)') /\ past'[s] <= Len(seen'[s])
    BY <1>3, <1>4, <1>5
  <1>9. \A r \in Streams : r # s =>
          /\ seen'[r] = seen[r] /\ queue'[r] = queue[r] /\ past'[r] = past[r]
          /\ query'[r] = query[r] /\ stage'[r] = stage[r]
    BY <1>1, <1>4
  <1>. QED
    BY <1>1, <1>4, <1>7, <1>8, <1>9, HandlerFlow

LEMMA ReceiveFlow ==
  ASSUME FlowInv, BrokerInv', NEW s \in Streams, Receive(s)
  PROVE  FlowInv'
  <1>. DEFINE h == Head(queue[s])
  <1>1. /\ stage[s] = "streaming" /\ queue[s] # <<>>
        /\ \/ seen' = [seen EXCEPT ![s] = Append(@, h)]
           \/ seen' = seen
        /\ queue' = [queue EXCEPT ![s] = Tail(@)]
        /\ UNCHANGED <<lines, rows, pc, line, todo, stage, query, past>>
    BY DEF Receive, writer
  <1>2. StreamTypes /\ InOrder(Trail(s))
    BY DEF FlowInv, Ordered
  <1>3. /\ seen[s] \in Seq(Stamps) /\ queue[s] \in Seq(Stamps) /\ Len(seen[s]) \in Nat
        /\ past[s] \in 0..Len(seen[s]) /\ h \in Stamps /\ Tail(queue[s]) \in Seq(Stamps)
    BY <1>1, <1>2, TrailTypes, HeadAndTail
  <1>4. /\ queue' \in [Streams -> Seq(Stamps)] /\ queue'[s] = Tail(queue[s])
        /\ past' \in [Streams -> Nat] /\ past'[s] = past[s]
    BY <1>1, <1>2, <1>3 DEF StreamTypes
  <1>5. /\ seen' \in [Streams -> Seq(Stamps)] /\ past'[s] <= Len(seen'[s])
        /\ seen'[s] = Append(seen[s], h) \/ seen'[s] = seen[s]
    <2>1. Append(seen[s], h) \in Seq(Stamps) /\ Len(Append(seen[s], h)) = Len(seen[s]) + 1
      BY <1>3, AppendProperties
    <2>2. seen \in [Streams -> Seq(Stamps)]
      BY <1>2 DEF StreamTypes
    <2>. HIDE DEF h
    <2>3. CASE seen' = [seen EXCEPT ![s] = Append(@, h)]
      <3>1. seen'[s] = Append(seen[s], h)
        BY <2>2, <2>3
      <3>2. seen' \in [Streams -> Seq(Stamps)]
        BY <2>1, <2>2, <2>3
      <3>. QED
        BY <1>3, <1>4, <2>1, <3>1, <3>2
    <2>4. CASE seen' = seen
      BY <1>3, <1>4, <2>2, <2>4
    <2>. QED
      BY <1>1, <2>3, <2>4
  <1>6. /\ InOrder(Trail(s)')
        /\ \A j : Occurs(Live(s)', j) <= Occurs(Live(s), j)
    <2>1. CASE seen'[s] = Append(seen[s], h)
      <3>1. Trail(s)' = Trail(s) /\ Live(s)' = Live(s)
        BY <1>1, <1>2, <1>4, <2>1, Moved
      <3>2. \A j : Occurs(Live(s), j) \in Nat
        BY <1>2, TrailTypes, OccursNat
      <3>. QED
        BY <1>2, <3>1, <3>2
    <2>2. CASE seen'[s] = seen[s]
      BY <1>1, <1>2, <1>4, <2>2, Dropped
    <2>. QED
      BY <1>5, <2>1, <2>2
  <1>7. \A r \in Streams : r # s => seen'[r] = seen[r] /\ queue'[r] = queue[r]
    BY <1>1, <1>2 DEF StreamTypes
  <1>. QED
    BY <1>1, <1>4, <1>5, <1>6, <1>7, HandlerFlow


-----------------------------------------------------------------------------
LEMMA FlowStep == FlowInv /\ [Next]_vars => FlowInv'
  <1>. SUFFICES ASSUME FlowInv, [Next]_vars PROVE FlowInv'
    OBVIOUS
  <1>1. BrokerInv'
    BY BrokerStep DEF FlowInv
  <1>2. rows \subseteq Stamps /\ BrokerTypes /\ \A w \in Writers : pc[w] = "idle" => line[w] = 0
    BY DEF FlowInv, StreamTypes, BrokerInv
  <1>3. ASSUME NEW w \in Writers, Insert(w) PROVE FlowInv'
    <2>1. line[w] \in Stamps
      BY <1>3 DEF Insert, FlowInv, BrokerInv, LineIsStamped, Stamps
    <2>2. rows' \subseteq Stamps
      BY <1>2, <1>3, <2>1 DEF Insert
    <2>3. \A v \in Writers :
            \/ v = w /\ pc[v] = "stamped" /\ pc'[v] = "stored"
            \/ v # w /\ pc'[v] = pc[v]
      BY <1>2, <1>3 DEF Insert, BrokerTypes
    <2>4. UNCHANGED <<lines, query, queue, seen, past, stage, line, todo>>
      BY <1>3 DEF Insert, stream
    <2>. QED
      BY <1>1, <1>2, <2>2, <2>3, <2>4, StillStep
  <1>4. ASSUME NEW w \in Writers, Broadcast(w) PROVE FlowInv'
    <2>1. line[w] \in Stamps
      BY <1>4 DEF Broadcast, FlowInv, BrokerInv, LineIsStamped, Stamps
    <2>2. \A s \in Streams : Occurs(Recipients(lines[line[w]].topic), s) <= Times(s, line[w])
      BY <2>1, RecipientsCounted DEF FlowInv
    <2>3. \A v \in Writers :
            \/ /\ v = w /\ pc[v] = "stored" /\ pc'[v] = "sending"
               /\ todo'[v] = Recipients(lines[line[w]].topic)
            \/ v # w /\ pc'[v] = pc[v] /\ todo'[v] = todo[v]
      BY <1>2, <1>4 DEF Broadcast, BrokerTypes
    <2>4. UNCHANGED <<lines, rows, query, queue, seen, past, stage, line>>
      BY <1>4 DEF Broadcast, stream
    <2>5. \A v \in Writers :
           \/ pc'[v] = "idle" /\ line'[v] = 0
           \/ /\ pc[v] # "idle" /\ line'[v] = line[v]
              /\ \/ pc'[v] = pc[v] /\ todo'[v] = todo[v]
                 \/ /\ pc[v] = "stored" /\ pc'[v] = "sending"
                    /\ \A s \in Streams : Occurs(todo'[v], s) <= Times(s, line[v])
      BY <1>2, <2>2, <2>3, <2>4
    <2>. QED
      BY <1>1, <1>2, <2>4, <2>5, StillStep
  <1>5. ASSUME NEW w \in Writers, Return(w) PROVE FlowInv'
    <2>1. \A v \in Writers :
            \/ v = w /\ pc'[v] = "idle" /\ line'[v] = 0
            \/ v # w /\ pc'[v] = pc[v] /\ line'[v] = line[v]
      BY <1>2, <1>5 DEF Return, BrokerTypes
    <2>2. UNCHANGED <<lines, rows, query, queue, seen, past, stage, todo>>
      BY <1>5 DEF Return, stream
    <2>. QED
      BY <1>1, <1>2, <2>1, <2>2, StillStep
  <1>6. ASSUME NEW s \in Streams, Subscribe(s) \/ HangUp(s) \/ Unsubscribe(s) PROVE FlowInv'
    <2>1. UNCHANGED <<lines, rows, query, queue, seen, past, pc, line, todo>>
      BY <1>6 DEF Subscribe, HangUp, Unsubscribe, writer
    <2>2. \A r \in Streams :
            stage'[r] \in {"idle", "connected", "backfilled"} => stage'[r] = stage[r]
      BY <1>2, <1>6 DEF Subscribe, HangUp, Unsubscribe, BrokerTypes
    <2>. QED
      BY <1>1, <1>2, <2>1, <2>2, StillStep
  <1>7. ASSUME (\E t \in Topics : DeleteLogs(t)) \/ UNCHANGED vars PROVE FlowInv'
    <2>1. UNCHANGED <<lines, query, queue, seen, past, pc, line, todo, stage>>
          /\ rows' \subseteq Stamps
      BY <1>2, <1>7 DEF DeleteLogs, vars, writer, stream
    <2>. QED
      BY <1>1, <1>2, <2>1, StillStep
  <1>8. ASSUME NEW w \in Writers, Stamp(w) \/ Write(w) PROVE FlowInv'
    BY <1>1, <1>3, <1>4, <1>5, <1>8, StampFlow, SendFlow DEF Write
  <1>9. ASSUME NEW s \in Streams, Connect(s) \/ Handle(s) \/ HangUp(s) PROVE FlowInv'
    BY <1>1, <1>6, <1>9, ConnectFlow, BackfillFlow, ReceiveFlow DEF Handle
  <1>. QED
    BY <1>7, <1>8, <1>9 DEF Next

\* From the stamp to the client a line keeps its place and its number: what a
\* stream was sent and will be sent from its channel is in the order each writer
\* stamped its lines, and counts each line as often as the broker may send it.
THEOREM FlowCorrect == Spec => []FlowInv
  <1>. QED
    BY FlowInit, FlowStep, PTL DEF Spec

\* Every variable keeps its type.
THEOREM TypeCorrect == Spec => []TypeOK
  <1>1. FlowInv => TypeOK
    <2>. SUFFICES ASSUME FlowInv PROVE TypeOK
      OBVIOUS
    <2>1. BrokerTypes /\ StreamTypes
      BY DEF FlowInv, BrokerInv
    <2>2. line \in [Writers -> 0..Len(lines)]
      <3>1. Len(lines) \in Nat
        BY <2>1 DEF BrokerTypes
      <3>2. \A w \in Writers : line[w] \in 0..Len(lines)
        BY <2>1, <3>1 DEF FlowInv, BrokerInv, LineIsStamped, StreamTypes
      <3>. QED
        BY <2>1, <3>2 DEF BrokerTypes
    <2>. QED
      BY <2>1, <2>2 DEF TypeOK, BrokerTypes, StreamTypes, Stages, Line
  <1>. QED
    BY <1>1, FlowCorrect, PTL

\* The lines of one goroutine reach a client in the order they were written,
\* over the seam between history and live lines too.
THEOREM OrderCorrect == Spec => []WriterOrder
  <1>1. FlowInv => WriterOrder
    BY DEF FlowInv, Ordered, InOrder, Trail, WriterOrder
  <1>. QED
    BY <1>1, FlowCorrect, PTL

\* After the backfill no line is sent twice, but those of topic "all" to the
\* followers of "all".
THEOREM OnceCorrect == Spec => []LiveOnce
  <1>1. FlowInv => LiveOnce
    BY DEF FlowInv, Counted, Occurs, Live, Times, LiveOnce
  <1>. QED
    BY <1>1, FlowCorrect, PTL

-----------------------------------------------------------------------------
\* What is among the newest of a set of lines is among those of a smaller one,
\* and if there are no more than the limit, all of them are.
LEMMA NewestOfSubset ==
  ASSUME BrokerTypes, NEW S \in SUBSET Stamps, NEW T \in SUBSET S
  PROVE  /\ Newest(S) \cap T \subseteq Newest(T)
         /\ Cardinality(T) <= Limit => T \subseteq Newest(T)
  <1>. DEFINE above(A, i) == {j \in A : j > i}
  <1>1. IsFiniteSet(Stamps)
    <2>1. Len(lines) \in Nat
      BY DEF BrokerTypes
    <2>. QED
      BY <2>1, FS_Interval DEF Stamps
  <1>2. IsFiniteSet(S) /\ IsFiniteSet(T) /\ Cardinality(T) \in Nat
    BY <1>1, FS_Subset, FS_CardinalityType
  <1>3. Limit \in Nat
    BY LogStreamAssumption
  <1>4. ASSUME NEW i \in Newest(S) \cap T PROVE i \in Newest(T)
    <2>1. above(T, i) \in SUBSET above(S, i) /\ above(S, i) \in SUBSET S
      OBVIOUS
    <2>2. Cardinality(above(S, i)) < Limit
      BY DEF Newest
    <2>. HIDE DEF above
    <2>3. /\ IsFiniteSet(above(S, i)) /\ IsFiniteSet(above(T, i))
          /\ Cardinality(above(T, i)) <= Cardinality(above(S, i))
      BY <1>2, <2>1, FS_Subset
    <2>4. Cardinality(above(S, i)) \in Nat /\ Cardinality(above(T, i)) \in Nat
      BY <2>3, FS_CardinalityType
    <2>5. Cardinality(above(T, i)) < Limit
      BY <1>3, <2>2, <2>3, <2>4
    <2>. QED
      BY <2>5 DEF Newest, above
  <1>5. ASSUME Cardinality(T) <= Limit, NEW i \in T PROVE i \in Newest(T)
    <2>1. above(T, i) \in SUBSET T /\ above(T, i) # T
      <3>1. i \in Int
        BY DEF Stamps
      <3>. QED
        BY <3>1
    <2>. HIDE DEF above
    <2>2. /\ Cardinality(above(T, i)) <= Cardinality(T)
          /\ Cardinality(above(T, i)) # Cardinality(T)
          /\ IsFiniteSet(above(T, i))
      BY <1>2, <2>1, FS_Subset
    <2>3. Cardinality(above(T, i)) \in Nat
      BY <2>2, FS_CardinalityType
    <2>4. Cardinality(above(T, i)) < Limit
      BY <1>2, <1>3, <1>5, <2>2, <2>3
    <2>. QED
      BY <2>4 DEF Newest, above
  <1>. QED
    BY <1>4, <1>5

\* GET /api/v1/logs, whose filters are in the WHERE clause, answers with all a
\* stream would be sent as history, and with all lines that match when they are
\* no more than the limit.
THEOREM QueryCorrect == Spec => []QueryCoversHistory
  <1>1. FlowInv => QueryCoversHistory
    <2>. SUFFICES ASSUME FlowInv PROVE QueryCoversHistory
      OBVIOUS
    <2>1. rows \subseteq Stamps /\ BrokerTypes
      BY DEF FlowInv, StreamTypes, BrokerInv
    <2>2. ASSUME NEW s \in Streams
          PROVE  History(s) \subseteq Queried(query[s].topic, query[s].type)
      <3>. DEFINE S == {j \in rows : About(j, query[s].topic)}
                  T == Matching(query[s].topic, query[s].type)
      <3>1. S \in SUBSET Stamps /\ T \in SUBSET S
        BY <2>1 DEF Matching
      <3>2. History(s) \subseteq Newest(S) \cap T
        BY DEF History, Newest, Passes, Matching
      <3>. HIDE DEF S, T
      <3>3. Newest(S) \cap T \subseteq Newest(T)
        BY <2>1, <3>1, NewestOfSubset
      <3>. QED
        BY <3>2, <3>3 DEF Queried, T
    <2>3. ASSUME NEW t \in Topics, NEW ty \in Types \cup {AnyType},
                 Cardinality(Matching(t, ty)) <= Limit
          PROVE  Matching(t, ty) \subseteq Queried(t, ty)
      <3>. DEFINE T == Matching(t, ty)
      <3>1. T \in SUBSET Stamps /\ T \in SUBSET T /\ Cardinality(T) <= Limit
        BY <2>1, <2>3 DEF Matching
      <3>. HIDE DEF T
      <3>2. T \subseteq Newest(T)
        BY <2>1, <3>1, NewestOfSubset
      <3>. QED
        BY <3>2 DEF Queried, T
    <2>. QED
      BY <2>2, <2>3 DEF QueryCoversHistory
  <1>. QED
    BY <1>1, FlowCorrect, PTL
=============================================================================
