----------------------------- MODULE LogStream -----------------------------
(***************************************************************************)
(* Log lines on their way from a goroutine to the table logs and to the    *)
(* browsers that follow them: writeLog, the SSEBroker with its bounded     *)
(* channels, and the handler of GET /api/v1/logs/stream.                   *)
(*                                                                         *)
(* A line is named by its timestamp, which writeLog takes before anything  *)
(* else; lines[i] is the line stamped i-th.  Broadcast sends to one        *)
(* channel after the other while it holds the broker's read lock, so two   *)
(* broadcasts interleave but Subscribe and Unsubscribe never cut into one. *)
(***************************************************************************)
EXTENDS Integers, Sequences, FiniteSets, SequencesExt

CONSTANTS
  Writers,   \* goroutines that write log lines
  Says,      \* what a line of each writer may be about
  Streams,   \* connections to /api/v1/logs/stream
  Topics,    \* deployment ids and All
  All,       \* the topic "all"
  Types,     \* log types
  AnyType,   \* no type filter
  Cap,       \* capacity of a subscriber's channel (256 in the code)
  Limit,     \* most lines in a backfill (200 in the code)
  MaxLines,  \* bound on the lines written
  Lossy      \* TRUE iff an INSERT may fail

ASSUME LogStreamAssumption ==
  /\ All \in Topics
  /\ AnyType \notin Types
  /\ Says \in [Writers -> SUBSET [topic : Topics, type : Types]]
  /\ {Cap, Limit, MaxLines} \subseteq Nat
  /\ Cap > 0 /\ Limit > 0
  /\ Lossy \in BOOLEAN

VARIABLES
  lines,        \* every line so far, in the order of their timestamps
  rows,         \* the lines in table logs
  pc,           \* where the writeLog of a writer stands
  line,         \* the line it is writing
  todo,         \* the channels its Broadcast has yet to send to
  subscribers,  \* the broker's list of channels per topic
  queue,        \* the lines in a stream's channel
  closed,       \* the streams whose channel is closed
  stage,        \* where the handler of a stream stands
  query,        \* its topic and type
  seen,         \* the lines it sent to its client
  past          \* how many of them were the backfill

writer == <<pc, line, todo>>
stream == <<queue, closed, stage, query, seen, past>>
vars   == <<lines, rows, writer, subscribers, stream>>

Stamps  == 1..Len(lines)

\* What a topic's channels are sent, and what the type filter lets through.
About(i, t)  == t = All \/ lines[i].topic = t
Passes(i, s) == query[s].type \in {AnyType, lines[i].type}

Init ==
  /\ lines = <<>>
  /\ rows = {}
  /\ pc = [w \in Writers |-> "idle"]
  /\ line = [w \in Writers |-> 0]
  /\ todo = [w \in Writers |-> <<>>]
  /\ subscribers = [t \in Topics |-> <<>>]
  /\ queue = [s \in Streams |-> <<>>]
  /\ closed = {}
  /\ stage = [s \in Streams |-> "idle"]
  /\ query = [s \in Streams |-> [topic |-> All, type |-> AnyType]]
  /\ seen = [s \in Streams |-> <<>>]
  /\ past = [s \in Streams |-> 0]

-----------------------------------------------------------------------------
\* writeLog

Stamp(w) ==
  /\ pc[w] = "idle"
  /\ Len(lines) < MaxLines
  /\ \E about \in Says[w] :
       lines' = Append(lines, [by |-> w, topic |-> about.topic, type |-> about.type])
  /\ line' = [line EXCEPT ![w] = Len(lines) + 1]
  /\ pc' = [pc EXCEPT ![w] = "stamped"]
  /\ UNCHANGED <<rows, todo, subscribers, stream>>

\* Mutant: the row is given the timestamp of the next line.
InsertLate(w) ==
  /\ pc[w] = "stamped"
  /\ rows' = rows \cup {line[w] + 1}
  /\ pc' = [pc EXCEPT ![w] = "stored"]
  /\ UNCHANGED <<lines, line, todo, subscribers, stream>>

\* A failed INSERT is logged, and the line broadcast all the same.
Insert(w) ==
  /\ pc[w] = "stamped"
  /\ \/ rows' = rows \cup {line[w]}
     \/ Lossy /\ rows' = rows
  /\ pc' = [pc EXCEPT ![w] = "stored"]
  /\ UNCHANGED <<lines, line, todo, subscribers, stream>>

\* Mutant: every line goes to every list of channels.
RecipientsEverywhere(t) == subscribers[t] \o subscribers[All] \o subscribers[t]

\* The topic's own channels, then those of "all".
Recipients(t) == subscribers[t] \o subscribers[All]

\* Broadcast takes the read lock.
Broadcast(w) ==
  /\ pc[w] = "stored"
  /\ todo' = [todo EXCEPT ![w] = Recipients(lines[line[w]].topic)]
  /\ pc' = [pc EXCEPT ![w] = "sending"]
  /\ UNCHANGED <<lines, rows, line, subscribers, stream>>

\* Mutant: a line that finds the channel half full is dropped.
SendReluctantly(w) ==
  /\ pc[w] = "sending" /\ todo[w] # <<>>
  /\ LET s == Head(todo[w])
     IN  queue' = IF queue[s] # <<>> THEN queue ELSE [queue EXCEPT ![s] = Append(@, line[w])]
  /\ todo' = [todo EXCEPT ![w] = Tail(@)]
  /\ UNCHANGED <<lines, rows, pc, line, subscribers, closed, stage, query, seen, past>>

\* One send; it never blocks, and a full channel loses the line.
Send(w) ==
  /\ pc[w] = "sending" /\ todo[w] # <<>>
  /\ LET s == Head(todo[w])
     IN  queue' = IF Len(queue[s]) = Cap THEN queue
                  ELSE [queue EXCEPT ![s] = Append(@, line[w])]
  /\ todo' = [todo EXCEPT ![w] = Tail(@)]
  /\ UNCHANGED <<lines, rows, pc, line, subscribers, closed, stage, query, seen, past>>

\* Broadcast releases the read lock and writeLog returns.
Return(w) ==
  /\ pc[w] = "sending" /\ todo[w] = <<>>
  /\ pc' = [pc EXCEPT ![w] = "idle"]
  /\ line' = [line EXCEPT ![w] = 0]
  /\ UNCHANGED <<lines, rows, todo, subscribers, stream>>

\* Nobody holds the read lock, so the write lock can be had.
Unlocked == \A w \in Writers : pc[w] # "sending"

-----------------------------------------------------------------------------
\* GET /api/v1/logs/stream

Connect(s) ==
  /\ stage[s] = "idle"
  /\ \E t \in Topics, ty \in Types \cup {AnyType} :
       query' = [query EXCEPT ![s] = [topic |-> t, type |-> ty]]
  /\ stage' = [stage EXCEPT ![s] = "connected"]
  /\ UNCHANGED <<lines, rows, writer, subscribers, queue, closed, seen, past>>

\* The newest Limit of the stamps in S.
Newest(S) == {i \in S : Cardinality({j \in S : j > i}) < Limit}

\* The lines of the topic, the newest Limit of them, filtered by type only after
\* the limit was applied.
History(s) ==
  {i \in Newest({j \in rows : About(j, query[s].topic)}) : Passes(i, s)}

\* Mutant: the rows are sent as the query returns them, newest first.
NewestFirst(S) ==
  {q \in [1..Cardinality(S) -> S] : \A j, k \in DOMAIN q : j < k => q[j] > q[k]}

\* The rows are read newest first and sent from the last to the first.
Chronological(S) ==
  {q \in [1..Cardinality(S) -> S] : \A j, k \in DOMAIN q : j < k => q[j] < q[k]}

\* One SELECT reads them all; if it fails the stream goes on without.
Backfill(s) ==
  /\ stage[s] = "connected"
  /\ \/ \E sent \in Chronological(History(s)) : seen' = [seen EXCEPT ![s] = sent]
     \/ Lossy /\ seen' = seen
  /\ past' = [past EXCEPT ![s] = Len(seen'[s])]
  /\ stage' = [stage EXCEPT ![s] = "backfilled"]
  /\ UNCHANGED <<lines, rows, writer, subscribers, queue, closed, query>>

\* Only now does the handler ask the broker for a channel.
Subscribe(s) ==
  /\ stage[s] = "backfilled"
  /\ Unlocked
  /\ subscribers' = [subscribers EXCEPT ![query[s].topic] = Append(@, s)]
  /\ stage' = [stage EXCEPT ![s] = "streaming"]
  /\ UNCHANGED <<lines, rows, writer, queue, closed, query, seen, past>>

Receive(s) ==
  /\ stage[s] = "streaming"
  /\ queue[s] # <<>>
  /\ LET i == Head(queue[s])
     IN  seen' = IF Passes(i, s) THEN [seen EXCEPT ![s] = Append(@, i)] ELSE seen
  /\ queue' = [queue EXCEPT ![s] = Tail(@)]
  /\ UNCHANGED <<lines, rows, writer, subscribers, closed, stage, query, past>>

\* The client is gone and the loop notices.  It may notice before it looks at
\* lines still in the channel.
HangUp(s) ==
  /\ stage[s] = "streaming"
  /\ stage' = [stage EXCEPT ![s] = "leaving"]
  /\ UNCHANGED <<lines, rows, writer, subscribers, queue, closed, query, seen, past>>

\* Mutant: the channel is closed without waiting for the broadcasts under way.
UnsubscribeUnlocked(s) ==
  /\ stage[s] = "leaving"
  /\ \E i \in DOMAIN subscribers[query[s].topic] :
       /\ subscribers[query[s].topic][i] = s
       /\ subscribers' = [subscribers EXCEPT ![query[s].topic] = RemoveAt(@, i)]
  /\ closed' = closed \cup {s}
  /\ stage' = [stage EXCEPT ![s] = "left"]
  /\ UNCHANGED <<lines, rows, writer, queue, query, seen, past>>

\* Under the write lock the channel, which is listed once, leaves the list and
\* is closed.
Unsubscribe(s) ==
  /\ stage[s] = "leaving"
  /\ Unlocked
  /\ \E i \in DOMAIN subscribers[query[s].topic] :
       /\ subscribers[query[s].topic][i] = s
       /\ subscribers' = [subscribers EXCEPT ![query[s].topic] = RemoveAt(@, i)]
  /\ closed' = closed \cup {s}
  /\ stage' = [stage EXCEPT ![s] = "left"]
  /\ UNCHANGED <<lines, rows, writer, queue, query, seen, past>>

-----------------------------------------------------------------------------
\* DELETE /api/v1/deployments?id=t deletes the lines of t.
DeleteLogs(t) ==
  /\ rows' = {i \in rows : lines[i].topic # t}
  /\ rows' # rows
  /\ UNCHANGED <<lines, writer, subscribers, stream>>

-----------------------------------------------------------------------------
\* GET /api/v1/logs

Matching(t, ty) == {i \in rows : About(i, t) /\ ty \in {AnyType, lines[i].type}}

\* Mutant: the type is looked at after the limit, as the stream's query does.
QueriedLate(t, ty) == Newest({i \in rows : About(i, t)}) \cap Matching(t, ty)

\* The lines it answers with: here the filters are part of the WHERE clause.  A
\* filter on the level, which it also knows, works as the one on the type.
Queried(t, ty) == Newest(Matching(t, ty))

-----------------------------------------------------------------------------
Write(w)  == Insert(w) \/ Broadcast(w) \/ Send(w) \/ Return(w)
Handle(s) == Backfill(s) \/ Subscribe(s) \/ Receive(s) \/ Unsubscribe(s)

Next ==
  \/ \E w \in Writers : Stamp(w) \/ Write(w)
  \/ \E s \in Streams : Connect(s) \/ Handle(s) \/ HangUp(s)
  \/ \E t \in Topics : DeleteLogs(t)

Spec == Init /\ [][Next]_vars

\* Goroutines run on: nothing writeLog or the handler does blocks for good.
\* Clients need not connect or hang up, and nobody need write a line.
FairSpec ==
  Spec /\ (\A w \in Writers : WF_vars(Write(w))) /\ (\A s \in Streams : WF_vars(Handle(s)))

-----------------------------------------------------------------------------
TypeOK ==
  /\ lines \in Seq([by : Writers, topic : Topics, type : Types])
  /\ rows \subseteq Stamps
  /\ pc \in [Writers -> {"idle", "stamped", "stored", "sending"}]
  /\ line \in [Writers -> 0..Len(lines)]
  /\ todo \in [Writers -> Seq(Streams)]
  /\ subscribers \in [Topics -> Seq(Streams)]
  /\ queue \in [Streams -> Seq(Stamps)]
  /\ closed \subseteq Streams
  /\ stage \in [Streams -> {"idle", "connected", "backfilled", "streaming", "leaving", "left"}]
  /\ query \in [Streams -> [topic : Topics, type : Types \cup {AnyType}]]
  /\ seen \in [Streams -> Seq(Stamps)]
  /\ past \in [Streams -> Nat]

\* Nobody sends to a closed channel, which would end the whole server: a
\* broadcast never outlives the subscription of a channel it will send to.
NoSendOnClosed ==
  \A s \in closed :
    /\ \A w \in Writers : s \notin ToSet(todo[w])
    /\ \A t \in Topics : s \notin ToSet(subscribers[t])

\* The lines of one goroutine reach a client in the order they were written,
\* over the seam between backfill and live lines too.
WriterOrder ==
  \A s \in Streams :
    LET all == seen[s] \o queue[s]
    IN  \A j, k \in 1..Len(all) :
          j < k /\ lines[all[j]].by = lines[all[k]].by => all[j] <= all[k]

\* After the backfill a client is sent a line once.  The lines of topic "all",
\* the metrics, are sent twice to those who follow "all".
LiveOnce ==
  \A s \in Streams, i \in Stamps :
    LET live == SubSeq(seen[s], past[s] + 1, Len(seen[s])) \o queue[s]
    IN  Cardinality({k \in 1..Len(live) : live[k] = i}) <=
          IF lines[i].topic = All /\ query[s].topic = All THEN 2 ELSE 1

\* Whoever is subscribed when a line is written is sent the line, unless the
\* client leaves or was so slow that its channel filled up.
Streamed ==
  \A s \in Streams, i \in 1..MaxLines :
    (\E w \in Writers : /\ pc[w] \in {"stamped", "stored"} /\ line[w] = i
                        /\ stage[s] = "streaming"
                        /\ About(i, query[s].topic) /\ Passes(i, s))
      ~> i \in ToSet(seen[s]) \/ stage[s] # "streaming" \/ Len(queue[s]) = Cap

\* A client that reloads its page gets from GET /api/v1/logs at least what the
\* stream would send it as history for the same filters, and all lines that
\* match if they are no more than the limit, however many newer ones do not:
\* that is how the lines can be had which the stream's history leaves out.
QueryCoversHistory ==
  /\ \A s \in Streams : History(s) \subseteq Queried(query[s].topic, query[s].type)
  /\ \A t \in Topics, ty \in Types \cup {AnyType} :
       Cardinality(Matching(t, ty)) <= Limit => Matching(t, ty) \subseteq Queried(t, ty)

\* For every line of the build, writeLog pushes the text to the UI
\* (ZOD_CLOUD_ARCHITECTURE.md:63): a client that has read all it was sent has
\* the lines of its topic that are in the table.
NothingMissed ==
  \A s \in Streams, i \in rows :
    /\ stage[s] = "streaming" /\ queue[s] = <<>>
    /\ About(i, query[s].topic) /\ Passes(i, s)
    /\ \A w \in Writers : line[w] # i
    => i \in ToSet(seen[s])
=============================================================================
