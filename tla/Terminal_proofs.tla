-------------------------- MODULE Terminal_proofs --------------------------
(***************************************************************************)
(* Proofs about the web terminal, for any streams, any capacity of the     *)
(* pipes and any amount of input and output.                               *)
(***************************************************************************)
EXTENDS Terminal, SequenceTheorems, TLAPS

LEMMA ChunkIsNumber == \A c \in Chunks : c \in Nat
  <1>. SUFFICES ASSUME NEW s \in Streams, NEW c \in 1..MaxOut[s] PROVE c \in Nat
    BY DEF Chunks
  <1>. QED
    BY TerminalAssumption

LEMMA HandIsSequence ==
  ASSUME TypeOK, NEW s \in Streams
  PROVE  hand[s] \in Seq(Chunks)
  <1>1. hand[s] = <<>> \/ \E c \in Chunks : hand[s] = <<c>>
    BY DEF TypeOK
  <1>2. CASE hand[s] = <<>>
    BY <1>2, EmptySeq
  <1>3. ASSUME NEW c \in Chunks, hand[s] = <<c>> PROVE hand[s] \in Seq(Chunks)
    <2>1. <<c>> \in Seq(Chunks)
      OBVIOUS
    <2>. QED
      BY <1>3, <2>1
  <1>. QED
    BY <1>1, <1>2, <1>3

\* A command that is about to write has something left to write.
WritesInBounds ==
  /\ written \in [Streams -> Nat]
  /\ \A s \in Streams : shell = s => written[s] < MaxOut[s]

\* A goroutine holds output only from its Read to its WriteMessage.
HandsFree ==
  \A s \in Streams : output[s] \in {"none", "reading", "done"} => hand[s] = <<>>

\* Until cmd.Start nothing runs, and until cmd.Wait the connection is open.
Order ==
  /\ handler = "starting" => /\ shell = "none" /\ input = "none"
                             /\ \A s \in Streams : output[s] = "none"
  /\ handler \in {"starting", "waiting"} => conn

\* Until cmd.Wait returns nothing is lost to a client that is there.
Accounted ==
  handler \in {"starting", "waiting"} /\ client = "here" /\ wire = "sound" =>
    \A s \in Streams : shown[s] \o hand[s] \o pipe[s] = Numbers(written[s])

\* The screen shows a beginning of the output, and goes on to do so if what the
\* goroutine holds still gets there.
IsBeginning(q, s) == \E n \in 0..written[s] : q = Numbers(n)

Screen ==
  wire = "sound" =>
    \A s \in Streams :
      /\ IsBeginning(shown[s], s)
      /\ client = "here" /\ conn => IsBeginning(shown[s] \o hand[s], s)

IInv == TypeOK /\ WritesInBounds /\ HandsFree /\ Order /\ Accounted /\ Screen

\* What a beginning of Numbers(n) is.
LEMMA BeginningOfNumbers ==
  ASSUME NEW a \in Seq(Chunks), NEW b \in Seq(Chunks), NEW n \in Nat, a \o b = Numbers(n)
  PROVE  \E m \in 0..n : a = Numbers(m)
  <1>1. /\ Len(a) \in Nat /\ Len(b) \in Nat /\ Len(a \o b) = Len(a) + Len(b)
        /\ \A i \in 1..Len(a) : (a \o b)[i] = a[i]
    BY ConcatProperties
  <1>2. Len(Numbers(n)) = n /\ \A i \in 1..n : Numbers(n)[i] = i
    BY DEF Numbers
  <1>3. Len(a) \in 0..n
    BY <1>1, <1>2
  <1>4. a = [i \in 1..Len(a) |-> a[i]]
    OBVIOUS
  <1>5. a = Numbers(Len(a))
    <2>1. \A i \in 1..Len(a) : a[i] = i
      BY <1>1, <1>2, <1>3
    <2>. QED
      BY <1>4, <2>1 DEF Numbers
  <1>. QED
    BY <1>3, <1>5

\* Steps that neither show nor pick up output.
LEMMA ScreenKept ==
  ASSUME Screen, UNCHANGED <<shown, hand>>,
         \A s \in Streams : written[s] \in Nat /\ written'[s] \in Nat /\ written[s] <= written'[s],
         client' = "here" => client = "here", conn' => conn, wire' = "sound" => wire = "sound"
  PROVE  Screen'
  <1>1. ASSUME NEW q, NEW s \in Streams, IsBeginning(q, s)
        PROVE  \E n \in 0..written'[s] : q = Numbers(n)
    <2>1. PICK n \in 0..written[s] : q = Numbers(n)
      BY <1>1 DEF IsBeginning
    <2>2. n \in 0..written'[s]
      OBVIOUS
    <2>. QED
      BY <2>1, <2>2
  <1>. QED
    BY <1>1 DEF Screen, IsBeginning

-----------------------------------------------------------------------------
LEMMA InitIInv == Init => IInv
  <1>. SUFFICES ASSUME Init PROVE IInv
    OBVIOUS
  <1>1. TypeOK /\ WritesInBounds
    BY TerminalAssumption DEF Init, TypeOK, WritesInBounds
  <1>2. HandsFree /\ Order
    BY DEF Init, HandsFree, Order
  <1>3. Accounted
    <2>1. Numbers(0) = <<>>
      BY DEF Numbers
    <2>2. <<>> \o <<>> \o <<>> = <<>>
      OBVIOUS
    <2>. QED
      BY <2>1, <2>2 DEF Init, Accounted
  <1>4. Screen
    <2>1. Numbers(0) = <<>>
      BY DEF Numbers
    <2>2. <<>> \o <<>> = <<>>
      OBVIOUS
    <2>3. \A s \in Streams : written[s] = 0 /\ shown[s] = <<>> /\ hand[s] = <<>>
      BY DEF Init
    <2>4. 0 \in 0..0
      OBVIOUS
    <2>. QED
      BY <2>1, <2>2, <2>3, <2>4 DEF Screen, IsBeginning
  <1>. QED
    BY <1>1, <1>2, <1>3, <1>4 DEF IInv

\* Most steps touch neither the output nor what the goroutines hold of it.
LEMMA QuietStep ==
  ASSUME IInv, TypeOK', UNCHANGED <<shown, hand, pipe, written, output>>,
         shell' = shell \/ shell' \in {"running", "exited"}
           \/ (shell' \in Streams /\ written[shell'] < MaxOut[shell']),
         handler' \in {"starting", "waiting"} => handler' = handler,
         handler' = "starting" => shell' = shell /\ input' = input,
         handler' \in {"starting", "waiting"} => conn' = conn, conn' => conn,
         client' = "here" => client = "here",
         wire' = "sound" => wire = "sound"
  PROVE  IInv'
  <1>. USE DEF IInv
  <1>1. WritesInBounds'
    BY TerminalAssumption DEF WritesInBounds
  <1>2. HandsFree' /\ Order' /\ Accounted'
    BY DEF HandsFree, Order, Accounted
  <1>3. Screen'
    BY ScreenKept DEF WritesInBounds
  <1>. QED
    BY <1>1, <1>2, <1>3

LEMMA ClientStep == IInv /\ (Type \/ Leave) => IInv'
  <1>. SUFFICES ASSUME IInv, Type \/ Leave PROVE IInv'
    OBVIOUS
  <1>1. TypeOK'
    BY TerminalAssumption DEF IInv, TypeOK, Type, Leave, pipes, reader
  <1>. QED
    BY <1>1, QuietStep DEF Type, Leave, pipes, reader

LEMMA ShellStep == IInv /\ (ShellReads \/ ShellEnds \/ ShellExits) => IInv'
  <1>. SUFFICES ASSUME IInv, ShellReads \/ ShellEnds \/ ShellExits PROVE IInv'
    OBVIOUS
  <1>1. TypeOK'
    BY TerminalAssumption DEF IInv, TypeOK, ShellReads, ShellEnds, ShellExits, user, pipes, reader
  <1>2. handler' = handler /\ conn' = conn /\ input' = input /\ (handler = "starting" => FALSE)
    BY TerminalAssumption
    DEF ShellReads, ShellEnds, ShellExits, IInv, Order
  <1>. QED
    BY <1>1, <1>2, QuietStep DEF ShellReads, ShellEnds, ShellExits, user, pipes, reader

LEMMA ShellWantsStep ==
  ASSUME IInv, NEW s \in Streams, ShellWants(s)
  PROVE  IInv'
  <1>1. TypeOK'
    BY DEF IInv, TypeOK, ShellWants, user, pipes, reader
  <1>2. handler # "starting"
    BY DEF ShellWants, IInv, Order
  <1>. QED
    BY <1>1, <1>2, QuietStep DEF ShellWants, user, pipes, reader

\* What the shell writes comes last of all it wrote.
LEMMA ShellWritesStep ==
  ASSUME IInv, NEW s \in Streams, ShellWrites(s)
  PROVE  IInv'
  <1>. USE DEF IInv
  <1>. DEFINE n == written[s]
  <1>1. /\ shell = s /\ n \in Nat /\ n < MaxOut[s] /\ MaxOut[s] \in Nat
        /\ s \notin {"none", "running", "exited", "handler"}
    BY TerminalAssumption DEF ShellWrites, WritesInBounds
  <1>2. /\ written' = [written EXCEPT ![s] = n + 1]
        /\ pipe' = [pipe EXCEPT ![s] = Append(@, n + 1)]
        /\ shell' = "running"
        /\ UNCHANGED <<client, inbox, typed, shown, conn, stdin, input, output, hand, handler,
           wire>>
    BY DEF ShellWrites, user, reader
  <1>3. /\ n + 1 \in Chunks /\ pipe[s] \in Seq(Chunks)
        /\ shown[s] \in Seq(Chunks) /\ hand[s] \in Seq(Chunks)
    <2>1. n + 1 \in 1..MaxOut[s]
      BY <1>1
    <2>2. hand[s] \in Seq(Chunks)
      BY HandIsSequence
    <2>. QED
      BY <2>1, <2>2 DEF Chunks, TypeOK
  <1>4. TypeOK'
    <2>1. pipe' \in [Streams -> Seq(Chunks)]
      BY <1>2, <1>3 DEF TypeOK
    <2>2. \A r \in Streams : written'[r] \in 0..MaxOut[r]
      BY <1>1, <1>2 DEF TypeOK, WritesInBounds
    <2>. QED
      BY <1>2, <2>1, <2>2 DEF TypeOK
  <1>5. WritesInBounds'
    BY <1>1, <1>2, TerminalAssumption DEF WritesInBounds
  <1>6. HandsFree'
    BY <1>2 DEF HandsFree
  <1>7. Order'
    BY <1>1, <1>2 DEF Order
  <1>8. Accounted'
    <2>. SUFFICES ASSUME handler \in {"starting", "waiting"}, client = "here", wire = "sound",
                         NEW r \in Streams
         PROVE  shown[r] \o hand[r] \o pipe'[r] = Numbers(written'[r])
      BY <1>2 DEF Accounted
    <2>1. shown[r] \o hand[r] \o pipe[r] = Numbers(written[r])
      BY DEF Accounted
    <2>2. CASE r # s
      BY <1>2, <2>1, <2>2 DEF TypeOK, WritesInBounds
    <2>3. CASE r = s
      <3>. DEFINE a == shown[s] \o hand[s]
      <3>1. a \in Seq(Chunks)
        BY <1>3, ConcatProperties
      <3>2. a \o Append(pipe[s], n + 1) = Append(a \o pipe[s], n + 1)
        <4>1. <<n + 1>> \in Seq(Chunks) /\ a \o pipe[s] \in Seq(Chunks)
          BY <1>3, <3>1, ConcatProperties
        <4>2. /\ Append(pipe[s], n + 1) = pipe[s] \o <<n + 1>>
              /\ Append(a \o pipe[s], n + 1) = (a \o pipe[s]) \o <<n + 1>>
          BY <1>3, <4>1, AppendIsConcat
        <4>3. ASSUME NEW x \in Seq(Chunks), NEW y \in Seq(Chunks), NEW z \in Seq(Chunks)
              PROVE  x \o (y \o z) = (x \o y) \o z
          BY ConcatAssociative
        <4>. HIDE DEF a
        <4>. QED
          BY <1>3, <3>1, <4>1, <4>2, <4>3
      <3>3. Append(Numbers(n), n + 1) = Numbers(n + 1)
        <4>1. Numbers(n) \in Seq(Nat) /\ Numbers(n + 1) \in Seq(Nat)
              /\ Len(Numbers(n)) = n /\ Len(Numbers(n + 1)) = n + 1
          BY <1>1 DEF Numbers
        <4>2. /\ Append(Numbers(n), n + 1) \in Seq(Nat)
              /\ Len(Append(Numbers(n), n + 1)) = n + 1
              /\ \A i \in 1..n : Append(Numbers(n), n + 1)[i] = Numbers(n)[i]
              /\ Append(Numbers(n), n + 1)[n + 1] = n + 1
          BY <1>1, <4>1, AppendProperties
        <4>3. \A i \in 1..(n + 1) : Append(Numbers(n), n + 1)[i] = Numbers(n + 1)[i]
          BY <1>1, <4>2 DEF Numbers
        <4>. QED
          BY <4>1, <4>2, <4>3, SeqEqual
      <3>4. pipe'[r] = Append(pipe[s], n + 1) /\ written'[r] = n + 1
        BY <1>2, <2>3 DEF TypeOK, WritesInBounds
      <3>. QED
        BY <2>1, <2>3, <3>2, <3>3, <3>4
    <2>. QED
      BY <2>2, <2>3
  <1>9. Screen'
    BY <1>1, <1>2, ScreenKept DEF WritesInBounds
  <1>. QED
    BY <1>4, <1>5, <1>6, <1>7, <1>8, <1>9

-----------------------------------------------------------------------------
\* The handler
LEMMA StartStep == IInv /\ Start => IInv'
  <1>. SUFFICES ASSUME IInv, Start PROVE IInv'
    OBVIOUS
  <1>. USE DEF IInv
  <1>1. CASE StartFails
    <2>1. TypeOK'
      BY <1>1 DEF TypeOK, StartFails, user, pipes, reader
    <2>. QED
      BY <1>1, <2>1, QuietStep DEF StartFails, user, pipes, reader
  <1>2. CASE StartShell
    <2>1. /\ handler = "starting" /\ handler' = "waiting" /\ shell' = "running"
          /\ output' = [s \in Streams |-> "reading"]
          /\ UNCHANGED <<client, shown, conn, written, pipe, hand, wire>>
      BY <1>2 DEF StartShell, user, pipes
    <2>2. TypeOK'
      BY <1>2 DEF TypeOK, StartShell, user, pipes
    <2>3. WritesInBounds'
      BY <2>1, TerminalAssumption DEF WritesInBounds
    <2>4. HandsFree' /\ Order' /\ Accounted'
      BY <2>1 DEF HandsFree, Order, Accounted
    <2>5. Screen'
      BY <2>1, ScreenKept DEF WritesInBounds
    <2>. QED
      BY <2>2, <2>3, <2>4, <2>5
  <1>. QED
    BY <1>1, <1>2 DEF Start

LEMMA EndStep == IInv /\ (Wait \/ Notice \/ Return) => IInv'
  <1>. SUFFICES ASSUME IInv, Wait \/ Notice \/ Return PROVE IInv'
    OBVIOUS
  <1>1. TypeOK'
    BY DEF IInv, TypeOK, Wait, Notice, BeginWrite, HandlerPanics, Return, user, pipes, reader
  <1>2. /\ wire' = "sound" => wire = "sound"
        /\ handler' \in {"exited", "writing", "returned"}
        /\ conn' \in {conn, FALSE}
        /\ UNCHANGED <<client, shown, hand, pipe, written, output, shell, input>>
    BY DEF Wait, Notice, BeginWrite, HandlerPanics, Return, user, pipes, reader
  <1>3. conn' => conn
    BY <1>2
  <1>. QED
    BY <1>1, <1>2, <1>3, QuietStep

\* The goroutine from the connection to stdin
LEMMA InputStep == IInv /\ Input => IInv'
  <1>. SUFFICES ASSUME IInv, Input PROVE IInv'
    OBVIOUS
  <1>1. TypeOK'
    <2>1. CASE ReadMessage
      BY <2>1 DEF IInv, TypeOK, ReadMessage, pipes, reader
    <2>2. CASE ReadMessageFails \/ CloseStdin
      BY <2>2 DEF IInv, TypeOK, ReadMessageFails, CloseStdin, user, pipes, reader
    <2>3. CASE WriteStdin
      <3>1. /\ stdin' \in {stdin, [stdin EXCEPT !.held = @ + 1]}
            /\ stdin' # stdin => stdin.held < Cap
            /\ input' = "reading"
            /\ UNCHANGED <<client, inbox, typed, shown, conn, shell, written, pipe, output,
                           hand, handler, wire>>
        BY <2>3 DEF WriteStdin, user, reader
      <3>2. stdin \in [held : 0..Cap, open : BOOLEAN] /\ Cap \in Nat
        BY TerminalAssumption DEF IInv, TypeOK
      <3>3. stdin' \in [held : 0..Cap, open : BOOLEAN]
        BY <3>1, <3>2
      <3>. QED
        BY <3>1, <3>3 DEF IInv, TypeOK
    <2>. QED
      BY <2>1, <2>2, <2>3 DEF Input
  <1>2. handler # "starting"
    BY DEF IInv, Order, Input, ReadMessage, ReadMessageFails, WriteStdin, CloseStdin
  <1>. QED
    BY <1>1, <1>2, QuietStep
    DEF Input, ReadMessage, ReadMessageFails, WriteStdin, CloseStdin, user, pipes, reader

-----------------------------------------------------------------------------
\* The goroutines from stdout and stderr to the connection
LEMMA ReadOutputStep ==
  ASSUME IInv, NEW s \in Streams, ReadOutput(s)
  PROVE  IInv'
  <1>. USE DEF IInv
  <1>1. /\ output[s] = "reading" /\ handler = "waiting" /\ pipe[s] # <<>>
        /\ hand' = [hand EXCEPT ![s] = <<Head(pipe[s])>>]
        /\ pipe' = [pipe EXCEPT ![s] = Tail(@)]
        /\ output' = [output EXCEPT ![s] = "read"]
        /\ UNCHANGED <<client, inbox, typed, shown, conn, shell, stdin, written, input, handler,
           wire>>
    BY DEF ReadOutput, user
  <1>2. /\ pipe[s] \in Seq(Chunks) /\ shown[s] \in Seq(Chunks) /\ hand[s] = <<>>
        /\ Head(pipe[s]) \in Chunks /\ Tail(pipe[s]) \in Seq(Chunks)
        /\ <<Head(pipe[s])>> \in Seq(Chunks)
    BY <1>1 DEF TypeOK, HandsFree
  <1>3. TypeOK'
    BY <1>1, <1>2 DEF TypeOK
  <1>4. WritesInBounds' /\ Order'
    BY <1>1 DEF WritesInBounds, Order
  <1>5. HandsFree'
    BY <1>1 DEF HandsFree, TypeOK
  <1>6. Accounted'
    <2>. SUFFICES ASSUME client = "here", wire = "sound", NEW r \in Streams
         PROVE  shown[r] \o hand'[r] \o pipe'[r] = Numbers(written[r])
      BY <1>1 DEF Accounted
    <2>1. shown[r] \o hand[r] \o pipe[r] = Numbers(written[r])
      BY <1>1 DEF Accounted
    <2>2. CASE r # s
      BY <1>1, <2>1, <2>2 DEF TypeOK
    <2>3. CASE r = s
      <3>. DEFINE h == <<Head(pipe[s])>>
                  t == Tail(pipe[s])
      <3>1. pipe[s] = h \o t
        <4>1. Len(pipe[s]) \in Nat \ {0} /\ Head(pipe[s]) = pipe[s][1]
          BY <1>1, <1>2
        <4>2. SubSeq(pipe[s], 1, Len(pipe[s])) = <<pipe[s][1]>> \o SubSeq(pipe[s], 2, Len(pipe[s]))
          BY <1>2, <4>1, SubSeqRecursiveFirst
        <4>. QED
          BY <1>1, <1>2, <4>1, <4>2, SubSeqFull, TailIsSubSeq
      <3>2. (shown[s] \o h) \o t = shown[s] \o (h \o t)
        <4>1. h \in Seq(Chunks) /\ t \in Seq(Chunks)
          BY <1>2
        <4>2. ASSUME NEW a \in Seq(Chunks), NEW b \in Seq(Chunks), NEW c \in Seq(Chunks)
              PROVE  (a \o b) \o c = a \o (b \o c)
          BY ConcatAssociative
        <4>. HIDE DEF h, t
        <4>. QED
          BY <1>2, <4>1, <4>2
      <3>3. shown[s] \o <<>> = shown[s]
        BY <1>2, ConcatEmptySeq
      <3>4. hand'[r] = h /\ pipe'[r] = t
        BY <1>1, <2>3 DEF TypeOK
      <3>. HIDE DEF h, t
      <3>. QED
        BY <1>2, <2>1, <2>3, <3>1, <3>2, <3>3, <3>4
    <2>. QED
      BY <2>2, <2>3
  <1>7. Screen'
    <2>. SUFFICES ASSUME wire = "sound", client = "here", NEW r \in Streams
         PROVE  IsBeginning(shown[r] \o hand'[r], r)
      BY <1>1 DEF Screen, IsBeginning
    <2>1. shown[r] \o hand'[r] \o pipe'[r] = Numbers(written[r])
      BY <1>1, <1>6 DEF Accounted
    <2>2. /\ shown[r] \in Seq(Chunks) /\ hand'[r] \in Seq(Chunks) /\ pipe'[r] \in Seq(Chunks)
          /\ written[r] \in Nat
      BY <1>1, <1>2, HandIsSequence DEF TypeOK, WritesInBounds
    <2>3. shown[r] \o hand'[r] \in Seq(Chunks)
      BY <2>2, ConcatProperties
    <2>. DEFINE q == shown[r] \o hand'[r]
    <2>. HIDE DEF q
    <2>4. q \in Seq(Chunks) /\ q \o pipe'[r] = Numbers(written[r])
      BY <2>1, <2>3 DEF q
    <2>. HIDE DEF IInv
    <2>5. \E m \in 0..written[r] : q = Numbers(m)
      BY <2>2, <2>4, BeginningOfNumbers
    <2>. QED
      BY <2>5 DEF IsBeginning, q
  <1>. QED
    BY <1>3, <1>4, <1>5, <1>6, <1>7

LEMMA OutputWaits ==
  ASSUME IInv, NEW s \in Streams, ReadOutputEnds(s) \/ BeginSend(s)
  PROVE  IInv'
  <1>. USE DEF IInv
  <1>1. /\ \/ output' = [output EXCEPT ![s] = "done"] /\ output[s] = "reading"
           \/ output' = [output EXCEPT ![s] = "writing"] /\ output[s] = "read"
        /\ UNCHANGED <<client, inbox, typed, shown, shell, stdin, written, pipe, input, hand>>
        /\ wire' = wire \/ wire' \in {"garbled", "panicked"}
        /\ \/ conn' = conn /\ handler' = handler
           \/ conn' = FALSE /\ handler' = "returned"
    <2>1. CASE ReadOutputEnds(s)
      BY <2>1 DEF ReadOutputEnds, user, pipes
    <2>2. CASE BeginSend(s)
      BY <2>2 DEF BeginSend, BeginWrite, HandlerPanics, user, pipes
    <2>. QED
      BY <2>1, <2>2
  <1>2. TypeOK'
    <2>1. output' \in [Streams -> {"none", "reading", "read", "writing", "done"}]
      BY <1>1 DEF TypeOK
    <2>2. wire' \in {"sound", "garbled", "panicked"}
      BY <1>1 DEF TypeOK
    <2>. QED
      BY <1>1, <2>1, <2>2 DEF TypeOK
  <1>3. WritesInBounds'
    BY <1>1 DEF WritesInBounds
  <1>4. HandsFree'
    BY <1>1 DEF HandsFree, TypeOK
  <1>5. Order'
    <2>1. output[s] # "none" /\ handler # "starting"
      BY <1>1 DEF Order
    <2>. QED
      BY <1>1, <2>1 DEF Order
  <1>6. Accounted'
    BY <1>1 DEF Accounted
  <1>7. Screen'
    <2>1. /\ wire' = "sound" => wire = "sound"
          /\ conn' => conn
      BY <1>1
    <2>. QED
      BY <1>1, <2>1 DEF Screen, IsBeginning
  <1>. QED
    BY <1>2, <1>3, <1>4, <1>5, <1>6, <1>7

\* As long as the client is there, WriteMessage puts on its screen what the
\* goroutine held.
LEMMA SendStep ==
  ASSUME IInv, NEW s \in Streams, Send(s)
  PROVE  IInv'
  <1>. USE DEF IInv
  <1>1. /\ output[s] = "writing" /\ output' = [output EXCEPT ![s] = "reading"]
        /\ shown' = [shown EXCEPT ![s] = @ \o Delivered(s)]
        /\ hand' = [hand EXCEPT ![s] = <<>>]
        /\ UNCHANGED <<client, inbox, typed, conn, shell, stdin, written, pipe, input, handler,
           wire>>
    BY DEF Send, pipes
  <1>2. /\ shown[s] \in Seq(Chunks) /\ hand[s] \in Seq(Chunks)
        /\ shown[s] \o hand[s] \in Seq(Chunks)
    BY HandIsSequence, ConcatProperties DEF TypeOK
  <1>3. shown[s] \o Delivered(s) \in Seq(Chunks)
    <2>1. Delivered(s) \in Seq(Chunks)
      BY <1>2 DEF Delivered
    <2>. QED
      BY <1>2, <2>1, ConcatProperties
  <1>4. TypeOK'
    BY <1>1, <1>3 DEF TypeOK
  <1>5. WritesInBounds'
    BY <1>1 DEF WritesInBounds
  <1>6. HandsFree' /\ Order'
    BY <1>1 DEF HandsFree, Order, TypeOK
  <1>7. Accounted'
    <2>. SUFFICES ASSUME handler \in {"starting", "waiting"}, client = "here", wire = "sound",
                         NEW r \in Streams
         PROVE  shown'[r] \o hand'[r] \o pipe[r] = Numbers(written[r])
      BY <1>1 DEF Accounted
    <2>1. shown[r] \o hand[r] \o pipe[r] = Numbers(written[r]) /\ conn
      BY DEF Accounted, Order
    <2>2. CASE r # s
      BY <1>1, <2>1, <2>2 DEF TypeOK
    <2>3. CASE r = s
      <3>1. shown'[r] = shown[s] \o hand[s] /\ hand'[r] = <<>>
        BY <1>1, <2>1, <2>3 DEF TypeOK, Delivered
      <3>2. (shown[s] \o hand[s]) \o <<>> = shown[s] \o hand[s]
        BY <1>2, ConcatEmptySeq
      <3>. QED
        BY <2>1, <2>3, <3>1, <3>2
    <2>. QED
      BY <2>2, <2>3
  <1>8. Screen'
    <2>. SUFFICES ASSUME wire = "sound", NEW r \in Streams
         PROVE  /\ IsBeginning(shown'[r], r)
                /\ client = "here" /\ conn => IsBeginning(shown'[r] \o hand'[r], r)
      BY <1>1 DEF Screen, IsBeginning
    <2>1. /\ IsBeginning(shown[r], r)
          /\ client = "here" /\ conn => IsBeginning(shown[r] \o hand[r], r)
      BY DEF Screen
    <2>2. CASE r # s
      BY <1>1, <2>1, <2>2 DEF TypeOK
    <2>3. CASE r = s
      <3>1. shown'[r] = shown[s] \o Delivered(s) /\ hand'[r] = <<>>
        BY <1>1, <2>3 DEF TypeOK
      <3>2. (shown[s] \o hand[s]) \o <<>> = shown[s] \o hand[s] /\ shown[s] \o <<>> = shown[s]
        BY <1>2, ConcatEmptySeq
      <3>. QED
        BY <2>1, <2>3, <3>1, <3>2 DEF Delivered
    <2>. QED
      BY <2>2, <2>3
  <1>. QED
    BY <1>4, <1>5, <1>6, <1>7, <1>8

-----------------------------------------------------------------------------
\* The invariant holds at all times.
THEOREM Inductive == Spec => []IInv
  <1>1. IInv /\ [Next]_vars => IInv'
    <2>. SUFFICES ASSUME IInv, [Next]_vars PROVE IInv'
      OBVIOUS
    <2>1. ASSUME NEW s \in Streams, Output(s) \/ ShellWants(s) \/ ShellWrites(s) PROVE IInv'
      BY <2>1, ReadOutputStep, OutputWaits, SendStep, ShellWantsStep, ShellWritesStep DEF Output
    <2>2. CASE UNCHANGED vars
      <3>1. UNCHANGED <<client, inbox, typed, shown, conn, shell, stdin, written, pipe, input,
                        output, hand, handler, wire>>
        BY <2>2 DEF vars, user, pipes, reader
      <3>2. Screen'
        BY <3>1 DEF IInv, Screen, IsBeginning
      <3>. QED
        BY <3>1, <3>2 DEF IInv, TypeOK, WritesInBounds, HandsFree, Order, Accounted
    <2>3. CASE Handle
      BY <2>3, StartStep, EndStep DEF Handle
    <2>4. CASE Shell
      BY <2>1, <2>4, ShellStep DEF Shell
    <2>. QED
      BY <2>1, <2>2, <2>3, <2>4, ClientStep, InputStep, ShellStep DEF Next
  <1>. QED
    BY <1>1, InitIInv, PTL DEF Spec

\* Every variable keeps its type; the pipe to the shell holds no more than it can.
THEOREM TypeCorrect == Spec => []TypeOK
  BY Inductive, PTL DEF IInv

\* Whatever was sent is on the screen in order and without a gap, and until
\* cmd.Wait returns nothing is lost to a client that is there, as long as no two
\* writes to the connection overlapped badly.
THEOREM OutputCorrect == Spec => []OutputKept
  <1>1. IInv => OutputKept
    BY DEF IInv, Accounted, Screen, IsBeginning, OutputKept
  <1>. QED
    BY <1>1, Inductive, PTL

-----------------------------------------------------------------------------
\* Nobody waits for somebody who waits

\* The goroutines run from cmd.Start on; each ends for a reason; the handler
\* comes to its end only after the shell.
Phases ==
  /\ stdin.open \in BOOLEAN
  /\ shell = "none" => /\ input = "none" /\ handler \in {"starting", "returned"}
                       /\ \A s \in Streams : output[s] = "none"
  /\ shell # "none" => /\ input # "none" /\ handler # "starting"
                       /\ \A s \in Streams : output[s] # "none"
  /\ handler \in {"exited", "writing"} => shell = "exited"
  /\ handler = "returned" => shell \in {"none", "exited"} /\ ~conn
  /\ input = "done" => ~stdin.open
  /\ \A s \in Streams : output[s] = "done" => handler # "waiting" \/ shell = "exited"

LEMMA PhasesInvariant == Spec => []Phases
  <1>1. Init => Phases
    BY DEF Init, Phases
  <1>2. IInv /\ Phases /\ [Next]_vars => Phases'
    <2>. SUFFICES ASSUME IInv, Phases, [Next]_vars PROVE Phases'
      OBVIOUS
    <2>. USE DEF Phases
    <2>1. CASE Type \/ Leave
      BY <2>1 DEF Type, Leave, pipes, reader
    <2>2. CASE Handle
      <3>1. CASE Start
        BY <3>1 DEF Start, StartFails, StartShell, user, pipes, reader
      <3>2. CASE Wait \/ Notice \/ Return
        <4>1. /\ handler' = "returned" => ~conn'
              /\ handler' \in {"exited", "writing", "returned"}
              /\ stdin'.open \in {stdin.open, FALSE}
              /\ shell = "exited" /\ UNCHANGED <<shell, input, output>>
          BY <3>2 DEF Wait, Notice, HandlerPanics, Return, IInv, TypeOK, user, pipes, reader
        <4>. QED
          BY <4>1
      <3>. QED
        BY <2>2, <3>1, <3>2 DEF Handle
    <2>3. CASE Input
      <3>1. /\ input # "none" /\ input' \in {"reading", "writing", "closing", "done"}
            /\ input # "done"
            /\ UNCHANGED <<shell, handler, output, conn>>
        BY <2>3 DEF Input, ReadMessage, ReadMessageFails, WriteStdin, CloseStdin, user, pipes,
                    reader
      <3>2. /\ stdin'.open \in {stdin.open, FALSE}
            /\ input' = "done" => ~stdin'.open
        BY <2>3 DEF Input, ReadMessage, ReadMessageFails, WriteStdin, CloseStdin, IInv, TypeOK,
                    pipes
      <3>3. shell # "none"
        BY <3>1
      <3>. QED
        BY <3>1, <3>2, <3>3
    <2>4. CASE ShellReads \/ ShellEnds \/ ShellExits
      <3>1. shell \notin {"none", "exited"} /\ shell' \in {shell, "exited"}
        BY <2>4, TerminalAssumption DEF ShellReads, ShellEnds, ShellExits
      <3>2. /\ UNCHANGED <<input, handler, output, conn>>
            /\ stdin'.open = stdin.open
        BY <2>4 DEF ShellReads, ShellEnds, ShellExits, user, pipes, reader, IInv, TypeOK
      <3>. QED
        BY <3>1, <3>2
    <2>5. ASSUME NEW s \in Streams, ShellWrites(s) \/ ShellWants(s) PROVE Phases'
      <3>1. /\ shell \notin {"none", "exited"} /\ shell' \notin {"none", "exited"}
            /\ UNCHANGED <<input, handler, output, conn, stdin>>
        BY <2>5, TerminalAssumption DEF ShellWrites, ShellWants, user, pipes, reader
      <3>. QED
        BY <3>1
    <2>6. ASSUME NEW s \in Streams, Output(s) PROVE Phases'
      <3>1. /\ UNCHANGED <<shell, input, stdin>>
            /\ output[s] # "none" /\ output \in [Streams -> {"none", "reading", "read",
               "writing", "done"}]
        BY <2>6 DEF Output, ReadOutput, ReadOutputEnds, BeginSend, Send, IInv, TypeOK, user, pipes
      <3>2. CASE ReadOutput(s) \/ Send(s)
        BY <3>1, <3>2 DEF ReadOutput, Send
      <3>3. CASE ReadOutputEnds(s)
        BY <3>1, <3>3 DEF ReadOutputEnds
      <3>4. CASE BeginSend(s)
        BY <3>1, <3>4 DEF BeginSend, HandlerPanics
      <3>. QED
        BY <2>6, <3>2, <3>3, <3>4 DEF Output
    <2>7. CASE UNCHANGED vars
      BY <2>7 DEF vars, user, pipes, reader
    <2>. QED
      BY <2>1, <2>2, <2>3, <2>4, <2>5, <2>6, <2>7 DEF Next, Shell
  <1>. QED
    BY <1>1, <1>2, Inductive, PTL DEF Spec

HandlerReady ==
  handler \in {"starting", "exited", "writing"} \/ (handler = "waiting" /\ shell = "exited")

\* A shell that is not at a full pipe and has input, or the end of it, to read.
ShellReady ==
  \/ shell = "running" /\ (stdin.held > 0 \/ ~stdin.open)
  \/ \E s \in Streams : shell = s /\ Len(pipe[s]) < Cap

InputReady ==
  \/ input = "reading" /\ (client = "left" \/ ~conn)
  \/ input = "writing" /\ (shell = "exited" \/ stdin.held < Cap)
  \/ input = "closing"

OutputReady(s) ==
  \/ output[s] \in {"read", "writing"}
  \/ output[s] = "reading" /\ (handler # "waiting" \/ pipe[s] # <<>> \/ shell = "exited")

SomebodyReady == HandlerReady \/ ShellReady \/ InputReady \/ \E s \in Streams : OutputReady(s)

\* Once the client has left or the shell has exited there is, until everything
\* has ended, always somebody that can go on: no pipe, however small, closes a
\* circle of shell, goroutines and handler that wait for each other.
THEOREM NeverStuck ==
  Spec => [](client = "left" \/ shell = "exited" => Ended \/ SomebodyReady)
  <1>1. IInv /\ Phases => (client = "left" \/ shell = "exited" => Ended \/ SomebodyReady)
    <2>. SUFFICES ASSUME IInv, Phases, client = "left" \/ shell = "exited", ~SomebodyReady
         PROVE  Ended
      OBVIOUS
    <2>1. ~HandlerReady /\ ~ShellReady /\ ~InputReady /\ \A s \in Streams : ~OutputReady(s)
      BY DEF SomebodyReady
    <2>2. handler = "returned" \/ (handler = "waiting" /\ shell # "exited" /\ client = "left")
      BY <2>1 DEF HandlerReady, IInv, TypeOK
    <2>3. CASE handler = "returned"
      <3>1. shell \in {"none", "exited"} /\ ~conn
        BY <2>3 DEF Phases
      <3>2. input \in {"none", "done"}
        BY <2>1, <3>1 DEF InputReady, IInv, TypeOK, Phases
      <3>3. \A s \in Streams : output[s] \in {"none", "done"}
        BY <2>1, <2>3 DEF OutputReady, IInv, TypeOK
      <3>. QED
        BY <2>3, <3>1, <3>2, <3>3 DEF Ended
    <2>4. CASE handler = "waiting" /\ shell # "exited" /\ client = "left"
      <3>1. shell # "none"
        BY <2>4 DEF Phases
      <3>2. stdin.held \in Nat /\ Cap \in Nat \ {0}
        BY TerminalAssumption DEF IInv, TypeOK
      <3>3. shell # "running"
        <4>1. input = "writing" \/ input = "done"
          BY <2>1, <2>4, <3>1 DEF InputReady, IInv, TypeOK, Phases
        <4>. QED
          BY <2>1, <3>2, <4>1 DEF InputReady, ShellReady, Phases
      <3>4. PICK s \in Streams : shell = s
        BY <2>4, <3>1, <3>3 DEF IInv, TypeOK
      <3>5. pipe[s] # <<>>
        <4>1. ~(Len(pipe[s]) < Cap) /\ Len(<<>>) = 0
          BY <2>1, <3>4 DEF ShellReady
        <4>. QED
          BY <3>2, <4>1
      <3>6. output[s] \in {"none", "done"}
        BY <2>1, <3>5 DEF OutputReady, IInv, TypeOK
      <3>. QED
        BY <2>4, <3>1, <3>6 DEF Phases
    <2>. QED
      BY <2>2, <2>3, <2>4
  <1>. QED
    BY <1>1, Inductive, PhasesInvariant, PTL
=============================================================================
