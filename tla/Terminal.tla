------------------------------ MODULE Terminal ------------------------------
(***************************************************************************)
(* The web terminal of cmd/standalone/main.go: one WebSocket connection,   *)
(* `docker exec -i <id> /bin/sh`, a goroutine that carries what the client *)
(* types to the shell, one goroutine per output stream that carries what   *)
(* the shell writes to the client, and the handler, which waits for the    *)
(* shell.  Shell and goroutines are coupled by pipes that hold little, so  *)
(* each can hold up the others; the client may leave at any moment.        *)
(***************************************************************************)
EXTENDS Integers, Sequences

CONSTANTS
  Streams,  \* stdout and stderr
  Cap,      \* what a pipe holds
  MaxOut,   \* bound: what the shell writes to each stream
  MaxKeys   \* bound: messages the client types

ASSUME TerminalAssumption ==
  /\ Streams \cap {"none", "running", "exited", "handler"} = {}
  /\ {Cap, MaxKeys} \subseteq Nat \ {0}
  /\ MaxOut \in [Streams -> Nat]

VARIABLES
  client,   \* "here" until it leaves
  inbox,    \* typed messages not read yet
  typed,    \* how many it has typed
  shown,    \* what it was sent, per stream
  conn,     \* the connection is open on the server's side
  shell,    \* "none", "running", about to write a stream, or "exited"
  stdin,    \* messages in the pipe to the shell, and whether it is open
  written,  \* how much the shell wrote to a stream
  pipe,     \* what is in the pipe of a stream
  input,    \* where the goroutine that reads the connection stands
  output,   \* where the goroutine of a stream stands
  hand,     \* what it has read and not yet sent, if anything
  handler,  \* where the handler stands
  wire      \* what became of overlapping writes to the connection

user   == <<client, inbox, typed, shown>>
pipes  == <<stdin, written, pipe>>
reader == <<output, hand>>
vars   == <<user, conn, shell, pipes, input, reader, handler, wire>>

Init ==
  /\ client = "here" /\ inbox = 0 /\ typed = 0
  /\ shown = [s \in Streams |-> <<>>]
  /\ conn = TRUE
  /\ shell = "none"
  /\ stdin = [held |-> 0, open |-> TRUE]
  /\ written = [s \in Streams |-> 0]
  /\ pipe = [s \in Streams |-> <<>>]
  /\ input = "none"
  /\ output = [s \in Streams |-> "none"]
  /\ hand = [s \in Streams |-> <<>>]
  /\ handler = "starting"
  /\ wire = "sound"

-----------------------------------------------------------------------------
\* The client

Type ==
  /\ client = "here" /\ typed < MaxKeys
  /\ typed' = typed + 1
  /\ inbox' = inbox + 1
  /\ UNCHANGED <<client, shown, conn, shell, pipes, input, reader, handler, wire>>

Leave ==
  /\ client = "here"
  /\ client' = "left"
  /\ UNCHANGED <<inbox, typed, shown, conn, shell, pipes, input, reader, handler, wire>>

-----------------------------------------------------------------------------
\* The shell, and docker exec around it

ShellReads ==
  /\ shell = "running" /\ stdin.held > 0
  /\ stdin' = [stdin EXCEPT !.held = @ - 1]
  /\ UNCHANGED <<user, conn, shell, written, pipe, input, reader, handler, wire>>

\* A command writes, and does nothing else until the pipe has room.
ShellWants(s) ==
  /\ shell = "running" /\ written[s] < MaxOut[s]
  /\ shell' = s
  /\ UNCHANGED <<user, conn, pipes, input, reader, handler, wire>>

ShellWrites(s) ==
  /\ shell = s /\ Len(pipe[s]) < Cap
  /\ written' = [written EXCEPT ![s] = @ + 1]
  /\ pipe' = [pipe EXCEPT ![s] = Append(@, written[s] + 1)]
  /\ shell' = "running"
  /\ UNCHANGED <<user, conn, stdin, input, reader, handler, wire>>

\* The shell ends at the end of its input.
ShellEnds ==
  /\ shell = "running" /\ stdin.held = 0 /\ ~stdin.open
  /\ shell' = "exited"
  /\ UNCHANGED <<user, conn, pipes, input, reader, handler, wire>>

\* The client typed exit, or the container was removed.
ShellExits ==
  /\ shell \in {"running"} \cup Streams
  /\ shell' = "exited"
  /\ UNCHANGED <<user, conn, pipes, input, reader, handler, wire>>

-----------------------------------------------------------------------------
\* Writing to the connection.  gorilla/websocket supports one writer.  A write
\* that begins while another is under way may go well, find its bytes mixed up
\* with the other's in the buffer they share, or be noticed: then one of the two
\* panics.  The panic of a goroutine ends the server.

Writers == {s \in Streams : output[s] = "writing"}
             \cup (IF handler = "writing" THEN {"handler"} ELSE {})

BeginWrite == \/ wire' = wire
              \/ Writers # {} /\ wire' \in {"garbled", "panicked"}

\* net/http recovers the panic of the handler, whose deferred Close still runs.
HandlerPanics ==
  /\ handler' = "returned"
  /\ conn' = FALSE
  /\ wire' \in {wire, "garbled"}

-----------------------------------------------------------------------------
\* The handler

\* cmd.Start fails, the client is told, and the connection is closed.
StartFails ==
  /\ handler = "starting"
  /\ handler' = "returned"
  /\ conn' = FALSE
  /\ UNCHANGED <<user, shell, pipes, input, reader, wire>>

StartShell ==
  /\ handler = "starting"
  /\ shell' = "running"
  /\ input' = "reading"
  /\ output' = [s \in Streams |-> "reading"]
  /\ handler' = "waiting"
  /\ UNCHANGED <<user, conn, pipes, hand, wire>>

\* cmd.Wait returns once the shell has exited, and closes the server's ends of
\* all pipes, whatever is still in them.
Wait ==
  /\ handler = "waiting" /\ shell = "exited"
  /\ stdin' = [stdin EXCEPT !.open = FALSE]
  /\ handler' = "exited"
  /\ UNCHANGED <<user, conn, shell, written, pipe, input, reader, wire>>

\* "[Process Exited]" goes to the connection like any output.
Notice ==
  /\ handler = "exited"
  /\ \/ BeginWrite /\ handler' = "writing" /\ conn' = conn
     \/ Writers # {} /\ HandlerPanics
  /\ UNCHANGED <<user, shell, pipes, input, reader>>

\* Mutant: the connection is left to the garbage collector.
ReturnOpen ==
  /\ handler = "writing"
  /\ handler' = "returned"
  /\ UNCHANGED <<user, conn, shell, pipes, input, reader, wire>>

\* The deferred Close.
Return ==
  /\ handler = "writing"
  /\ handler' = "returned"
  /\ conn' = FALSE
  /\ UNCHANGED <<user, shell, pipes, input, reader, wire>>

-----------------------------------------------------------------------------
\* The goroutine from the connection to stdin

ReadMessage ==
  /\ input = "reading" /\ conn /\ inbox > 0
  /\ inbox' = inbox - 1
  /\ input' = "writing"
  /\ UNCHANGED <<client, typed, shown, conn, shell, pipes, reader, handler, wire>>

ReadMessageFails ==
  /\ input = "reading"
  /\ client = "left" \/ ~conn
  /\ input' = "closing"
  /\ UNCHANGED <<user, conn, shell, pipes, reader, handler, wire>>

\* Mutant: what is typed is queued without a limit.
WriteStdinQueued ==
  /\ input = "writing"
  /\ \/ /\ shell # "exited"
        /\ stdin' = [stdin EXCEPT !.held = @ + 1]
     \/ shell = "exited" /\ stdin' = stdin
  /\ input' = "reading"
  /\ UNCHANGED <<user, conn, shell, written, pipe, reader, handler, wire>>

\* stdin.Write blocks on a full pipe; its error, once the shell has exited, is
\* ignored.
WriteStdin ==
  /\ input = "writing"
  /\ \/ /\ shell # "exited" /\ stdin.held < Cap
        /\ stdin' = [stdin EXCEPT !.held = @ + 1]
     \/ shell = "exited" /\ stdin' = stdin
  /\ input' = "reading"
  /\ UNCHANGED <<user, conn, shell, written, pipe, reader, handler, wire>>

CloseStdin ==
  /\ input = "closing"
  /\ stdin' = [stdin EXCEPT !.open = FALSE]
  /\ input' = "done"
  /\ UNCHANGED <<user, conn, shell, written, pipe, reader, handler, wire>>

-----------------------------------------------------------------------------
\* The goroutines from stdout and stderr to the connection

\* Mutant: the two goroutines share one buffer.
ReadOutputShared(s) ==
  /\ output[s] = "reading" /\ handler = "waiting" /\ pipe[s] # <<>>
  /\ hand' = [t \in Streams |-> IF t = s THEN <<Head(pipe[s])>> ELSE <<>>]
  /\ pipe' = [pipe EXCEPT ![s] = Tail(@)]
  /\ output' = [output EXCEPT ![s] = "read"]
  /\ UNCHANGED <<user, conn, shell, stdin, written, input, handler, wire>>

ReadOutput(s) ==
  /\ output[s] = "reading" /\ handler = "waiting" /\ pipe[s] # <<>>
  /\ hand' = [hand EXCEPT ![s] = <<Head(pipe[s])>>]
  /\ pipe' = [pipe EXCEPT ![s] = Tail(@)]
  /\ output' = [output EXCEPT ![s] = "read"]
  /\ UNCHANGED <<user, conn, shell, stdin, written, input, handler, wire>>

\* The end of the stream, or a pipe that Wait has closed with output in it.
ReadOutputEnds(s) ==
  /\ output[s] = "reading"
  /\ handler # "waiting" \/ (shell = "exited" /\ pipe[s] = <<>>)
  /\ output' = [output EXCEPT ![s] = "done"]
  /\ UNCHANGED <<user, conn, shell, pipes, input, hand, handler, wire>>

BeginSend(s) ==
  /\ output[s] = "read"
  /\ \/ BeginWrite /\ UNCHANGED <<conn, handler>>
     \/ handler = "writing" /\ HandlerPanics
  /\ output' = [output EXCEPT ![s] = "writing"]
  /\ UNCHANGED <<user, shell, pipes, input, hand>>

Delivered(s) == IF client = "here" /\ conn THEN hand[s] ELSE <<>>

\* Mutant: the goroutine ends when the client cannot be written to.
SendOrQuit(s) ==
  /\ output[s] = "writing"
  /\ shown' = [shown EXCEPT ![s] = @ \o Delivered(s)]
  /\ hand' = [hand EXCEPT ![s] = <<>>]
  /\ output' = [output EXCEPT ![s] = IF client = "here" THEN "reading" ELSE "done"]
  /\ UNCHANGED <<client, inbox, typed, conn, shell, pipes, input, handler, wire>>

\* The error of WriteMessage is ignored, so the pipe is drained for nobody.
Send(s) ==
  /\ output[s] = "writing"
  /\ shown' = [shown EXCEPT ![s] = @ \o Delivered(s)]
  /\ hand' = [hand EXCEPT ![s] = <<>>]
  /\ output' = [output EXCEPT ![s] = "reading"]
  /\ UNCHANGED <<client, inbox, typed, conn, shell, pipes, input, handler, wire>>

-----------------------------------------------------------------------------
Alive     == wire # "panicked"
Start     == StartFails \/ StartShell
Handle    == Start \/ Wait \/ Notice \/ Return
Input     == ReadMessage \/ ReadMessageFails \/ WriteStdin \/ CloseStdin
Output(s) == ReadOutput(s) \/ ReadOutputEnds(s) \/ BeginSend(s) \/ Send(s)
Shell     == ShellReads \/ ShellEnds \/ \E s \in Streams : ShellWrites(s)

Next ==
  /\ Alive
  /\ \/ Type \/ Leave \/ Handle \/ Input \/ Shell \/ ShellExits
     \/ \E s \in Streams : Output(s) \/ ShellWants(s)

Spec == Init /\ [][Next]_vars

\* Goroutines run, a client that is there takes what it is sent, and the shell
\* goes on: a command that blocked in a write finishes it, and sh reads its
\* input to the end.  It need neither write nor exit of its own accord.
FairSpec ==
  /\ Spec
  /\ WF_vars(Alive /\ Handle) /\ WF_vars(Alive /\ Input) /\ WF_vars(Alive /\ Shell)
  /\ \A s \in Streams : WF_vars(Alive /\ Output(s))

-----------------------------------------------------------------------------
Chunks == UNION {1..MaxOut[s] : s \in Streams}

TypeOK ==
  /\ client \in {"here", "left"}
  /\ typed \in 0..MaxKeys /\ inbox \in 0..typed
  /\ shown \in [Streams -> Seq(Chunks)]
  /\ conn \in BOOLEAN
  /\ wire \in {"sound", "garbled", "panicked"}
  /\ shell \in {"none", "running", "exited"} \cup Streams
  /\ stdin \in [held : 0..Cap, open : BOOLEAN]
  /\ \A s \in Streams : written[s] \in 0..MaxOut[s]
  /\ pipe \in [Streams -> Seq(Chunks)]
  /\ input \in {"none", "reading", "writing", "closing", "done"}
  /\ output \in [Streams -> {"none", "reading", "read", "writing", "done"}]
  /\ hand \in [Streams -> {<<>>} \cup {<<c>> : c \in Chunks}]
  /\ handler \in {"starting", "waiting", "exited", "writing", "returned"}

Numbers(n) == [i \in 1..n |-> i]

\* Unless two writes have overlapped badly, the screen shows, per stream, a
\* beginning of what the shell wrote: no chunk is missing in between, doubled or
\* out of its place, also of the output that is sent after the exit.  Until
\* cmd.Wait returns nothing at all is lost to a client that is there: what the
\* screen does not show is in the hands of the goroutine or in the pipe.
OutputKept ==
  wire = "sound" =>
    \A s \in Streams :
      /\ \E n \in 0..written[s] : shown[s] = Numbers(n)
      /\ handler = "waiting" /\ client = "here" =>
           shown[s] \o hand[s] \o pipe[s] = Numbers(written[s])

Ended ==
  /\ handler = "returned" /\ ~conn
  /\ input \in {"none", "done"}
  /\ \A s \in Streams : output[s] \in {"none", "done"}

\* A client that leaves leaves nothing behind, in the middle of output or input
\* or not: the shell is brought to its end and all goroutines end.  It takes
\* that they keep draining a shell that is blocked on a full pipe, and that the
\* command the shell runs ends: nobody kills one that does not (tail -f).
LeavingEnds == client = "left" ~> Ended \/ ~Alive

\* The end of the shell ends the terminal, although the client stays and a
\* goroutine waits for what it types next.
ExitEnds == shell = "exited" ~> Ended \/ ~Alive
=============================================================================
