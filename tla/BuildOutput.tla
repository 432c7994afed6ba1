---------------------------- MODULE BuildOutput -----------------------------
(***************************************************************************)
(* The output of a build: nixpacks writes lines to two pipes, a goroutine  *)
(* per pipe scans them into the log, and the handler waits for nixpacks.   *)
(* cmd.Wait closes the pipes when nixpacks has ended, without waiting for  *)
(* the goroutines.                                                         *)
(*                                                                         *)
(* The n-th line of a stream is the number n.  Length is abstracted to     *)
(* what matters to bufio.Scanner: a line may be longer than its buffer.    *)
(***************************************************************************)
EXTENDS Integers, Sequences

CONSTANTS
  Capacity,   \* bound: the lines a pipe holds
  MaxLines    \* bound: the lines nixpacks writes to a stream

ASSUME BuildOutputAssumption == Capacity \in Nat \ {0} /\ MaxLines \in Nat

Streams == {"stdout", "stderr"}

VARIABLES
  long,      \* per stream: the number of its overlong line, 0 if there is none
  child,     \* nixpacks: thinking, about to write to a stream, exited
  written,   \* lines it has written
  pipe,      \* lines in the pipe
  half,      \* the scanner has read the beginning of the first of them
  buf,       \* the whole lines in the scanner's buffer
  scanning,  \* the streams whose goroutine has not ended
  open,      \* the streams whose pipe the handler has not closed
  returned,  \* the handler is past cmd.Wait
  log,       \* per stream: the whole lines written to the deployment's log
  torn       \* per stream: the line of which only a beginning was, or 0

out     == <<pipe, half, buf>>
handler == <<open, returned>>
logged  == <<log, torn>>
vars    == <<long, child, written, out, scanning, handler, logged>>

Init ==
  /\ long \in [Streams -> 0 .. MaxLines]
  /\ child = "thinking"
  /\ written = [s \in Streams |-> 0]
  /\ pipe = [s \in Streams |-> << >>]
  /\ half = [s \in Streams |-> FALSE]
  /\ buf = [s \in Streams |-> << >>]
  /\ scanning = Streams
  /\ open = Streams
  /\ returned = FALSE
  /\ log = [s \in Streams |-> << >>]
  /\ torn = [s \in Streams |-> 0]

-----------------------------------------------------------------------------
\* nixpacks.  It exits, with whatever code, when it has nothing to write.

Think(s) ==
  /\ child = "thinking" /\ written[s] < MaxLines
  /\ child' = s
  /\ UNCHANGED <<long, written, out, scanning, handler, logged>>

\* Mutant: the pipe takes any number of lines.
WriteUnbounded(s) ==
  /\ child = s
  /\ written' = [written EXCEPT ![s] = @ + 1]
  /\ pipe' = [pipe EXCEPT ![s] = Append(@, written[s] + 1)]
  /\ child' = "thinking"
  /\ UNCHANGED <<long, half, buf, scanning, handler, logged>>

\* The write blocks while the pipe is full.
Write(s) ==
  /\ child = s /\ Len(pipe[s]) < Capacity
  /\ written' = [written EXCEPT ![s] = @ + 1]
  /\ pipe' = [pipe EXCEPT ![s] = Append(@, written[s] + 1)]
  /\ child' = "thinking"
  /\ UNCHANGED <<long, half, buf, scanning, handler, logged>>

ChildExits ==
  /\ child = "thinking"
  /\ child' = "exited"
  /\ UNCHANGED <<long, written, out, scanning, handler, logged>>

-----------------------------------------------------------------------------
\* The two goroutines

\* Mutant: one goroutine drains stdout and then stderr.
ReadableInTurn(s) == s \in scanning /\ s \in open /\ buf[s] = << >>
                     /\ (s = "stderr" => "stdout" \notin scanning)

\* The scanner needs more: it has no whole line left.
Readable(s) == s \in scanning /\ s \in open /\ buf[s] = << >>

\* Mutant: both scanners were made on stdoutPipe.
SourceStdout(s) == "stdout"

\* The pipe a goroutine's scanner was made on.
Source(s) == s

\* One Read: n lines, and perhaps (h) the beginning of the next.
Read(s) ==
  LET q == Source(s) IN
  /\ Readable(s)
  /\ \E n \in 0 .. Len(pipe[q]), h \in BOOLEAN :
       /\ \A i \in 1 .. n : pipe[q][i] # long[q]
       /\ h => n < Len(pipe[q])
       /\ n > 0 \/ (h /\ ~half[q])
       /\ buf' = [buf EXCEPT ![s] = SubSeq(pipe[q], 1, n)]
       /\ pipe' = [pipe EXCEPT ![q] = SubSeq(@, n + 1, Len(@))]
       /\ half' = [half EXCEPT ![q] = h]
  /\ UNCHANGED <<long, child, written, scanning, handler, logged>>

\* writeLog of the next line.
LogLine(s) ==
  /\ buf[s] # << >>
  /\ log' = [log EXCEPT ![s] = Append(@, Head(buf[s]))]
  /\ buf' = [buf EXCEPT ![s] = Tail(@)]
  /\ UNCHANGED <<long, child, written, pipe, half, scanning, handler, torn>>

Overlong(s) == pipe[s] # << >> /\ Head(pipe[s]) = long[s]

\* The buffer is full without a line end: Scan returns false, and nobody
\* reads the pipe any more.
TooLong(s) ==
  /\ Readable(s) /\ Overlong(s)
  /\ scanning' = scanning \ {s}
  /\ UNCHANGED <<long, child, written, out, handler, logged>>

EndOfFile(s) ==
  /\ Readable(s) /\ pipe[s] = << >> /\ child = "exited"
  /\ scanning' = scanning \ {s}
  /\ UNCHANGED <<long, child, written, out, handler, logged>>

\* The pipe was closed: the scanner hands out what it has of a line, and ends.
ReadClosed(s) ==
  /\ s \in scanning \ open /\ buf[s] = << >>
  /\ torn' = [torn EXCEPT ![s] = IF half[s] THEN Head(pipe[s]) ELSE 0]
  /\ half' = [half EXCEPT ![s] = FALSE]
  /\ scanning' = scanning \ {s}
  /\ UNCHANGED <<long, child, written, pipe, buf, handler, log>>

-----------------------------------------------------------------------------
\* cmd.Wait in the handler: it closes the pipes one after the other ...

Close(s) ==
  /\ child = "exited" /\ s \in open
  /\ open' = open \ {s}
  /\ UNCHANGED <<long, child, written, out, scanning, returned, logged>>

\* ... and the handler goes on: it logs the outcome.
Return ==
  /\ child = "exited" /\ open = {} /\ ~returned
  /\ returned' = TRUE
  /\ UNCHANGED <<long, child, written, out, scanning, open, logged>>

-----------------------------------------------------------------------------
Child   == ChildExits \/ \E s \in Streams : Think(s) \/ Write(s)
Scan(s) == Read(s) \/ LogLine(s) \/ TooLong(s) \/ EndOfFile(s) \/ ReadClosed(s)
Wait    == Return \/ \E s \in Streams : Close(s)

Next == Child \/ (\E s \in Streams : Scan(s)) \/ Wait

Spec == Init /\ [][Next]_vars

\* nixpacks goes on while its writes do, and Go runs the goroutines.
FairSpec ==
  /\ Spec
  /\ WF_vars(Child) /\ WF_vars(Wait)
  /\ \A s \in Streams : WF_vars(Scan(s))

-----------------------------------------------------------------------------
\* Properties

TypeOK ==
  /\ long \in [Streams -> 0 .. MaxLines]
  /\ child \in {"thinking", "exited"} \cup Streams
  /\ written \in [Streams -> 0 .. MaxLines]
  /\ pipe \in [Streams -> Seq(1 .. MaxLines)]
  /\ \A s \in Streams : Len(pipe[s]) <= Capacity
  /\ half \in [Streams -> BOOLEAN]
  /\ buf \in [Streams -> Seq(1 .. MaxLines)]
  /\ scanning \subseteq Streams /\ open \subseteq Streams
  /\ returned \in BOOLEAN
  /\ log \in [Streams -> Seq(1 .. MaxLines)]
  /\ torn \in [Streams -> 0 .. MaxLines]

\* The log has the lines of each stream in the order nixpacks wrote them and
\* without a gap; only the last one may be a fragment, of a line that Wait cut
\* off.  Lines are lost only in a pipe that Wait has closed, or behind one that
\* is too long for the scanner.  That is less than the architecture document says,
\* see EveryLineLogged.
OutputAccounted ==
  \A s \in Streams :
    /\ log[s] \o buf[s] \o pipe[s] = [i \in 1 .. written[s] |-> i]
    /\ torn[s] # 0 => /\ s \notin open \cup scanning
                      /\ buf[s] = << >> /\ pipe[s] # << >> /\ torn[s] = Head(pipe[s])
    /\ s \notin scanning /\ pipe[s] # << >> => s \notin open \/ Overlong(s)

\* Once the build is over every line nixpacks wrote is in the log, as the
\* architecture document says of this code (ZOD_CLOUD_ARCHITECTURE.md:63, "For
\* every line, it calls `writeLog()`").  The code does not keep it: cmd.Wait closes
\* a pipe with lines in it, and nobody reads on behind an overlong line.  TLC shows
\* that when this stands in place of the invariants of BuildOutput.cfg.
EveryLineLogged ==
  returned /\ scanning = {} => \A s \in Streams : log[s] = [i \in 1 .. written[s] |-> i]

\* However full the pipes get, nixpacks can go on, the handler returns and both
\* goroutines end, unless a line was too long for a scanner: then nobody reads
\* that pipe, nixpacks may block on it, and the build may never end.
BuildReturns ==
  <>(\/ returned /\ scanning = {}
     \/ \E s \in Streams : s \notin scanning /\ s \in open /\ Overlong(s))
=============================================================================
