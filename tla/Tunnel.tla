------------------------------- MODULE Tunnel -------------------------------
(***************************************************************************)
(* adapters/tunnel/cloudflare.go: StartTunnel, called by deploy handlers   *)
(* that run at the same time and share the downloaded cloudflared binary.  *)
(*                                                                         *)
(* A call makes sure of the binary, starts cloudflared, leaves its stderr  *)
(* to a goroutine that looks for the URL, and waits for the first of the   *)
(* URL, an error and 45 seconds.  Child process and goroutine outlive the  *)
(* call, so the two channels between goroutine and call must never block.  *)
(***************************************************************************)
EXTENDS Integers, Sequences

CONSTANTS
  Calls,   \* calls of StartTunnel
  Parts    \* the writes io.Copy needs for the whole binary

ASSUME TunnelAssumption == Parts \in Nat \ {0}

VARIABLES
  file,      \* the parts the binary's file holds, Missing if there is none
  stage,     \* where a call stands
  copied,    \* how many parts its download has written
  process,   \* its cloudflared
  scanner,   \* the goroutine that reads cloudflared's stderr
  urlFound,  \* the goroutine's urlFound
  urlChan,   \* the two channels, of capacity 1
  errChan,
  result     \* what the call returned: the URL, the error of the timeout, another

download == <<file, copied>>
reader   == <<scanner, urlFound, urlChan, errChan>>
vars     == <<download, stage, process, reader, result>>

Whole   == 1..Parts
Missing == {0}

Init ==
  /\ file = Missing
  /\ stage = [c \in Calls |-> "idle"]
  /\ copied = [c \in Calls |-> 0]
  /\ process = [c \in Calls |-> "none"]
  /\ scanner = [c \in Calls |-> "none"]
  /\ urlFound = [c \in Calls |-> FALSE]
  /\ urlChan = [c \in Calls |-> <<>>]
  /\ errChan = [c \in Calls |-> <<>>]
  /\ result = [c \in Calls |-> "none"]

Goto(c, s) == stage' = [stage EXCEPT ![c] = s]

Return(c, r) ==
  /\ Goto(c, "returned")
  /\ result' = [result EXCEPT ![c] = r]

-----------------------------------------------------------------------------
\* EnsureBinary

\* Any file of that name will do, also one another call is still writing or
\* has given up on.
Look(c) ==
  /\ stage[c] = "idle"
  /\ Goto(c, IF file = Missing THEN "missing" ELSE "ready")
  /\ UNCHANGED <<download, process, reader, result>>

\* The directory, the request or the file cannot be made.
FetchFails(c) ==
  /\ stage[c] = "missing"
  /\ Return(c, "error")
  /\ UNCHANGED <<download, process, reader>>

\* os.Create empties a file that is there by now; it fails if the file is
\* being executed.
Create(c) ==
  /\ stage[c] = "missing"
  /\ \A e \in Calls : process[e] # "up"
  /\ file' = {}
  /\ copied' = [copied EXCEPT ![c] = 0]
  /\ Goto(c, "copying")
  /\ UNCHANGED <<process, reader, result>>

\* Each download writes at its own place in the file.
Copy(c) ==
  /\ stage[c] = "copying"
  /\ file' = file \cup {copied[c] + 1}
  /\ copied' = [copied EXCEPT ![c] = @ + 1]
  /\ Goto(c, IF copied[c] + 1 = Parts THEN "ready" ELSE "copying")
  /\ UNCHANGED <<process, reader, result>>

\* Mutant: the error of io.Copy is not looked at.
CopyFailsUnchecked(c) ==
  /\ stage[c] = "copying"
  /\ Goto(c, "ready")
  /\ UNCHANGED <<download, process, reader, result>>

\* The connection breaks; what was written stays.
CopyFails(c) ==
  /\ stage[c] = "copying"
  /\ Return(c, "error")
  /\ UNCHANGED <<download, process, reader>>

-----------------------------------------------------------------------------
\* Starting cloudflared, and waiting for it

StartFails(c) ==
  /\ stage[c] = "ready"
  /\ Return(c, "error")
  /\ UNCHANGED <<download, process, reader>>

\* Only a whole file that nobody writes can be executed.
StartProcess(c) ==
  /\ stage[c] = "ready"
  /\ file = Whole
  /\ \A e \in Calls : stage[e] # "copying"
  /\ process' = [process EXCEPT ![c] = "up"]
  /\ scanner' = [scanner EXCEPT ![c] = "scanning"]
  /\ Goto(c, "waiting")
  /\ UNCHANGED <<download, urlFound, urlChan, errChan, result>>

TakeURL(c) ==
  /\ stage[c] = "waiting"
  /\ urlChan[c] # <<>>
  /\ urlChan' = [urlChan EXCEPT ![c] = Tail(@)]
  /\ Return(c, "url")
  /\ UNCHANGED <<download, process, scanner, urlFound, errChan>>

TakeError(c) ==
  /\ stage[c] = "waiting"
  /\ errChan[c] # <<>>
  /\ errChan' = [errChan EXCEPT ![c] = Tail(@)]
  /\ Return(c, "error")
  /\ UNCHANGED <<download, process, scanner, urlFound, urlChan>>

\* Mutant: there is no timeout, only the channels end the wait.
TimeoutNever(c) == stage[c] = "never" /\ UNCHANGED vars

\* 45 seconds are over, and the call returns an error, perhaps with the URL in
\* its channel: select takes any case that is ready.  cloudflared is left running.
Timeout(c) ==
  /\ stage[c] = "waiting"
  /\ Return(c, "timeout")
  /\ UNCHANGED <<download, process, reader>>

-----------------------------------------------------------------------------
\* The goroutine that reads cloudflared's stderr

\* A send on a channel of capacity 1: the goroutine blocks for good when the
\* channel is full and nobody receives any more.
Room(q) == q = <<>>

\* Mutant: every line with a URL is sent.
ScanURLAgain(c) ==
  /\ scanner[c] = "scanning"
  /\ urlFound' = [urlFound EXCEPT ![c] = TRUE]
  /\ IF Room(urlChan[c])
     THEN urlChan' = [urlChan EXCEPT ![c] = Append(@, "url")] /\ scanner' = scanner
     ELSE scanner' = [scanner EXCEPT ![c] = "blocked"] /\ urlChan' = urlChan
  /\ UNCHANGED <<download, stage, process, errChan, result>>

\* A line with the tunnel's URL (not Cloudflare's own api or update host),
\* perhaps written by a cloudflared that has ended since.
ScanURL(c) ==
  /\ scanner[c] = "scanning"
  /\ ~urlFound[c]
  /\ urlFound' = [urlFound EXCEPT ![c] = TRUE]
  /\ IF Room(urlChan[c])
     THEN urlChan' = [urlChan EXCEPT ![c] = Append(@, "url")] /\ scanner' = scanner
     ELSE scanner' = [scanner EXCEPT ![c] = "blocked"] /\ urlChan' = urlChan
  /\ UNCHANGED <<download, stage, process, errChan, result>>

\* Mutant: the end of the output is an error even after the URL was found.
ScanEndsInError(c) ==
  /\ scanner[c] = "scanning"
  /\ IF Room(errChan[c])
     THEN errChan' = [errChan EXCEPT ![c] = Append(@, "error")]
     ELSE errChan' = errChan
  /\ scanner' = [scanner EXCEPT ![c] = "done"]
  /\ UNCHANGED <<download, stage, process, urlFound, urlChan, result>>

\* Output ends with the process, or a line is too long for the scanner.
ScanEnds(c) ==
  /\ scanner[c] = "scanning"
  /\ IF urlFound[c]
     THEN scanner' = [scanner EXCEPT ![c] = "done"] /\ errChan' = errChan
     ELSE IF Room(errChan[c])
     THEN /\ scanner' = [scanner EXCEPT ![c] = "done"]
          /\ errChan' = [errChan EXCEPT ![c] = Append(@, "error")]
     ELSE scanner' = [scanner EXCEPT ![c] = "blocked"] /\ errChan' = errChan
  /\ UNCHANGED <<download, stage, process, urlFound, urlChan, result>>

ProcessExits(c) ==
  /\ process[c] = "up"
  /\ process' = [process EXCEPT ![c] = "gone"]
  /\ UNCHANGED <<download, stage, reader, result>>
-----------------------------------------------------------------------------
Ensure(c)  == Look(c) \/ FetchFails(c) \/ Create(c) \/ Copy(c) \/ CopyFails(c)
Begin(c)   == StartFails(c) \/ StartProcess(c)
Answer(c)  == TakeURL(c) \/ TakeError(c) \/ Timeout(c)
Scanner(c) == ScanURL(c) \/ ScanEnds(c)

Next ==
  \E c \in Calls : Ensure(c) \/ Begin(c) \/ Answer(c) \/ Scanner(c) \/ ProcessExits(c)

Spec == Init /\ [][Next]_vars

\* The select of a call runs on, its timer included.  Nothing is assumed of
\* cloudflared, which need not write or end, nor of the download, which has
\* no timeout.
FairSpec == Spec /\ \A c \in Calls : WF_vars(Answer(c))

-----------------------------------------------------------------------------
TypeOK ==
  /\ file = Missing \/ file \subseteq Whole
  /\ stage \in [Calls -> {"idle", "missing", "copying", "ready", "waiting", "returned"}]
  /\ copied \in [Calls -> 0..Parts]
  /\ process \in [Calls -> {"none", "up", "gone"}]
  /\ scanner \in [Calls -> {"none", "scanning", "blocked", "done"}]
  /\ urlFound \in [Calls -> BOOLEAN]
  /\ urlChan \in [Calls -> {<<>>, <<"url">>}]
  /\ errChan \in [Calls -> {<<>>, <<"error">>}]
  /\ result \in [Calls -> {"none", "url", "error", "timeout"}]

\* The goroutine goes on draining cloudflared's stderr: it never blocks in a
\* send to a call that has returned, with a timeout say.  cloudflared would
\* stop on a full pipe, and with it a tunnel whose URL was handed out.
ScannerNeverBlocks == \A c \in Calls : scanner[c] # "blocked"

\* A URL that was found is lost to the timeout alone, which may win against it
\* in the select: it is returned, or it lies in the channel of a call that still
\* waits or that timed out.  That cloudflared's output ends is never reported as
\* an error in its place, in whichever order the three come.
UrlLostOnlyToTimeout ==
  \A c \in Calls : urlFound[c] =>
    \/ result[c] = "url"
    \/ urlChan[c] # <<>> /\ (stage[c] = "waiting" \/ result[c] = "timeout")

\* Downloads write over each other and truncate each other's file, and a call
\* takes any file for the binary.  All the same the file ends up whole, unless
\* some call was told of an error before the end of its download.
BinaryIsWhole ==
  (\A c \in Calls : stage[c] # "copying" /\ (result[c] = "error" => copied[c] = Parts))
    => file \in {Missing, Whole}

\* The deploy worker gets an answer even if cloudflared neither says a URL nor
\* ends.
AnswersInTime == \A c \in Calls : stage[c] = "waiting" ~> stage[c] = "returned"
=============================================================================
