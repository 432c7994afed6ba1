---------------------------- MODULE Tunnel_proofs ----------------------------
(***************************************************************************)
(* Proofs about Tunnel, for any set of calls and any length of the         *)
(* download.  The goroutine that reads cloudflared's stderr sends at most  *)
(* once in its life: the URL, which it remembers, or the error with which  *)
(* it ends.  So a channel of capacity 1 always has room.                   *)
(***************************************************************************)
EXTENDS Tunnel, TLAPS

\* A download under way has created the file and is not past its end.
Downloading ==
  \A c \in Calls : stage[c] = "copying" => file # Missing /\ copied[c] < Parts

\* What the life of the goroutine of a call has come to.
SendsOnce(c) ==
  /\ stage[c] \in {"idle", "missing", "copying", "ready"} => scanner[c] = "none"
  /\ stage[c] # "returned" => result[c] = "none"
  /\ ~urlFound[c] => urlChan[c] = <<>>
  /\ scanner[c] = "none" => ~urlFound[c] /\ errChan[c] = <<>>
  /\ scanner[c] = "scanning" => errChan[c] = <<>> /\ result[c] # "error"
  /\ scanner[c] # "blocked"
  /\ urlFound[c] => errChan[c] = <<>>
  /\ stage[c] = "returned" => result[c] # "none"
  /\ result[c] = "url" => urlFound[c]
  /\ urlFound[c] => \/ result[c] = "url"
                    \/ urlChan[c] # <<>> /\ (stage[c] = "waiting" \/ result[c] = "timeout")

IInv == TypeOK /\ Downloading /\ \A c \in Calls : SendsOnce(c)

-----------------------------------------------------------------------------
LEMMA InitIInv == Init => IInv
  <1>. SUFFICES ASSUME Init PROVE IInv
    OBVIOUS
  <1>1. TypeOK
    BY TunnelAssumption DEF Init, TypeOK
  <1>2. Downloading /\ \A c \in Calls : SendsOnce(c)
    BY DEF Init, Downloading, SendsOnce
  <1>. QED
    BY <1>1, <1>2 DEF IInv

\* The steps of EnsureBinary: only the file, the place of the call and, on
\* failure, its result change.
LEMMA EnsureStep ==
  ASSUME IInv, NEW c \in Calls, Ensure(c)
  PROVE  IInv'
  <1>. USE DEF IInv
  <1>1. UNCHANGED <<process, scanner, urlFound, urlChan, errChan>>
    BY DEF Ensure, Look, FetchFails, Create, Copy, CopyFails, reader
  <1>2. CASE Look(c)
    <2>1. /\ UNCHANGED <<file, copied, result>>
          /\ stage[c] = "idle"
          /\ stage' = [stage EXCEPT ![c] = IF file = Missing THEN "missing" ELSE "ready"]
      BY <1>2 DEF Look, Goto, download
    <2>2. TypeOK'
      BY <1>1, <2>1 DEF TypeOK
    <2>3. Downloading'
      BY <2>1 DEF Downloading, TypeOK
    <2>4. \A e \in Calls : SendsOnce(e)'
      BY <1>1, <2>1 DEF SendsOnce, TypeOK
    <2>. QED
      BY <2>2, <2>3, <2>4
  <1>3. CASE FetchFails(c) \/ CopyFails(c)
    <2>1. /\ UNCHANGED <<file, copied>>
          /\ stage[c] \in {"missing", "copying"}
          /\ stage' = [stage EXCEPT ![c] = "returned"]
          /\ result' = [result EXCEPT ![c] = "error"]
      BY <1>3 DEF FetchFails, CopyFails, Return, Goto, download
    <2>2. TypeOK'
      BY <1>1, <2>1 DEF TypeOK
    <2>3. Downloading'
      BY <2>1 DEF Downloading, TypeOK
    <2>4. \A e \in Calls : SendsOnce(e)'
      BY <1>1, <2>1 DEF SendsOnce, TypeOK
    <2>. QED
      BY <2>2, <2>3, <2>4
  <1>4. CASE Create(c)
    <2>1. /\ UNCHANGED result
          /\ stage[c] = "missing"
          /\ file' = {} /\ copied' = [copied EXCEPT ![c] = 0]
          /\ stage' = [stage EXCEPT ![c] = "copying"]
      BY <1>4 DEF Create, Goto
    <2>2. TypeOK'
      BY <1>1, <2>1, TunnelAssumption DEF TypeOK
    <2>3. Downloading'
      BY <2>1, TunnelAssumption DEF Downloading, TypeOK, Missing
    <2>4. \A e \in Calls : SendsOnce(e)'
      BY <1>1, <2>1 DEF SendsOnce, TypeOK
    <2>. QED
      BY <2>2, <2>3, <2>4
  <1>5. CASE Copy(c)
    <2>1. /\ UNCHANGED result
          /\ stage[c] = "copying"
          /\ file' = file \cup {copied[c] + 1}
          /\ copied' = [copied EXCEPT ![c] = copied[c] + 1]
          /\ stage' = [stage EXCEPT ![c] =
                         IF copied[c] + 1 = Parts THEN "ready" ELSE "copying"]
      BY <1>5 DEF Copy, Goto
    <2>2. /\ copied[c] + 1 \in 1..Parts /\ copied[c] \in Nat
          /\ file \subseteq Whole /\ file' \subseteq Whole /\ file' # Missing
      <3>1. copied[c] \in 0..Parts /\ copied[c] < Parts /\ file # Missing
        BY <2>1 DEF Downloading, TypeOK
      <3>2. copied[c] + 1 \in 1..Parts /\ copied[c] \in Nat
        BY <3>1, TunnelAssumption
      <3>3. file \subseteq Whole
        BY <3>1 DEF TypeOK
      <3>4. file' \subseteq Whole
        BY <2>1, <3>2, <3>3 DEF Whole
      <3>5. file' # Missing
        <4>1. 0 \notin Whole
          BY TunnelAssumption DEF Whole
        <4>. QED
          BY <3>4, <4>1 DEF Missing
      <3>. QED
        BY <3>2, <3>3, <3>4, <3>5
    <2>3. TypeOK'
      BY <1>1, <2>1, <2>2, TunnelAssumption DEF TypeOK
    <2>4. Downloading'
      <3>. SUFFICES ASSUME NEW e \in Calls, stage'[e] = "copying"
           PROVE  copied'[e] < Parts
        BY <2>2 DEF Downloading
      <3>1. CASE e = c
        BY <2>1, <2>2, <3>1, TunnelAssumption DEF TypeOK
      <3>2. CASE e # c
        BY <2>1, <3>2 DEF Downloading, TypeOK
      <3>. QED
        BY <3>1, <3>2
    <2>5. \A e \in Calls : SendsOnce(e)'
      BY <1>1, <2>1 DEF SendsOnce, TypeOK
    <2>. QED
      BY <2>3, <2>4, <2>5
  <1>. QED
    BY <1>2, <1>3, <1>4, <1>5 DEF Ensure

LEMMA BeginStep ==
  ASSUME IInv, NEW c \in Calls, Begin(c)
  PROVE  IInv'
  <1>. USE DEF IInv
  <1>1. UNCHANGED <<file, copied, urlFound, urlChan, errChan>> /\ stage[c] = "ready"
    BY DEF Begin, StartFails, StartProcess, download, reader
  <1>2. \/ /\ stage' = [stage EXCEPT ![c] = "returned"]
           /\ result' = [result EXCEPT ![c] = "error"]
           /\ UNCHANGED <<process, scanner>>
        \/ /\ stage' = [stage EXCEPT ![c] = "waiting"]
           /\ process' = [process EXCEPT ![c] = "up"]
           /\ scanner' = [scanner EXCEPT ![c] = "scanning"]
           /\ UNCHANGED result
    BY DEF Begin, StartFails, StartProcess, Return, Goto, reader
  <1>3. TypeOK'
    BY <1>1, <1>2 DEF TypeOK
  <1>4. Downloading'
    BY <1>1, <1>2 DEF Downloading, TypeOK
  <1>5. \A e \in Calls : SendsOnce(e)'
    BY <1>1, <1>2 DEF SendsOnce, TypeOK
  <1>. QED
    BY <1>3, <1>4, <1>5

LEMMA AnswerStep ==
  ASSUME IInv, NEW c \in Calls, Answer(c)
  PROVE  IInv'
  <1>. USE DEF IInv
  <1>1. /\ UNCHANGED <<file, copied, process, scanner, urlFound>>
        /\ stage[c] = "waiting"
        /\ stage' = [stage EXCEPT ![c] = "returned"]
    BY DEF Answer, TakeURL, TakeError, Timeout, Return, Goto, download, reader
  <1>2. /\ urlChan[c] # <<>> => urlChan[c] = <<"url">> /\ Tail(urlChan[c]) = <<>>
        /\ errChan[c] # <<>> => errChan[c] = <<"error">> /\ Tail(errChan[c]) = <<>>
    <2>1. Tail(<<"url">>) = <<>> /\ Tail(<<"error">>) = <<>>
      OBVIOUS
    <2>2. /\ urlChan[c] \in {<<>>, <<"url">>}
          /\ errChan[c] \in {<<>>, <<"error">>}
      BY DEF TypeOK
    <2>. QED
      BY <2>1, <2>2
  <1>3. \/ /\ urlChan[c] # <<>> /\ urlChan' = [urlChan EXCEPT ![c] = <<>>]
           /\ errChan' = errChan /\ result' = [result EXCEPT ![c] = "url"]
        \/ /\ errChan[c] # <<>> /\ errChan' = [errChan EXCEPT ![c] = <<>>]
           /\ urlChan' = urlChan /\ result' = [result EXCEPT ![c] = "error"]
        \/ /\ UNCHANGED <<urlChan, errChan>> /\ result' = [result EXCEPT ![c] = "timeout"]
    <2>1. CASE TakeURL(c)
      BY <1>2, <2>1 DEF TakeURL, Return
    <2>2. CASE TakeError(c)
      BY <1>2, <2>2 DEF TakeError, Return
    <2>3. CASE Timeout(c)
      BY <2>3 DEF Timeout, Return, reader
    <2>. QED
      BY <2>1, <2>2, <2>3 DEF Answer
  <1>4. TypeOK'
    <2>1. urlChan' \in [Calls -> {<<>>, <<"url">>}]
      BY <1>3 DEF TypeOK
    <2>2. errChan' \in [Calls -> {<<>>, <<"error">>}]
      BY <1>3 DEF TypeOK
    <2>3. result' \in [Calls -> {"none", "url", "error", "timeout"}]
      BY <1>3 DEF TypeOK
    <2>. QED
      BY <1>1, <2>1, <2>2, <2>3 DEF TypeOK
  <1>5. Downloading'
    BY <1>1 DEF Downloading, TypeOK
  <1>6. ASSUME NEW e \in Calls PROVE SendsOnce(e)'
    <2>1. CASE e = c
      <3>1. /\ stage'[e] = "returned" /\ SendsOnce(e)
            /\ scanner' = scanner /\ urlFound' = urlFound
        BY <1>1, <2>1 DEF SendsOnce, TypeOK
      <3>2. CASE result' = [result EXCEPT ![c] = "url"] /\ errChan' = errChan
        BY <1>3, <2>1, <3>1, <3>2 DEF SendsOnce, TypeOK
      <3>3. CASE result' = [result EXCEPT ![c] = "error"] /\ urlChan' = urlChan
        BY <1>3, <2>1, <3>1, <3>3 DEF SendsOnce, TypeOK
      <3>4. CASE UNCHANGED <<urlChan, errChan>> /\ result' = [result EXCEPT ![c] = "timeout"]
        <4>1. /\ result[e] = "none" /\ result'[e] = "timeout" /\ stage[e] = "waiting"
              /\ urlChan' = urlChan /\ errChan' = errChan
          BY <1>1, <2>1, <3>1, <3>4 DEF SendsOnce, TypeOK
        <4>. QED
          BY <3>1, <4>1 DEF SendsOnce
      <3>. QED
        BY <1>3, <3>2, <3>3, <3>4
    <2>2. CASE e # c
      <3>1. /\ stage'[e] = stage[e] /\ result'[e] = result[e]
            /\ urlChan'[e] = urlChan[e] /\ errChan'[e] = errChan[e]
            /\ scanner' = scanner /\ urlFound' = urlFound
        BY <1>1, <1>3, <2>2 DEF TypeOK
      <3>2. SendsOnce(e)
        OBVIOUS
      <3>. QED
        BY <3>1, <3>2 DEF SendsOnce
    <2>. QED
      BY <2>1, <2>2
  <1>. QED
    BY <1>4, <1>5, <1>6

\* The goroutine: both of its sends find room.
LEMMA ScannerStep ==
  ASSUME IInv, NEW c \in Calls, Scanner(c)
  PROVE  IInv'
  <1>. USE DEF IInv
  <1>1. UNCHANGED <<file, copied, stage, process, result>> /\ scanner[c] = "scanning"
    BY DEF Scanner, ScanURL, ScanEnds, download
  <1>2. errChan[c] = <<>> /\ result[c] # "error" /\ (~urlFound[c] => urlChan[c] = <<>>)
    BY <1>1 DEF SendsOnce
  <1>3. /\ Append(<<>>, "url") = <<"url">> /\ Append(<<>>, "error") = <<"error">>
        /\ c \in DOMAIN urlChan /\ c \in DOMAIN errChan
    BY DEF TypeOK
  <1>4. Downloading'
    BY <1>1 DEF Downloading
  <1>5. CASE ScanURL(c)
    <2>1. /\ ~urlFound[c] /\ urlFound' = [urlFound EXCEPT ![c] = TRUE]
          /\ urlChan' = [urlChan EXCEPT ![c] = Append(urlChan[c], "url")]
          /\ UNCHANGED <<scanner, errChan>>
      BY <1>2, <1>5 DEF ScanURL, Room
    <2>2. urlChan' = [urlChan EXCEPT ![c] = <<"url">>]
      BY <1>2, <1>3, <2>1
    <2>3. TypeOK'
      BY <1>1, <2>1, <2>2 DEF TypeOK
    <2>4. \A e \in Calls : SendsOnce(e)'
      BY <1>1, <1>2, <2>1, <2>2 DEF SendsOnce, TypeOK
    <2>. QED
      BY <1>4, <2>3, <2>4
  <1>6. CASE ScanEnds(c)
    <2>1. /\ scanner' = [scanner EXCEPT ![c] = "done"]
          /\ UNCHANGED <<urlFound, urlChan>>
      BY <1>2, <1>6 DEF ScanEnds, Room
    <2>2. \/ urlFound[c] /\ errChan' = errChan
          \/ ~urlFound[c] /\ errChan' = [errChan EXCEPT ![c] = <<"error">>]
      <3>1. CASE urlFound[c]
        BY <1>6, <3>1 DEF ScanEnds
      <3>2. CASE ~urlFound[c]
        <4>1. errChan' = [errChan EXCEPT ![c] = Append(errChan[c], "error")]
          BY <1>2, <1>6, <3>2 DEF ScanEnds, Room
        <4>. QED
          BY <1>2, <1>3, <3>2, <4>1
      <3>. QED
        BY <3>1, <3>2
    <2>3. TypeOK'
      BY <1>1, <2>1, <2>2 DEF TypeOK
    <2>4. \A e \in Calls : SendsOnce(e)'
      BY <1>1, <1>2, <2>1, <2>2 DEF SendsOnce, TypeOK
    <2>. QED
      BY <1>4, <2>3, <2>4
  <1>. QED
    BY <1>5, <1>6 DEF Scanner

LEMMA StepIInv == IInv /\ [Next]_vars => IInv'
  <1>. SUFFICES ASSUME IInv, [Next]_vars PROVE IInv'
    OBVIOUS
  <1>1. ASSUME NEW c \in Calls, ProcessExits(c) PROVE IInv'
    BY <1>1 DEF ProcessExits, download, reader, IInv, TypeOK, Downloading, SendsOnce
  <1>2. ASSUME UNCHANGED vars PROVE IInv'
    BY <1>2 DEF vars, download, reader, IInv, TypeOK, Downloading, SendsOnce
  <1>. QED
    BY <1>1, <1>2, EnsureStep, BeginStep, AnswerStep, ScannerStep DEF Next

-----------------------------------------------------------------------------
\* The invariant the properties are read off.
THEOREM Inductive == Spec => []IInv
  <1>. QED
    BY InitIInv, StepIInv, PTL DEF Spec

\* The type invariant: a download is copied part by part, within its length.
THEOREM TypeCorrect == Spec => []TypeOK
  <1>1. IInv => TypeOK
    BY DEF IInv
  <1>. QED
    BY <1>1, Inductive, PTL

\* The goroutine never blocks in a send, whether the call waits or has returned.
THEOREM ScannerFree == Spec => []ScannerNeverBlocks
  <1>1. IInv => ScannerNeverBlocks
    BY DEF IInv, SendsOnce, ScannerNeverBlocks
  <1>. QED
    BY <1>1, Inductive, PTL

\* A URL that was found is returned, still on its way, or lost to the timeout;
\* the end of cloudflared's output never takes its place.
THEOREM UrlKept == Spec => []UrlLostOnlyToTimeout
  <1>1. IInv => UrlLostOnlyToTimeout
    BY DEF IInv, SendsOnce, UrlLostOnlyToTimeout
  <1>. QED
    BY <1>1, Inductive, PTL

-----------------------------------------------------------------------------
\* The downloads

\* The file holds all that some download has written, one that is under way,
\* complete or broken: the last to create the file writes all of it again.
Backed(c) ==
  /\ 1..copied[c] \subseteq file
  /\ stage[c] = "copying" \/ copied[c] = Parts \/ result[c] = "error"

FileBacked == file # Missing => \E c \in Calls : Backed(c)

LEMMA BackedStep == IInv /\ FileBacked /\ [Next]_vars => FileBacked'
  <1>. SUFFICES ASSUME IInv, FileBacked, [Next]_vars PROVE FileBacked'
    OBVIOUS
  <1>0. /\ copied \in [Calls -> 0..Parts] /\ Parts \in Nat
        /\ stage \in [Calls -> {"idle", "missing", "copying", "ready", "waiting", "returned"}]
        /\ result \in [Calls -> {"none", "url", "error", "timeout"}]
    BY TunnelAssumption DEF IInv, TypeOK
  <1>1. ASSUME NEW c \in Calls, Create(c) PROVE FileBacked'
    <2>1. Backed(c)'
      <3>1. copied'[c] = 0 /\ stage'[c] = "copying" /\ 1..0 = {}
        BY <1>0, <1>1 DEF Create, Goto
      <3>. QED
        BY <3>1 DEF Backed
    <2>. QED
      BY <2>1 DEF FileBacked
  <1>2. ASSUME NEW c \in Calls, Copy(c) PROVE FileBacked'
    <2>1. PICK e \in Calls : Backed(e)
      BY <1>2 DEF IInv, Downloading, Copy, FileBacked
    <2>2. Backed(e)'
      <3>1. CASE e = c
        <4>1. /\ copied[c] \in Nat /\ copied'[c] = copied[c] + 1
              /\ file' = file \cup {copied[c] + 1}
              /\ stage'[c] = "copying" \/ copied'[c] = Parts
          BY <1>0, <1>2 DEF Copy, Goto
        <4>2. 1..(copied[c] + 1) = 1..copied[c] \cup {copied[c] + 1}
          BY <4>1
        <4>. QED
          BY <2>1, <3>1, <4>1, <4>2 DEF Backed
      <3>2. CASE e # c
        BY <1>0, <1>2, <2>1, <3>2 DEF Backed, Copy, Goto
      <3>. QED
        BY <3>1, <3>2
    <2>. QED
      BY <2>2 DEF FileBacked
  <1>3. ASSUME NEW c \in Calls, CopyFails(c) PROVE FileBacked'
    <2>1. UNCHANGED <<file, copied>> /\ stage[c] = "copying"
          /\ stage' = [stage EXCEPT ![c] = "returned"]
          /\ result' = [result EXCEPT ![c] = "error"]
      BY <1>3 DEF CopyFails, Return, Goto, download
    <2>2. \A e \in Calls : Backed(e) => Backed(e)'
      BY <1>0, <2>1 DEF Backed
    <2>. QED
      BY <2>1, <2>2 DEF FileBacked
  <1>4. ASSUME UNCHANGED <<file, copied>>,
               \A e \in Calls : /\ stage[e] = "copying" => stage'[e] = "copying"
                                /\ result[e] = "error" => result'[e] = "error"
        PROVE  FileBacked'
    BY <1>4 DEF FileBacked, Backed
  <1>5. ASSUME NEW c \in Calls, Look(c) \/ FetchFails(c) PROVE FileBacked'
    BY <1>0, <1>4, <1>5 DEF Look, FetchFails, Return, Goto, download
  <1>6. ASSUME NEW c \in Calls, Begin(c) PROVE FileBacked'
    BY <1>0, <1>4, <1>6 DEF Begin, StartFails, StartProcess, Return, Goto, download
  <1>7. ASSUME NEW c \in Calls, Answer(c) PROVE FileBacked'
    <2>1. result[c] = "none" /\ stage[c] = "waiting"
      BY <1>7 DEF Answer, TakeURL, TakeError, Timeout, IInv, SendsOnce
    <2>. QED
      BY <1>0, <1>4, <1>7, <2>1 DEF Answer, TakeURL, TakeError, Timeout, Return, Goto, download
  <1>8. ASSUME NEW c \in Calls, Scanner(c) \/ ProcessExits(c) PROVE FileBacked'
    BY <1>4, <1>8 DEF Scanner, ScanURL, ScanEnds, ProcessExits, download
  <1>9. ASSUME UNCHANGED vars PROVE FileBacked'
    BY <1>4, <1>9 DEF vars, download
  <1>. QED
    BY <1>1, <1>2, <1>3, <1>5, <1>6, <1>7, <1>8, <1>9 DEF Next, Ensure

\* However many calls download over each other, the file ends up whole unless a
\* download broke.
THEOREM BinaryCorrect == Spec => []BinaryIsWhole
  <1>1. Init => FileBacked
    BY DEF Init, FileBacked
  <1>2. IInv /\ FileBacked => BinaryIsWhole
    <2>. SUFFICES ASSUME IInv, FileBacked, file # Missing,
                         \A c \in Calls : /\ stage[c] # "copying"
                                          /\ result[c] = "error" => copied[c] = Parts
         PROVE  file = Whole
      BY DEF BinaryIsWhole
    <2>1. file \subseteq Whole
      BY DEF IInv, TypeOK
    <2>2. PICK c \in Calls : Backed(c)
      BY DEF FileBacked
    <2>3. copied[c] = Parts
      BY <2>2 DEF Backed
    <2>. QED
      BY <2>1, <2>2, <2>3 DEF Backed, Whole
  <1>. QED
    BY <1>1, <1>2, BackedStep, Inductive, PTL DEF Spec
=============================================================================
