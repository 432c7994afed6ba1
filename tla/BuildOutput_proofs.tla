------------------------- MODULE BuildOutput_proofs -------------------------
(***************************************************************************)
(* Proofs about BuildOutput, for pipes of any capacity, any number of      *)
(* lines, and an overlong line anywhere or nowhere.                        *)
(*                                                                         *)
(* OutputAccounted is not inductive.  What it rests on: nixpacks writes    *)
(* only what it has promised to write, a scanner that has the beginning of *)
(* a line left the line in the pipe, and a goroutine that ended on a pipe  *)
(* still open ended for one of two reasons.                                *)
(***************************************************************************)
EXTENDS BuildOutput, SequenceTheorems, TLAPS

Lines(n) == [i \in 1 .. n |-> i]

\* The lines of a stream are in the log, in the scanner, or in the pipe.
Intact == \A s \in Streams : log[s] \o buf[s] \o pipe[s] = Lines(written[s])

\* A fragment in the log is of the line at the head of a pipe nobody reads.
Fragments ==
  \A s \in Streams : torn[s] # 0 => /\ s \notin open \cup scanning
                                    /\ buf[s] = << >> /\ pipe[s] # << >>
                                    /\ torn[s] = Head(pipe[s])

\* A goroutine that ended before its pipe was closed met an overlong line or
\* the end of the output.
Abandoned ==
  \A s \in Streams : s \notin scanning /\ s \in open =>
    Overlong(s) \/ (child = "exited" /\ pipe[s] = << >>)

\* A line the scanner knows the beginning of is still in the pipe.
HalfIsThere == \A s \in Streams : half[s] => pipe[s] # << >>

\* A write that has begun is within the bound on lines.
Promised == \A s \in Streams : child = s => written[s] < MaxLines

IInv ==
  /\ TypeOK
  /\ Promised
  /\ HalfIsThere
  /\ Abandoned
  /\ Fragments
  /\ Intact

-----------------------------------------------------------------------------
\* Sequences

\* One more line.
LEMMA LinesGrow ==
  ASSUME NEW n \in Nat
  PROVE  /\ Lines(n) \in Seq(Nat)
         /\ Append(Lines(n), n + 1) = Lines(n + 1)
<1>1. Lines(n) \in Seq(Nat) /\ Lines(n + 1) \in Seq(Nat)
  BY IsASeq DEF Lines
<1>2. Len(Lines(n)) = n /\ Len(Lines(n + 1)) = n + 1
  BY DEF Lines
<1>3. /\ Append(Lines(n), n + 1) \in Seq(Nat)
      /\ Len(Append(Lines(n), n + 1)) = n + 1
      /\ \A i \in 1 .. n : Append(Lines(n), n + 1)[i] = Lines(n)[i]
      /\ Append(Lines(n), n + 1)[n + 1] = n + 1
  BY <1>1, <1>2, AppendProperties
<1>4. \A i \in 1 .. n + 1 : Append(Lines(n), n + 1)[i] = Lines(n + 1)[i]
  BY <1>3 DEF Lines
<1> HIDE DEF Lines
<1> QED BY <1>1, <1>2, <1>3, <1>4, SeqEqual

\* A line appended to the last of three sequences is appended to the whole.
LEMMA AppendToLast ==
  ASSUME NEW S, NEW a \in Seq(S), NEW b \in Seq(S), NEW c \in Seq(S), NEW x \in S
  PROVE  a \o b \o Append(c, x) = Append(a \o b \o c, x)
<1>1. a \o b \in Seq(S)
  BY ConcatProperties
<1>2. (a \o b) \o c \in Seq(S)
  BY <1>1, ConcatProperties
<1>3. <<x>> \in Seq(S)
  OBVIOUS
<1>4. Append(c, x) = c \o <<x>> /\ Append((a \o b) \o c, x) = ((a \o b) \o c) \o <<x>>
  BY <1>2, AppendIsConcat
<1>5. (a \o b) \o (c \o <<x>>) = ((a \o b) \o c) \o <<x>>
  BY <1>1, <1>3, ConcatAssociative
<1> QED BY <1>4, <1>5

\* Moving the head of one sequence to the end of another changes nothing in
\* what they hold together.
LEMMA HeadMoves ==
  ASSUME NEW S, NEW a \in Seq(S), NEW b \in Seq(S), b # << >>
  PROVE  Append(a, Head(b)) \o Tail(b) = a \o b
<1>1. Head(b) \in S /\ Tail(b) \in Seq(S) /\ b = <<Head(b)>> \o Tail(b)
  BY HeadTailProperties, ConcatSimplifications
<1>2. Append(a, Head(b)) = a \o <<Head(b)>>
  BY <1>1, AppendIsConcat
<1>3. <<Head(b)>> \in Seq(S)
  BY <1>1
<1>4. (a \o <<Head(b)>>) \o Tail(b) = a \o (<<Head(b)>> \o Tail(b))
  BY <1>1, <1>3, ConcatAssociative
<1> QED BY <1>1, <1>2, <1>4

\* A read splits what the pipe holds.
LEMMA SplitRead ==
  ASSUME NEW S, NEW q \in Seq(S), NEW n \in 0 .. Len(q)
  PROVE  /\ SubSeq(q, 1, n) \in Seq(S) /\ Len(SubSeq(q, 1, n)) = n
         /\ SubSeq(q, n + 1, Len(q)) \in Seq(S)
         /\ Len(SubSeq(q, n + 1, Len(q))) = Len(q) - n
         /\ SubSeq(q, 1, n) \o SubSeq(q, n + 1, Len(q)) = q
<1>1. Len(q) \in Nat
  BY LenProperties
<1>2. SubSeq(q, 1, n) \in Seq(S) /\ Len(SubSeq(q, 1, n)) = n
  BY <1>1
<1>3. SubSeq(q, n + 1, Len(q)) \in Seq(S) /\ Len(SubSeq(q, n + 1, Len(q))) = Len(q) - n
  BY <1>1
<1>4. SubSeq(q, 1, n) \o SubSeq(q, n + 1, Len(q)) = SubSeq(q, 1, Len(q))
  <2>1. 1 \in 1 .. Len(q) + 1 /\ n \in 1 - 1 .. Len(q) /\ Len(q) \in n .. Len(q)
    BY <1>1
  <2> QED BY <2>1, ConcatAdjacentSubSeq
<1>5. SubSeq(q, 1, Len(q)) = q
  BY SubSeqFull
<1> QED BY <1>2, <1>3, <1>4, <1>5

-----------------------------------------------------------------------------
\* What the steps do

\* The components of a state that the proofs below speak of, one stream apart.
LEMMA Typed ==
  ASSUME TypeOK, NEW s \in Streams
  PROVE  /\ long[s] \in 0 .. MaxLines /\ written[s] \in 0 .. MaxLines
         /\ written[s] \in Nat /\ 1 .. MaxLines \subseteq Nat
         /\ pipe[s] \in Seq(1 .. MaxLines) /\ Len(pipe[s]) \in Nat /\ Len(pipe[s]) <= Capacity
         /\ buf[s] \in Seq(1 .. MaxLines) /\ log[s] \in Seq(1 .. MaxLines)
         /\ torn[s] \in 0 .. MaxLines /\ half[s] \in BOOLEAN
BY LenProperties, BuildOutputAssumption DEF TypeOK

\* A component of a state, one value of it replaced.
LEMMA ExceptTyped ==
  ASSUME NEW D, NEW S, NEW f \in [D -> S], NEW d \in D, NEW x \in S
  PROVE  [f EXCEPT ![d] = x] \in [D -> S]
OBVIOUS

\* A write appends the next line to the pipe of its stream.
LEMMA WriteEffect ==
  ASSUME TypeOK, Promised, NEW s \in Streams, Write(s)
  PROVE  /\ written' = [written EXCEPT ![s] = @ + 1]
         /\ pipe' = [pipe EXCEPT ![s] = Append(@, written[s] + 1)]
         /\ written[s] + 1 \in 1 .. MaxLines
         /\ Append(pipe[s], written[s] + 1) \in Seq(1 .. MaxLines)
         /\ Append(pipe[s], written[s] + 1) # << >>
         /\ Len(Append(pipe[s], written[s] + 1)) <= Capacity
         /\ pipe[s] # << >> => Head(Append(pipe[s], written[s] + 1)) = Head(pipe[s])
<1>1. written[s] + 1 \in 1 .. MaxLines
  <2>1. child = s
    BY DEF Write
  <2>2. written[s] < MaxLines /\ written[s] \in Nat
    BY <2>1, Typed DEF Promised
  <2> QED BY <2>2, BuildOutputAssumption
<1>2. /\ Append(pipe[s], written[s] + 1) \in Seq(1 .. MaxLines)
      /\ Append(pipe[s], written[s] + 1) # << >>
      /\ Len(Append(pipe[s], written[s] + 1)) = Len(pipe[s]) + 1
  <2>1. pipe[s] \in Seq(1 .. MaxLines)
    BY Typed
  <2> QED BY <1>1, <2>1, AppendProperties
<1>3. pipe[s] # << >> => Head(Append(pipe[s], written[s] + 1)) = Head(pipe[s])
  BY Typed, HeadTailAppend
<1>4. Len(pipe[s]) + 1 <= Capacity
  BY Typed, BuildOutputAssumption DEF Write
<1> QED BY <1>1, <1>2, <1>3, <1>4 DEF Write

\* A read moves lines from the pipe to the empty buffer of its scanner.
LEMMA ReadEffect ==
  ASSUME TypeOK, NEW s \in Streams, Read(s)
  PROVE  \E b \in Seq(1 .. MaxLines), q \in Seq(1 .. MaxLines), h \in BOOLEAN :
           /\ buf' = [buf EXCEPT ![s] = b] /\ pipe' = [pipe EXCEPT ![s] = q]
           /\ half' = [half EXCEPT ![s] = h]
           /\ b \o q = pipe[s] /\ Len(q) <= Len(pipe[s])
           /\ h => q # << >>
           /\ s \in scanning /\ s \in open /\ buf[s] = << >>
<1>1. PICK n \in 0 .. Len(pipe[s]), h \in BOOLEAN :
        /\ h => n < Len(pipe[s])
        /\ buf' = [buf EXCEPT ![s] = SubSeq(pipe[s], 1, n)]
        /\ pipe' = [pipe EXCEPT ![s] = SubSeq(@, n + 1, Len(@))]
        /\ half' = [half EXCEPT ![s] = h]
  BY DEF Read, Source
<1> DEFINE b == SubSeq(pipe[s], 1, n)
           q == SubSeq(pipe[s], n + 1, Len(pipe[s]))
<1>2. /\ b \in Seq(1 .. MaxLines) /\ q \in Seq(1 .. MaxLines)
      /\ Len(q) = Len(pipe[s]) - n /\ b \o q = pipe[s]
  <2>1. pipe[s] \in Seq(1 .. MaxLines)
    BY Typed
  <2> QED BY <2>1, SplitRead
<1>3. buf' = [buf EXCEPT ![s] = b] /\ pipe' = [pipe EXCEPT ![s] = q]
  BY <1>1
<1> HIDE DEF b, q
<1>4. Len(q) <= Len(pipe[s])
  BY <1>2, Typed
<1>5. h => q # << >>
  BY <1>1, <1>2, Typed
<1>6. s \in scanning /\ s \in open /\ buf[s] = << >>
  BY DEF Read, Readable
<1> QED BY <1>1, <1>2, <1>3, <1>4, <1>5, <1>6

\* Logging moves one line from the buffer to the log.
LEMMA LogEffect ==
  ASSUME TypeOK, NEW s \in Streams, LogLine(s)
  PROVE  /\ log' = [log EXCEPT ![s] = Append(@, Head(buf[s]))]
         /\ buf' = [buf EXCEPT ![s] = Tail(@)]
         /\ buf[s] # << >>
         /\ Append(log[s], Head(buf[s])) \in Seq(1 .. MaxLines)
         /\ Tail(buf[s]) \in Seq(1 .. MaxLines)
<1>1. buf[s] # << >>
  BY DEF LogLine
<1>2. Head(buf[s]) \in 1 .. MaxLines /\ Tail(buf[s]) \in Seq(1 .. MaxLines)
  BY <1>1, Typed, HeadTailProperties
<1>3. Append(log[s], Head(buf[s])) \in Seq(1 .. MaxLines)
  BY <1>2, Typed, AppendProperties
<1> QED BY <1>1, <1>2, <1>3 DEF LogLine

-----------------------------------------------------------------------------
\* Type correctness

\* No step of nixpacks, of a scanner or of Wait leaves the types, and a pipe
\* never holds more than its capacity.
LEMMA TypeStep ==
  ASSUME TypeOK, Promised, HalfIsThere, [Next]_vars
  PROVE  TypeOK'
<1>0. BuildOutputAssumption
  BY BuildOutputAssumption
<1>1. CASE UNCHANGED vars
  BY <1>1 DEF vars, out, handler, logged, TypeOK
<1>2. ASSUME NEW s \in Streams, Think(s) \/ ChildExits PROVE TypeOK'
  BY <1>2 DEF Think, ChildExits, out, handler, logged, TypeOK
<1>3. ASSUME NEW s \in Streams, Write(s) PROVE TypeOK'
  <2>1. written' \in [Streams -> 0 .. MaxLines] /\ pipe' \in [Streams -> Seq(1 .. MaxLines)]
    <3> DEFINE q == Append(pipe[s], written[s] + 1)
    <3>1. written[s] + 1 \in 0 .. MaxLines /\ q \in Seq(1 .. MaxLines)
      BY <1>3, <1>0, WriteEffect DEF BuildOutputAssumption
    <3>2. written' = [written EXCEPT ![s] = written[s] + 1] /\ pipe' = [pipe EXCEPT ![s] = q]
      BY <1>3, WriteEffect
    <3> HIDE DEF q
    <3> QED BY <3>1, <3>2, ExceptTyped DEF TypeOK
  <2>2. \A t \in Streams : Len(pipe'[t]) <= Capacity
    BY <1>3, WriteEffect DEF TypeOK
  <2> QED BY <1>3, <2>1, <2>2 DEF Write, out, handler, logged, TypeOK
<1>4. ASSUME NEW s \in Streams, Read(s) PROVE TypeOK'
  <2>1. PICK b \in Seq(1 .. MaxLines), q \in Seq(1 .. MaxLines), h \in BOOLEAN :
          /\ buf' = [buf EXCEPT ![s] = b] /\ pipe' = [pipe EXCEPT ![s] = q]
          /\ half' = [half EXCEPT ![s] = h] /\ Len(q) <= Len(pipe[s])
    BY <1>4, ReadEffect
  <2>2. /\ buf' \in [Streams -> Seq(1 .. MaxLines)] /\ pipe' \in [Streams -> Seq(1 .. MaxLines)]
        /\ half' \in [Streams -> BOOLEAN]
    BY <2>1 DEF TypeOK
  <2>3. Len(q) <= Capacity
    BY <2>1, LenProperties, <1>0, Typed DEF BuildOutputAssumption
  <2>4. \A t \in Streams : Len(pipe'[t]) <= Capacity
    BY <2>1, <2>3 DEF TypeOK
  <2> QED BY <1>4, <2>2, <2>4 DEF Read, handler, logged, TypeOK
<1>5. ASSUME NEW s \in Streams, LogLine(s) PROVE TypeOK'
  <2>1. log' \in [Streams -> Seq(1 .. MaxLines)] /\ buf' \in [Streams -> Seq(1 .. MaxLines)]
    <3> DEFINE l == Append(log[s], Head(buf[s]))
               b == Tail(buf[s])
    <3>1. l \in Seq(1 .. MaxLines) /\ b \in Seq(1 .. MaxLines)
      BY <1>5, LogEffect
    <3>2. log' = [log EXCEPT ![s] = l] /\ buf' = [buf EXCEPT ![s] = b]
      BY <1>5, LogEffect
    <3> HIDE DEF l, b
    <3> QED BY <3>1, <3>2, ExceptTyped DEF TypeOK
  <2> QED BY <1>5, <2>1 DEF LogLine, handler, TypeOK
<1>6. ASSUME NEW s \in Streams, TooLong(s) \/ EndOfFile(s) PROVE TypeOK'
  BY <1>6 DEF TooLong, EndOfFile, out, handler, logged, TypeOK
<1>7. ASSUME NEW s \in Streams, ReadClosed(s) PROVE TypeOK'
  <2>1. (IF half[s] THEN Head(pipe[s]) ELSE 0) \in 0 .. MaxLines
    <3>1. half[s] => Head(pipe[s]) \in 1 .. MaxLines
      BY Typed, HeadTailProperties DEF HalfIsThere
    <3> QED BY <3>1, BuildOutputAssumption
  <2>2. torn' \in [Streams -> 0 .. MaxLines] /\ half' \in [Streams -> BOOLEAN]
    BY <1>7, <2>1 DEF ReadClosed, TypeOK
  <2> QED BY <1>7, <2>2 DEF ReadClosed, handler, TypeOK
<1>8. ASSUME NEW s \in Streams, Close(s) \/ Return PROVE TypeOK'
  BY <1>8 DEF Close, Return, out, logged, TypeOK
<1>9. "stdout" \in Streams
  BY DEF Streams
<1> QED
  BY <1>1, <1>2, <1>3, <1>4, <1>5, <1>6, <1>7, <1>8, <1>9 DEF Next, Child, Scan, Wait

-----------------------------------------------------------------------------
\* The lines

\* Whatever moves, log, scanner and pipe together hold the lines written, in
\* order.
LEMMA IntactStep ==
  ASSUME TypeOK, Promised, Intact, [Next]_vars
  PROVE  Intact'
<1> SUFFICES ASSUME NEW t \in Streams
             PROVE  log'[t] \o buf'[t] \o pipe'[t] = Lines(written'[t])
  BY DEF Intact
<1> DEFINE Goal == log'[t] \o buf'[t] \o pipe'[t] = Lines(written'[t])
<1>0. /\ log[t] \o buf[t] \o pipe[t] = Lines(written[t])
      /\ written \in [Streams -> 0 .. MaxLines]
      /\ pipe \in [Streams -> Seq(1 .. MaxLines)] /\ buf \in [Streams -> Seq(1 .. MaxLines)]
      /\ log \in [Streams -> Seq(1 .. MaxLines)]
  BY DEF Intact, TypeOK
<1>1. ASSUME UNCHANGED <<log, buf, pipe, written>> PROVE Goal
  BY <1>0, <1>1
<1>2. ASSUME NEW s \in Streams, Write(s) PROVE Goal
  <2>0. log' = log /\ buf' = buf
    BY <1>2 DEF Write, logged
  <2>1. CASE s # t
    <3>1. pipe'[t] = pipe[t] /\ written'[t] = written[t]
      BY <1>0, <1>2, <2>1, WriteEffect
    <3> QED BY <1>0, <2>0, <3>1
  <2>2. CASE s = t
    <3> DEFINE n == written[t]
    <3>1. n + 1 \in 1 .. MaxLines /\ n \in Nat
      BY <1>2, <2>2, WriteEffect, Typed
    <3>2. pipe'[t] = Append(pipe[t], n + 1) /\ written'[t] = n + 1
      BY <1>0, <1>2, <2>2, WriteEffect
    <3>3. log[t] \in Seq(1 .. MaxLines) /\ buf[t] \in Seq(1 .. MaxLines)
            /\ pipe[t] \in Seq(1 .. MaxLines)
      BY <1>0
    <3> HIDE DEF n
    <3>4. log[t] \o buf[t] \o Append(pipe[t], n + 1) = Append(log[t] \o buf[t] \o pipe[t], n + 1)
      <4> DEFINE S == 1 .. MaxLines
                 a == log[t]
                 b == buf[t]
                 c == pipe[t]
                 x == n + 1
      <4>1. a \in Seq(S) /\ b \in Seq(S) /\ c \in Seq(S) /\ x \in S
        BY <3>1, <3>3
      <4> HIDE DEF S, a, b, c, x
      <4>2. a \o b \o Append(c, x) = Append(a \o b \o c, x)
        BY ONLY <4>1, AppendToLast
      <4> QED BY <4>2 DEF a, b, c, x
    <3>5. log[t] \o buf[t] \o pipe[t] = Lines(n)
      BY <1>0 DEF n
    <3>6. Append(Lines(n), n + 1) = Lines(n + 1)
      BY <3>1, LinesGrow
    <3> QED BY <2>0, <3>2, <3>4, <3>5, <3>6
  <2> QED BY <2>1, <2>2
<1>3. ASSUME NEW s \in Streams, Read(s) PROVE Goal
  <2>1. PICK b \in Seq(1 .. MaxLines), q \in Seq(1 .. MaxLines), h \in BOOLEAN :
          /\ buf' = [buf EXCEPT ![s] = b] /\ pipe' = [pipe EXCEPT ![s] = q]
          /\ b \o q = pipe[s] /\ buf[s] = << >>
    BY <1>3, ReadEffect
  <2>0. log' = log /\ written' = written
    BY <1>3 DEF Read, logged
  <2>2. CASE s # t
    <3>1. pipe'[t] = pipe[t] /\ buf'[t] = buf[t]
      BY <1>0, <2>1, <2>2
    <3> QED BY <1>0, <2>0, <3>1
  <2>3. CASE s = t
    <3>1. pipe'[t] = q /\ buf'[t] = b
      BY <1>0, <2>1, <2>3
    <3>2. log[t] \in Seq(1 .. MaxLines)
      BY <1>0
    <3>3. (log[t] \o b) \o q = log[t] \o (b \o q)
      <4> DEFINE S == 1 .. MaxLines
                 a == log[t]
      <4>1. a \in Seq(S) /\ b \in Seq(S) /\ q \in Seq(S)
        BY <3>2
      <4> HIDE DEF S, a
      <4>2. (a \o b) \o q = a \o (b \o q)
        BY ONLY <4>1, ConcatAssociative
      <4> QED BY <4>2 DEF a
    <3>4. log[t] \o << >> = log[t]
      BY <3>2, ConcatEmptySeq
    <3>5. log[t] \o buf[t] \o pipe[t] = log[t] \o (b \o q)
      BY <2>1, <2>3, <3>4
    <3> QED BY <1>0, <2>0, <3>1, <3>3, <3>5
  <2> QED BY <2>2, <2>3
<1>4. ASSUME NEW s \in Streams, LogLine(s) PROVE Goal
  <2>0. pipe' = pipe /\ written' = written
    BY <1>4 DEF LogLine
  <2>1. CASE s # t
    <3>1. log'[t] = log[t] /\ buf'[t] = buf[t]
      BY <1>0, <1>4, <2>1, LogEffect
    <3> QED BY <1>0, <2>0, <3>1
  <2>2. CASE s = t
    <3>1. log'[t] = Append(log[t], Head(buf[t])) /\ buf'[t] = Tail(buf[t]) /\ buf[t] # << >>
      BY <1>0, <1>4, <2>2, LogEffect
    <3>2. log[t] \in Seq(1 .. MaxLines) /\ buf[t] \in Seq(1 .. MaxLines)
      BY <1>0
    <3>3. Append(log[t], Head(buf[t])) \o Tail(buf[t]) = log[t] \o buf[t]
      BY <3>1, <3>2, HeadMoves
    <3> QED BY <1>0, <2>0, <3>1, <3>3
  <2> QED BY <2>1, <2>2
<1> HIDE DEF Goal
<1>5. ASSUME NEW s \in Streams,
             Think(s) \/ ChildExits \/ TooLong(s) \/ EndOfFile(s) \/ ReadClosed(s)
               \/ Close(s) \/ Return
      PROVE  Goal
  BY <1>1, <1>5
     DEF Think, ChildExits, TooLong, EndOfFile, ReadClosed, Close, Return, out, logged
<1>6. CASE UNCHANGED vars
  BY <1>1, <1>6 DEF vars, out, logged, Goal
<1>7. "stdout" \in Streams
  BY DEF Streams
<1>8. ASSUME Next PROVE Goal
  BY <1>2, <1>3, <1>4, <1>5, <1>7, <1>8 DEF Next, Child, Scan, Wait
<1> QED BY <1>6, <1>8 DEF Goal

\* What the scanners leave behind, and why they ended.
LEMMA EndStep ==
  ASSUME TypeOK, Promised, HalfIsThere, Abandoned, Fragments, [Next]_vars
  PROVE  Promised' /\ HalfIsThere' /\ Abandoned' /\ Fragments'
<1> DEFINE Ends(t) ==
             /\ child = t => written[t] < MaxLines
             /\ half[t] => pipe[t] # << >>
             /\ t \notin scanning /\ t \in open =>
                  \/ pipe[t] # << >> /\ Head(pipe[t]) = long[t]
                  \/ child = "exited" /\ pipe[t] = << >>
             /\ torn[t] # 0 => /\ t \notin open \cup scanning
                               /\ buf[t] = << >> /\ pipe[t] # << >>
                               /\ torn[t] = Head(pipe[t])
<1> SUFFICES ASSUME NEW t \in Streams PROVE Ends(t)'
  BY DEF Promised, HalfIsThere, Abandoned, Fragments, Overlong
<1> DEFINE Goal == Ends(t)'
<1>0. /\ Ends(t)
      /\ written \in [Streams -> 0 .. MaxLines] /\ half \in [Streams -> BOOLEAN]
      /\ pipe \in [Streams -> Seq(1 .. MaxLines)] /\ buf \in [Streams -> Seq(1 .. MaxLines)]
      /\ torn \in [Streams -> 0 .. MaxLines] /\ long \in [Streams -> 0 .. MaxLines]
      /\ {"thinking", "exited"} \cap Streams = {}
  BY DEF Promised, HalfIsThere, Abandoned, Fragments, Overlong, TypeOK, Streams
<1>1. CASE UNCHANGED vars
  BY <1>0, <1>1 DEF vars, out, handler, logged
<1>2. ASSUME NEW s \in Streams, Think(s) \/ ChildExits PROVE Goal
  BY <1>0, <1>2 DEF Think, ChildExits, out, handler, logged
<1>3. ASSUME NEW s \in Streams, Write(s) PROVE Goal
  <2>1. /\ child = s /\ child' = "thinking"
        /\ UNCHANGED <<long, half, buf, scanning, open, torn>>
    BY <1>3 DEF Write, handler, logged
  <2>2. /\ pipe[t] # << >> => pipe'[t] # << >> /\ Head(pipe'[t]) = Head(pipe[t])
        /\ s # t => pipe'[t] = pipe[t]
    <3>1. CASE s = t
      <4>1. pipe'[t] = Append(pipe[t], written[t] + 1)
        BY <1>0, <1>3, <3>1, WriteEffect
      <4> QED BY <1>3, <3>1, <4>1, WriteEffect
    <3>2. CASE s # t
      BY <1>0, <1>3, <3>2, WriteEffect
    <3> QED BY <3>1, <3>2
  <2>3. child # "exited" /\ child' # t
    BY <1>0, <2>1
  <2> QED BY <1>0, <2>1, <2>2, <2>3
<1>4. ASSUME NEW s \in Streams, Read(s) PROVE Goal
  <2>1. PICK b \in Seq(1 .. MaxLines), q \in Seq(1 .. MaxLines), h \in BOOLEAN :
          /\ buf' = [buf EXCEPT ![s] = b] /\ pipe' = [pipe EXCEPT ![s] = q]
          /\ half' = [half EXCEPT ![s] = h]
          /\ h => q # << >>
          /\ s \in scanning
    BY <1>4, ReadEffect
  <2>2. UNCHANGED <<long, child, written, scanning, open, torn>>
    BY <1>4 DEF Read, handler, logged
  <2>3. CASE s # t
    <3>1. buf'[t] = buf[t] /\ pipe'[t] = pipe[t] /\ half'[t] = half[t]
      BY <1>0, <2>1, <2>3
    <3> QED BY <1>0, <2>2, <3>1
  <2>4. CASE s = t
    <3>1. pipe'[t] = q /\ half'[t] = h
      BY <1>0, <2>1, <2>4
    <3> QED BY <1>0, <2>1, <2>2, <2>4, <3>1
  <2> QED BY <2>3, <2>4
<1>5. ASSUME NEW s \in Streams, LogLine(s) PROVE Goal
  <2>1. /\ buf' = [buf EXCEPT ![s] = Tail(@)] /\ buf[s] # << >>
        /\ UNCHANGED <<long, child, written, pipe, half, scanning, open, torn>>
    BY <1>5 DEF LogLine, handler
  <2>2. torn[t] # 0 => s # t
    BY <1>0, <2>1
  <2>3. s # t => buf'[t] = buf[t]
    BY <1>0, <2>1
  <2> QED BY <1>0, <2>1, <2>2, <2>3
<1>6. ASSUME NEW s \in Streams, TooLong(s) \/ EndOfFile(s) PROVE Goal
  BY <1>0, <1>6 DEF TooLong, EndOfFile, Overlong, out, handler, logged
<1>7. ASSUME NEW s \in Streams, ReadClosed(s) PROVE Goal
  BY <1>0, <1>7 DEF ReadClosed, handler
<1>8. ASSUME NEW s \in Streams, Close(s) \/ Return PROVE Goal
  BY <1>0, <1>8 DEF Close, Return, out, logged
<1>9. "stdout" \in Streams
  BY DEF Streams
<1> HIDE DEF Ends
<1>10. ASSUME Next PROVE Goal
  BY <1>2, <1>3, <1>4, <1>5, <1>6, <1>7, <1>8, <1>9, <1>10 DEF Next, Child, Scan, Wait
<1> QED BY <1>1, <1>10

-----------------------------------------------------------------------------
\* The inductive invariant and what follows from it

\* Every reachable state satisfies the inductive invariant.
THEOREM Inductive == Spec => []IInv
<1>1. Init => IInv
  <2> SUFFICES ASSUME Init PROVE IInv
    OBVIOUS
  <2> USE DEF Init
  <2>1. TypeOK /\ Promised /\ HalfIsThere /\ Abandoned /\ Fragments
    <3>1. << >> \in Seq(1 .. MaxLines) /\ Len(<< >>) = 0
      OBVIOUS
    <3>2. Capacity \in Nat /\ MaxLines \in Nat /\ {"thinking", "exited"} \cap Streams = {}
      BY BuildOutputAssumption DEF Streams
    <3>3. TypeOK
      <4>1. [s \in Streams |-> << >>] \in [Streams -> Seq(1 .. MaxLines)]
        BY <3>1
      <4>2. \A s \in Streams : Len(pipe[s]) <= Capacity
        BY <3>1, <3>2
      <4>3. [s \in Streams |-> 0] \in [Streams -> 0 .. MaxLines]
        BY <3>2
      <4> QED BY <4>1, <4>2, <4>3 DEF TypeOK
    <3>4. Promised /\ HalfIsThere /\ Abandoned /\ Fragments
      BY <3>2 DEF Promised, HalfIsThere, Abandoned, Fragments
    <3> QED BY <3>3, <3>4
  <2>2. << >> \o << >> \o << >> = Lines(0)
    BY DEF Lines
  <2>3. Intact
    BY <2>2 DEF Intact
  <2> QED BY <2>1, <2>3 DEF IInv
<1>2. IInv /\ [Next]_vars => IInv'
  BY TypeStep, IntactStep, EndStep DEF IInv
<1> QED BY <1>1, <1>2, PTL DEF Spec

\* Types are kept, and no pipe holds more than its capacity.
THEOREM TypeCorrect == Spec => []TypeOK
<1>1. IInv => TypeOK
  BY DEF IInv
<1> QED BY <1>1, Inductive, PTL

\* Each stream's lines come into the log in order and without a gap, and lines
\* are lost only where Wait closed the pipe or one was too long.
THEOREM OutputCorrect == Spec => []OutputAccounted
<1>1. IInv => OutputAccounted
  <2> SUFFICES ASSUME IInv, NEW s \in Streams
               PROVE  /\ log[s] \o buf[s] \o pipe[s] = [i \in 1 .. written[s] |-> i]
                      /\ torn[s] # 0 => /\ s \notin open \cup scanning
                                        /\ buf[s] = << >> /\ pipe[s] # << >>
                                        /\ torn[s] = Head(pipe[s])
                      /\ s \notin scanning /\ pipe[s] # << >> => s \notin open \/ Overlong(s)
    BY DEF OutputAccounted
  <2>1. log[s] \o buf[s] \o pipe[s] = [i \in 1 .. written[s] |-> i]
    BY DEF IInv, Intact, Lines
  <2> QED BY <2>1 DEF IInv, Fragments, Abandoned
<1> QED BY <1>1, Inductive, PTL

-----------------------------------------------------------------------------
\* Nobody waits for somebody who waits

\* The goroutine of a stream can go on: it has a line to log, a line, an overlong
\* one or the end to read, or the closed pipe to notice.
ScanReady(s) ==
  \/ buf[s] # << >>
  \/ s \in scanning /\ s \notin open
  \/ s \in scanning /\ (pipe[s] # << >> \/ child = "exited")

\* Somebody can go on: nixpacks is not at a full pipe, a goroutine has something
\* to do, or Wait has pipes to close.
SomebodyReady ==
  \/ child = "thinking"
  \/ child = "exited" /\ ~returned
  \/ \E s \in Streams : child = s /\ Len(pipe[s]) < Capacity
  \/ \E s \in Streams : ScanReady(s)

\* The build is over, or nixpacks is at the full pipe of an overlong line.
OverOrAbandoned ==
  \/ returned /\ scanning = {}
  \/ \E s \in Streams : child = s /\ s \notin scanning /\ s \in open /\ Overlong(s)

\* Wait closes no pipe before nixpacks has exited, and returns after the last.
PipesOpen == (child # "exited" => open = Streams) /\ (returned => open = {})

LEMMA PipesOpenInvariant == Spec => []PipesOpen
<1>1. Init => PipesOpen
  BY DEF Init, PipesOpen
<1>2. PipesOpen /\ [Next]_vars => PipesOpen'
  <2> SUFFICES ASSUME PipesOpen, [Next]_vars PROVE PipesOpen'
    OBVIOUS
  <2>1. ASSUME NEW s \in Streams, Think(s) \/ Write(s) \/ Scan(s) PROVE PipesOpen'
    <3>1. UNCHANGED <<open, returned>> /\ (child = "exited" => child' = "exited")
      BY <2>1, "exited" \notin Streams
      DEF Think, Write, Scan, Read, LogLine, TooLong, EndOfFile, ReadClosed, handler, Streams
    <3> QED BY <3>1 DEF PipesOpen
  <2>2. CASE ChildExits
    BY <2>2 DEF PipesOpen, ChildExits, handler
  <2>3. CASE Wait
    BY <2>3 DEF PipesOpen, Wait, Return, Close
  <2>4. CASE UNCHANGED vars
    BY <2>4 DEF PipesOpen, vars, handler
  <2> QED BY <2>1, <2>2, <2>3, <2>4 DEF Next, Child
<1> QED BY <1>1, <1>2, PTL DEF Spec

\* Unless the build is over, somebody can go on, for pipes of any capacity: the
\* one deadlock is that of nixpacks at the pipe of an overlong line.
THEOREM NeverStuck == Spec => [](SomebodyReady \/ OverOrAbandoned)
<1>1. IInv /\ PipesOpen => SomebodyReady \/ OverOrAbandoned
  <2> SUFFICES ASSUME IInv, PipesOpen, ~SomebodyReady PROVE OverOrAbandoned
    OBVIOUS
  <2> USE DEF IInv
  <2>1. /\ child # "thinking"
        /\ child = "exited" => returned
        /\ \A s \in Streams : child = s => ~(Len(pipe[s]) < Capacity)
        /\ \A s \in Streams : s \in scanning => s \in open /\ pipe[s] = << >> /\ child # "exited"
    BY DEF SomebodyReady, ScanReady
  <2>2. CASE child = "exited"
    <3>1. scanning = {}
      BY <2>1, <2>2 DEF TypeOK
    <3> QED BY <2>1, <2>2, <3>1 DEF OverOrAbandoned
  <2>3. ASSUME NEW s \in Streams, child = s PROVE OverOrAbandoned
    <3>1. pipe[s] # << >>
      <4>1. Capacity \in Nat \ {0} /\ Len(<< >>) = 0
        BY BuildOutputAssumption
      <4> QED BY <2>1, <2>3, <4>1
    <3>2. s \notin scanning
      BY <2>1, <3>1
    <3>3. s \in open
      BY <2>3, "exited" \notin Streams DEF PipesOpen, Streams
    <3>4. Overlong(s)
      BY <3>1, <3>2, <3>3 DEF Abandoned
    <3> QED BY <2>3, <3>2, <3>3, <3>4 DEF OverOrAbandoned
  <2> QED BY <2>1, <2>2, <2>3 DEF TypeOK
<1> QED BY <1>1, Inductive, PipesOpenInvariant, PTL
=============================================================================
