------------------------- MODULE SourceStore_proofs --------------------------
(***************************************************************************)
(* Proofs about SourceStore, for any handlers, projects and sizes of       *)
(* archives.  What keeps unlocked files in order is who may write them:    *)
(* as long as no other writer joined, a file holds a prefix of what its    *)
(* only writer writes, and the whole of it when the writer is done, unless *)
(* an error was dropped on the way (`clash`).                              *)
(***************************************************************************)
EXTENDS SourceStore, TLAPS

\* The first parts, before n, of the archive of v.
Prefix(v, n) == [i \in Parts |-> IF i < n /\ i <= Size[v] THEN v ELSE None]

Undisturbed(h, file) == <<h, file>> \notin clash

AtWork == {"copying"} \cup Copied

\* A download is within its file.
GetsParts == \A h \in Handlers : pc[h] = "getting" => pos[h] \in ToolParts

\* Only pushes zip, and only uploads and pushes put.
KindsFit ==
  \A h \in Handlers :
    pc[h] \in Pushing => kind[h] = "push" \/ (kind[h] = "upload" /\ pc[h] = "putting")

\* The parts of an archive of a project lie in its files and builds only.
PartsAtHome ==
  /\ \A p \in Projects, i \in Parts : temp[p][i] # None => project[temp[p][i]] = p
  /\ \A p \in Projects, i \in Parts : store[p][i] # None => project[store[p][i]] = p
  /\ \A h \in Handlers, i \in Parts : tree[h][i] # None => project[tree[h][i]] = project[h]

\* Nobody writes the zip of a push that met no other.  One whose own zip could not
\* be created may open it, and remove it before it is opened.
ZipAlone ==
  \A g, h \in Handlers :
    /\ g # h /\ project[g] = project[h] /\ Undisturbed(h, "put")
    /\ kind[g] = "push" /\ kind[h] = "push" /\ pc[h] \in Pushing
    => pc[g] # "zipping"

ZipIsPrefix ==
  \A h \in Handlers :
    LET p == project[h] IN
    kind[h] = "push" /\ Undisturbed(h, "put") =>
      /\ pc[h] = "zipping" => p \in zipped /\ pos[h] <= Size[h] /\ temp[p] = Prefix(h, pos[h])
      /\ pc[h] = "zipped" /\ p \in zipped => temp[p] = Whole(h)
      /\ pc[h] \in {"opened", "putting"} => temp[p] = Whole(h)
      /\ pc[h] # "blind"

\* Who created the archive last, and met no other writer, is its only writer.
PutAlone ==
  \A g, h \in Handlers :
    g # h /\ project[g] = project[h] /\ Undisturbed(h, "put") /\ last[project[h]] = h =>
      pc[g] # "putting"

StoreIsPrefix ==
  \A h \in Handlers :
    LET p == project[h] IN
    Undisturbed(h, "put") =>
      /\ pc[h] = "putting" => last[p] = h /\ pos[h] <= Size[h] + 1 /\ store[p] = Prefix(h, pos[h])
      /\ last[p] = h /\ pc[h] # "putting" => store[p] = Whole(h)

LastIsKnown ==
  \A p \in Projects :
    /\ p \in stored => last[p] # None
    /\ last[p] # None => project[last[p]] = p

\* While a build copies an archive that nobody touches meanwhile.
CopyAlone ==
  \A b \in Handlers :
    pc[b] = "copying" /\ Undisturbed(b, "copy") =>
      /\ last[project[b]] = from[b]
      /\ \A g \in Handlers : project[g] = project[b] => pc[g] # "putting"

TreeIsPrefix ==
  \A b \in Handlers :
    /\ pc[b] \in AtWork => from[b] \in Handlers
    /\ pc[b] \notin AtWork => tree[b] = Blank
    /\ pc[b] = "copying" /\ Undisturbed(b, "copy") /\ Undisturbed(from[b], "put")
         => pos[b] <= Size[from[b]] + 1 /\ tree[b] = Prefix(from[b], pos[b])
    /\ pc[b] \in Copied /\ Undisturbed(b, "copy") /\ Undisturbed(from[b], "put")
         => tree[b] = Whole(from[b])

\* As long as downloads do not meet, break or get cut off by a stop.
ToolQuiet == \A h \in Handlers : Undisturbed(h, "tool")

ToolAlone ==
  ToolQuiet =>
    /\ \A g, h \in Handlers : pc[g] \in Downloading /\ pc[h] \in Downloading => g = h
    /\ \A h \in Handlers :
         /\ pc[h] = "getting" => toolzip = {i \in ToolParts : i < pos[h]}
         /\ pc[h] \in {"unzipping", "writing"} => toolzip = ToolParts
    /\ exe = "partial" => \E h \in Handlers : pc[h] = "writing"

IInv ==
  /\ TypeOK /\ GetsParts /\ KindsFit /\ PartsAtHome
  /\ ZipAlone /\ ZipIsPrefix
  /\ PutAlone /\ StoreIsPrefix /\ LastIsKnown
  /\ CopyAlone /\ TreeIsPrefix
  /\ ToolAlone

-----------------------------------------------------------------------------
\* What any step of a handler leaves alone.

Step(h) == Put(h) \/ Push(h) \/ Request(h) \/ Build(h)

LEMMA Frame ==
  ASSUME TypeOK, NEW h \in Handlers, Step(h)
  PROVE  /\ kind' = kind /\ project' = project
         /\ clash \subseteq clash'
         /\ \A g \in Handlers \ {h} : /\ pc'[g] = pc[g] /\ pos'[g] = pos[g]
                                     /\ tree'[g] = tree[g] /\ from'[g] = from[g]
  <1>. USE DEF TypeOK, Spoil, MayPut, AfterPut, Goto, GotoPart, Return, files, tool
  <1>1. CASE Put(h)
    BY <1>1 DEF Put, CreateObject, CreateObjectFails, PutPart, PutEnds, PutBreaks
  <1>2. CASE Push(h)
    BY <1>2 DEF Push, CreateZip, CreateZipFails, WriteZip, OpenZip, RemoveZip
  <1>3. CASE Request(h)
    BY <1>3 DEF Request
  <1>4. CASE Copy(h)
    BY <1>4 DEF Copy, Fetch, CopyPart, CopyEnds, CopyBreaks, Extract
  <1>5. CASE CheckTool(h)
    BY <1>5 DEF CheckTool, Present, CreateToolzip, KeepToolzip
  <1>6. CASE DownloadPart(h) \/ DownloadBreaks(h) \/ Truncate(h) \/ UnzipFails(h)
    BY <1>6 DEF DownloadPart, DownloadBreaks, Truncate, UnzipFails
  <1>7. CASE WriteTool(h) \/ WriteToolBreaks(h) \/ RemoveToolzip(h) \/ StartTool(h) \/ ToolEnds(h)
    BY <1>7 DEF WriteTool, WriteToolBreaks, RemoveToolzip, StartTool, ToolEnds
  <1>. QED
    BY <1>1, <1>2, <1>3, <1>4, <1>5, <1>6, <1>7 DEF Step, Build, Tool

\* A build leaves the files of others to others, and is no push.
LEMMA BuildPlaces ==
  ASSUME TypeOK, NEW h \in Handlers, Build(h)
  PROVE  /\ pc[h] \notin Pushing \cup {"idle", "done"}
         /\ pc'[h] \notin Pushing \cup {"idle", "done"}
         /\ UNCHANGED files /\ UNCHANGED last
         /\ clash' \subseteq clash \cup (Handlers \X {"copy", "tool"})
  <1>. USE DEF TypeOK, Spoil, MayPut, AfterPut, Goto, GotoPart, Return, files, tool, Pushing
  <1>1. CASE Copy(h)
    BY <1>1 DEF Copy, Fetch, CopyPart, CopyEnds, CopyBreaks, Extract
  <1>2. CASE CheckTool(h)
    BY <1>2 DEF CheckTool, Present, CreateToolzip, KeepToolzip, Clashes
  <1>3. CASE DownloadPart(h) \/ DownloadBreaks(h) \/ Truncate(h) \/ UnzipFails(h)
    BY <1>3 DEF DownloadPart, DownloadBreaks, Truncate, UnzipFails
  <1>4. CASE WriteTool(h) \/ WriteToolBreaks(h) \/ RemoveToolzip(h) \/ StartTool(h) \/ ToolEnds(h)
    BY <1>4 DEF WriteTool, WriteToolBreaks, RemoveToolzip, StartTool, ToolEnds
  <1>. QED
    BY <1>1, <1>2, <1>3, <1>4 DEF Build, Tool

-----------------------------------------------------------------------------
LEMMA PartTypes ==
  /\ Blank \in Contents
  /\ \A h \in Handlers : Whole(h) \in Contents /\ Size[h] \in Parts
  /\ Parts \subseteq Nat
  BY SourceStoreAssumption DEF Blank, Whole, Contents, Parts

LEMMA GetsPartsStep ==
  ASSUME TypeOK, GetsParts, NEW h \in Handlers, Step(h)
  PROVE  GetsParts'
  <1>. USE DEF TypeOK, GetsParts, Spoil, MayPut, AfterPut, Goto, GotoPart, Return, ToolParts
  <1>1. pc'[h] = "getting" => pos'[h] \in ToolParts
    <2>1. CASE Put(h)
      BY <2>1 DEF Put, CreateObject, CreateObjectFails, PutPart, PutEnds, PutBreaks
    <2>2. CASE Push(h) \/ Request(h)
      BY <2>2 DEF Push, CreateZip, CreateZipFails, WriteZip, OpenZip, RemoveZip, Request
    <2>3. CASE Copy(h) \/ CheckTool(h)
      BY <2>3 DEF Copy, Fetch, CopyPart, CopyEnds, CopyBreaks, Extract, CheckTool, Present,
                  CreateToolzip, KeepToolzip
    <2>4. CASE DownloadPart(h) \/ DownloadBreaks(h) \/ Truncate(h) \/ UnzipFails(h)
      BY <2>4 DEF DownloadPart, DownloadBreaks, Truncate, UnzipFails
    <2>5. CASE WriteTool(h) \/ WriteToolBreaks(h) \/ RemoveToolzip(h) \/ StartTool(h) \/ ToolEnds(h)
      BY <2>5 DEF WriteTool, WriteToolBreaks, RemoveToolzip, StartTool, ToolEnds
    <2>. QED
      BY <2>1, <2>2, <2>3, <2>4, <2>5 DEF Step, Build, Tool
  <1>. QED
    BY <1>1, Frame

LEMMA TypeStep ==
  ASSUME TypeOK, GetsParts, NEW h \in Handlers, Step(h)
  PROVE  TypeOK'
  <1>. USE PartTypes, SourceStoreAssumption DEF TypeOK, Ended, Spoil, MayPut, AfterPut, Goto,
                                                GotoPart, Return, files, tool, Places
  <1>. DEFINE M == (IF MaxParts > 2 THEN MaxParts ELSE 2) + 1
  <1>0. /\ 1 \in 1 .. M /\ 2 \in 1 .. M /\ 3 \in 1 .. M
        /\ \A i \in 1 .. M : i \in Parts => i + 1 \in 1 .. M
    BY DEF Parts
  <1>1. CASE CreateObject(h)
    BY <1>0, <1>1 DEF CreateObject, Created, Clashes, Others, Pushing
  <1>2. CASE PutPart(h)
    <2>1. pos[h] \in Parts
      BY <1>2 DEF PutPart, AtEnd, Parts
    <2>2. Reading(h)[pos[h]] \in Handlers \cup {None}
      BY <2>1 DEF Reading, ZipOf, Contents
    <2>. QED
      BY <1>0, <1>2, <2>1, <2>2 DEF PutPart, Contents
  <1>3. CASE PutEnds(h) \/ PutBreaks(h)
    BY <1>0, <1>3 DEF PutEnds, PutBreaks, Pushing
  <1>4. CASE CreateZip(h)
    BY <1>0, <1>4 DEF CreateZip, ZipOf, Clashes, OtherPushes, Others, Pushing
  <1>5. CASE WriteZip(h)
    <2>1. pos[h] < Size[h] => pos[h] + 1 \in 1 .. M
      BY DEF Parts
    <2>2. pos' \in [Handlers -> 1 .. M] /\ pc' \in [Handlers -> Places]
      BY <1>0, <1>5, <2>1 DEF WriteZip, Pushing
    <2>3. temp' \in [Projects -> Contents] /\ clash' \subseteq Handlers \X {"put", "copy", "tool"}
      <3>1. CASE temp' = temp
        BY <1>5, <3>1 DEF WriteZip
      <3>2. CASE temp' # temp
        <4>1. temp' = [temp EXCEPT ![project[h]] = [temp[project[h]] EXCEPT ![pos[h]] = h]]
          BY <1>5, <3>2 DEF WriteZip, ZipOf
        <4>2. [temp[project[h]] EXCEPT ![pos[h]] = h] \in Contents
          BY DEF Contents
        <4>3. clash' = clash
          BY <1>5, <3>2 DEF WriteZip
        <4>. QED
          BY <4>1, <4>2, <4>3
      <3>. QED
        BY <3>1, <3>2
    <2>. QED
      BY <1>5, <2>2, <2>3 DEF WriteZip
  <1>6. CASE OpenZip(h) \/ RemoveZip(h) \/ Request(h) \/ CreateZipFails(h) \/ CreateObjectFails(h)
    <2>1. CASE OpenZip(h) \/ CreateZipFails(h) \/ CreateObjectFails(h)
      BY <1>0, <2>1 DEF OpenZip, CreateZipFails, CreateObjectFails, Pushing
    <2>2. CASE RemoveZip(h) \/ Request(h)
      BY <1>0, <2>2 DEF RemoveZip, Request, ZipOf, Pushing
    <2>. QED
      BY <1>6, <2>1, <2>2
  <1>7. CASE Fetch(h)
    BY <1>0, <1>7 DEF Fetch
  <1>8. CASE CopyPart(h)
    <2>1. pos[h] \in Parts
      BY <1>8 DEF CopyPart, AtEnd, Parts
    <2>. QED
      BY <1>0, <1>8, <2>1 DEF CopyPart, Contents
  <1>9. CASE CopyEnds(h) \/ CopyBreaks(h) \/ Extract(h)
    <2>1. CASE CopyEnds(h) \/ CopyBreaks(h)
      BY <1>0, <2>1 DEF CopyEnds, CopyBreaks
    <2>2. CASE Extract(h)
      <3>1. tree' \in [Handlers -> Contents]
        <4>1. CASE pc'[h] = "failed"
          BY <2>2, <4>1 DEF Extract
        <4>2. CASE pc'[h] # "failed"
          <5>1. PICK lost : tree' = [tree EXCEPT ![h] =
                                       [i \in Parts |-> IF i \in lost THEN None ELSE tree[h][i]]]
            BY <2>2, <4>2 DEF Extract
          <5>2. [i \in Parts |-> IF i \in lost THEN None ELSE tree[h][i]] \in Contents
            BY DEF Contents
          <5>. QED
            BY <5>1, <5>2
        <4>. QED
          BY <4>1, <4>2
      <3>2. /\ pc' \in [Handlers -> Places] /\ pos' \in [Handlers -> 1 .. M]
            /\ from' \in [Handlers -> Handlers \cup {None}]
            /\ clash' \subseteq Handlers \X {"put", "copy", "tool"}
        BY <1>0, <2>2 DEF Extract, Ended
      <3>. QED
        BY <2>2, <3>1, <3>2 DEF Extract
    <2>. QED
      BY <1>9, <2>1, <2>2
  <1>10. CASE CheckTool(h)
    BY <1>0, <1>10 DEF CheckTool, Present, CreateToolzip, KeepToolzip, Clashes, Downloading
  <1>11. CASE DownloadPart(h) \/ DownloadBreaks(h)
    <2>1. pos[h] + 1 \in ToolParts => pos[h] + 1 \in 1 .. M
      BY <1>0 DEF ToolParts
    <2>2. pos' \in [Handlers -> 1 .. M] /\ pc' \in [Handlers -> Places]
      BY <1>0, <1>11, <2>1 DEF DownloadPart, DownloadBreaks, Downloading
    <2>3. toolzip' \subseteq ToolParts
      BY <1>11 DEF DownloadPart, DownloadBreaks, ToolParts, GetsParts
    <2>. QED
      BY <1>11, <2>2, <2>3 DEF DownloadPart, DownloadBreaks
  <1>12. CASE \/ Truncate(h) \/ UnzipFails(h) \/ WriteTool(h) \/ WriteToolBreaks(h)
              \/ RemoveToolzip(h)
    BY <1>0, <1>12 DEF Truncate, UnzipFails, WriteTool, WriteToolBreaks, RemoveToolzip, Downloading
  <1>13. CASE StartTool(h) \/ ToolEnds(h)
    BY <1>0, <1>13 DEF StartTool, ToolEnds
  <1>. QED
    BY <1>1, <1>2, <1>3, <1>4, <1>5, <1>6, <1>7, <1>8, <1>9, <1>10, <1>11, <1>12, <1>13
       DEF Step, Put, Push, Build, Copy, Tool

LEMMA KindsStep ==
  ASSUME TypeOK, KindsFit, NEW h \in Handlers, Step(h)
  PROVE  KindsFit'
  <1>. USE DEF TypeOK, KindsFit, Spoil, MayPut, AfterPut, Goto, GotoPart, Return, Pushing
  <1>1. pc'[h] \in Pushing => kind[h] = "push" \/ (kind[h] = "upload" /\ pc'[h] = "putting")
    <2>1. CASE Put(h)
      BY <2>1 DEF Put, CreateObject, CreateObjectFails, PutPart, PutEnds, PutBreaks
    <2>2. CASE Push(h) \/ Request(h)
      BY <2>2 DEF Push, CreateZip, CreateZipFails, WriteZip, OpenZip, RemoveZip, Request
    <2>3. CASE Build(h)
      BY <2>3, BuildPlaces
    <2>. QED
      BY <2>1, <2>2, <2>3 DEF Step
  <1>. QED
    BY <1>1, Frame

\* Parts are copied within a project.
LEMMA PartsStep ==
  ASSUME TypeOK, PartsAtHome, NEW h \in Handlers, Step(h)
  PROVE  PartsAtHome'
  <1>. USE DEF TypeOK, PartsAtHome, Spoil, MayPut, AfterPut, Goto, GotoPart, Return, files, tool,
               Blank
  <1>1. kind' = kind /\ project' = project
    BY Frame
  <1>2. CASE CreateObject(h)
    BY <1>1, <1>2 DEF CreateObject, Created
  <1>3. CASE PutPart(h)
    <2>1. Reading(h)[pos[h]] # None => project[Reading(h)[pos[h]]] = project[h]
      <3>1. pos[h] \in Parts
        BY <1>3, SourceStoreAssumption DEF PutPart, AtEnd, Parts
      <3>. QED
        BY <3>1 DEF Reading, ZipOf, Whole
    <2>2. UNCHANGED <<temp, tree>>
      BY <1>3 DEF PutPart
    <2>3. \A p \in Projects, i \in Parts : store'[p][i] # None => project[store'[p][i]] = p
      BY <1>3, <2>1 DEF PutPart, Contents
    <2>. QED
      BY <1>1, <2>2, <2>3
  <1>4. CASE \/ CreateObjectFails(h) \/ PutEnds(h) \/ PutBreaks(h) \/ CreateZipFails(h)
             \/ OpenZip(h) \/ Request(h)
    BY <1>1, <1>4 DEF CreateObjectFails, PutEnds, PutBreaks, CreateZipFails, OpenZip, Request
  <1>5. CASE CreateZip(h) \/ RemoveZip(h)
    BY <1>1, <1>5 DEF CreateZip, RemoveZip, ZipOf
  <1>6. CASE WriteZip(h)
    <2>1. CASE temp' = temp
      BY <1>1, <1>6, <2>1 DEF WriteZip
    <2>2. CASE temp' # temp
      <3>1. temp' = [temp EXCEPT ![project[h]] = [temp[project[h]] EXCEPT ![pos[h]] = h]]
        BY <1>6, <2>2 DEF WriteZip, ZipOf
      <3>2. UNCHANGED <<store, tree>>
        BY <1>6 DEF WriteZip
      <3>3. ASSUME NEW p \in Projects, NEW i \in Parts, temp'[p][i] # None
            PROVE  project[temp'[p][i]] = p
        BY <3>1, <3>3 DEF Contents
      <3>. QED
        BY <1>1, <3>2, <3>3
    <2>. QED
      BY <2>1, <2>2
  <1>7. CASE CopyPart(h)
    BY <1>1, <1>7 DEF CopyPart, Contents
  <1>8. CASE Fetch(h) \/ CopyEnds(h) \/ CopyBreaks(h)
    BY <1>1, <1>8 DEF Fetch, CopyEnds, CopyBreaks
  <1>11. CASE Extract(h)
    <2>1. UNCHANGED <<temp, store>>
      BY <1>11 DEF Extract
    <2>2. \A i \in Parts : tree'[h][i] # None => tree'[h][i] = tree[h][i]
      BY <1>11 DEF Extract, Contents
    <2>3. \A g \in Handlers \ {h} : tree'[g] = tree[g]
      BY Frame
    <2>. QED
      BY <1>1, <2>1, <2>2, <2>3
  <1>9. CASE CheckTool(h) \/ DownloadPart(h) \/ DownloadBreaks(h) \/ Truncate(h) \/ UnzipFails(h)
    BY <1>1, <1>9 DEF CheckTool, Present, CreateToolzip, KeepToolzip, DownloadPart,
                      DownloadBreaks, Truncate, UnzipFails
  <1>10. CASE WriteTool(h) \/ WriteToolBreaks(h) \/ RemoveToolzip(h) \/ StartTool(h) \/ ToolEnds(h)
    BY <1>1, <1>10 DEF WriteTool, WriteToolBreaks, RemoveToolzip, StartTool, ToolEnds
  <1>. QED
    BY <1>2, <1>3, <1>4, <1>5, <1>6, <1>7, <1>8, <1>9, <1>10, <1>11
       DEF Step, Put, Push, Build, Copy, Tool

-----------------------------------------------------------------------------
\* The zip of a push

LEMMA ZipAloneStep ==
  ASSUME TypeOK, KindsFit, ZipAlone, NEW h \in Handlers, Step(h)
  PROVE  ZipAlone'
  <1>. SUFFICES ASSUME NEW g \in Handlers, NEW k \in Handlers, g # k,
                       project[g] = project[k], Undisturbed(k, "put")',
                       kind[g] = "push", kind[k] = "push",
                       pc'[g] = "zipping", pc'[k] \in Pushing
                PROVE  FALSE
    BY Frame DEF ZipAlone
  <1>0. ~(pc[g] = "zipping" /\ pc[k] \in Pushing)
    BY Frame DEF ZipAlone, Undisturbed
  <1>1. CASE CreateZip(h)
    <2>1. \A e \in OtherPushes(h) : <<e, "put">> \in clash' /\ <<h, "put">> \in clash'
      BY <1>1 DEF CreateZip, Clashes
    <2>2. pc[g] = "zipping" => pc[g] \in Pushing
      BY DEF Pushing
    <2>3. CASE g = h
      BY <2>1, <2>3, Frame DEF OtherPushes, Others, Undisturbed
    <2>4. CASE k = h
      BY <2>1, <2>2, <2>4, Frame DEF OtherPushes, Others, Undisturbed
    <2>5. CASE g # h /\ k # h
      BY <1>0, <2>5, Frame
    <2>. QED
      BY <2>3, <2>4, <2>5
  <1>2. CASE CreateZipFails(h)
    <2>1. <<h, "put">> \in clash' /\ pc'[h] = "zipped"
      BY <1>2 DEF CreateZipFails, Spoil, Goto, TypeOK
    <2>. QED
      BY <1>0, <2>1, Frame DEF Undisturbed
  <1>3. CASE ~CreateZip(h) /\ ~CreateZipFails(h)
    <2>1. /\ pc'[h] = "zipping" => pc[h] = "zipping"
          /\ kind[h] = "push" /\ pc'[h] \in Pushing => pc[h] \in Pushing
      <3>. USE DEF TypeOK, MayPut, AfterPut, Goto, GotoPart, Pushing
      <3>1. CASE Put(h)
        BY <3>1 DEF Put, CreateObject, CreateObjectFails, PutPart, PutEnds, PutBreaks
      <3>2. CASE Push(h) \/ Request(h)
        BY <1>3, <3>2 DEF Push, WriteZip, OpenZip, RemoveZip, Request
      <3>3. CASE Build(h)
        BY <3>3, BuildPlaces
      <3>. QED
        BY <3>1, <3>2, <3>3 DEF Step
    <2>. QED
      BY <1>0, <2>1, Frame
  <1>. QED
    BY <1>1, <1>2, <1>3

\* The parts a push has written, and the one it writes next.
LEMMA PrefixFacts ==
  ASSUME NEW v \in Handlers
  PROVE  /\ Prefix(v, 1) = Blank
         /\ \A n \in Parts : n <= Size[v] => [Prefix(v, n) EXCEPT ![n] = v] = Prefix(v, n + 1)
         /\ Prefix(v, Size[v] + 1) = Whole(v)
         /\ \A n \in Nat \ {0} : AtEnd(Whole(v), n) <=> n > Size[v]
  <1>. USE SourceStoreAssumption DEF Parts, Prefix
  <1>1. Prefix(v, 1) = Blank
    BY DEF Blank
  <1>2. ASSUME NEW n \in Parts, n <= Size[v]
        PROVE  [Prefix(v, n) EXCEPT ![n] = v] = Prefix(v, n + 1)
    <2>1. \A i \in Parts : i < n + 1 <=> i < n \/ i = n
      OBVIOUS
    <2>2. ASSUME NEW i \in Parts
          PROVE  [Prefix(v, n) EXCEPT ![n] = v][i] = Prefix(v, n + 1)[i]
      BY <1>2, <2>1
    <2>. QED
      BY <2>2
  <1>3. Prefix(v, Size[v] + 1) = Whole(v)
    BY DEF Whole
  <1>4. ASSUME NEW n \in Nat \ {0} PROVE AtEnd(Whole(v), n) <=> n > Size[v]
    BY DEF AtEnd, Whole
  <1>. QED
    BY <1>1, <1>2, <1>3, <1>4

\* What holds of the zip of push h.
ZipOfPush(h) ==
  LET p == project[h] IN
  /\ pc[h] = "zipping" => p \in zipped /\ pos[h] <= Size[h] /\ temp[p] = Prefix(h, pos[h])
  /\ pc[h] = "zipped" /\ p \in zipped => temp[p] = Whole(h)
  /\ pc[h] \in {"opened", "putting"} => temp[p] = Whole(h)
  /\ pc[h] # "blind"

\* The handler's own step ...
LEMMA ZipOwnStep ==
  ASSUME TypeOK, NEW h \in Handlers, Step(h), kind[h] = "push", ZipOfPush(h),
         Undisturbed(h, "put")'
  PROVE  ZipOfPush(h)'
  <1>. USE DEF TypeOK, Spoil, MayPut, AfterPut, Goto, GotoPart, files, tool
  <1>1. CASE CreateZip(h)
    <2>1. temp'[project[h]] = Prefix(h, 1) /\ project[h] \in zipped' /\ pos'[h] = 1
      BY <1>1, PrefixFacts DEF CreateZip, ZipOf
    <2>2. pc'[h] = "zipping" /\ project' = project
      BY <1>1 DEF CreateZip
    <2>3. 1 <= Size[h]
      BY SourceStoreAssumption DEF Parts
    <2>. QED
      BY <2>1, <2>2, <2>3 DEF ZipOfPush
  <1>2. CASE WriteZip(h)
    <2>1. /\ project[h] \in zipped /\ pos[h] <= Size[h]
          /\ temp[project[h]] = Prefix(h, pos[h]) /\ pos[h] \in Parts
          /\ Size[h] \in Nat
      BY <1>2, SourceStoreAssumption DEF WriteZip, ZipOfPush, Parts
    <2>2. temp'[project[h]] = Prefix(h, pos[h] + 1)
      <3>1. temp'[project[h]] = [temp[project[h]] EXCEPT ![pos[h]] = h]
        BY <1>2 DEF WriteZip, ZipOf, Undisturbed
      <3>. QED
        BY <2>1, <3>1, PrefixFacts
    <2>3. CASE pos[h] < Size[h]
      BY <1>2, <2>1, <2>2, <2>3 DEF WriteZip, ZipOfPush, Parts
    <2>4. CASE pos[h] = Size[h]
      BY <1>2, <2>1, <2>2, <2>4, PrefixFacts DEF WriteZip, ZipOfPush
    <2>. QED
      BY <2>1, <2>3, <2>4 DEF Parts
  <1>3. CASE CreateZipFails(h) \/ OpenZip(h) \/ RemoveZip(h) \/ Request(h)
    BY <1>3 DEF CreateZipFails, OpenZip, RemoveZip, Request, ZipOf, ZipOfPush, Undisturbed
  <1>4. CASE Put(h)
    BY <1>4 DEF Put, CreateObject, CreateObjectFails, PutPart, PutEnds, PutBreaks, ZipOfPush
  <1>5. CASE Build(h)
    BY <1>5, BuildPlaces DEF ZipOfPush, Pushing
  <1>. QED
    BY <1>1, <1>2, <1>3, <1>4, <1>5 DEF Step, Push

\* ... and the steps of others, of whom none writes the zip.
LEMMA ZipStep ==
  ASSUME TypeOK, KindsFit, ZipAlone, ZipIsPrefix, NEW h \in Handlers, Step(h)
  PROVE  ZipIsPrefix'
  <1>. SUFFICES ASSUME NEW g \in Handlers, kind[g] = "push", Undisturbed(g, "put")'
                PROVE  ZipOfPush(g)'
    BY Frame DEF ZipIsPrefix, ZipOfPush
  <1>1. Undisturbed(g, "put") /\ ZipOfPush(g)
    BY Frame DEF Undisturbed, ZipIsPrefix, ZipOfPush
  <1>2. CASE g = h
    BY <1>1, <1>2, ZipOwnStep
  <1>3. CASE g # h
    <2>1. /\ pc'[g] = pc[g] /\ pos'[g] = pos[g] /\ project' = project
          /\ project[g] \in Projects
      BY <1>3, Frame DEF TypeOK
    <2>2. CASE pc[g] \notin Pushing
      BY <2>1, <2>2 DEF ZipOfPush, Pushing
    <2>3. CASE pc[g] \in Pushing
      <3>1. \/ /\ temp'[project[g]] = temp[project[g]]
               /\ project[g] \in zipped <=> project[g] \in zipped'
            \/ pc[g] \notin Holding /\ project[g] \notin zipped'
        <4>1. CASE CreateZip(h) /\ project[h] = project[g]
          <5>1. g \in OtherPushes(h)
            BY <1>3, <2>3, <4>1 DEF OtherPushes, Others
          <5>. QED
            BY <4>1, <5>1 DEF CreateZip, Clashes, Undisturbed
        <4>2. CASE WriteZip(h) /\ project[h] = project[g]
          <5>1. pc[h] = "zipping" /\ kind[h] = "push"
            BY <4>2 DEF WriteZip, Pushing, KindsFit
          <5>. QED
            BY <1>1, <1>3, <2>3, <4>2, <5>1 DEF ZipAlone
        <4>3. CASE RemoveZip(h) /\ project[h] = project[g]
          BY <1>3, <2>1, <4>3 DEF RemoveZip, ZipOf, TypeOK
        <4>4. CASE Push(h) /\ project[h] # project[g]
          BY <2>1, <4>4 DEF Push, CreateZip, CreateZipFails, WriteZip, OpenZip, RemoveZip, ZipOf,
                            files, TypeOK
        <4>5. CASE CreateZipFails(h) \/ OpenZip(h) \/ Request(h) \/ Put(h)
          BY <4>5 DEF CreateZipFails, OpenZip, Request, Put, CreateObject, CreateObjectFails,
                      PutPart, PutEnds, PutBreaks, files
        <4>6. CASE Build(h)
          BY <4>6, BuildPlaces DEF files
        <4>. QED
          BY <4>1, <4>2, <4>3, <4>4, <4>5, <4>6 DEF Step, Push
      <3>. QED
        BY <1>1, <2>1, <3>1 DEF ZipOfPush, Holding
    <2>. QED
      BY <2>2, <2>3
  <1>. QED
    BY <1>2, <1>3

-----------------------------------------------------------------------------
\* The archive in the store

\* Only CreateObject starts to put, and says so.
LEMMA OthersDoNotPut ==
  ASSUME TypeOK, NEW h \in Handlers, Step(h), ~CreateObject(h)
  PROVE  last' = last /\ (pc'[h] = "putting" => pc[h] = "putting")
  <1>. USE DEF TypeOK, Spoil, MayPut, AfterPut, Goto, GotoPart
  <1>1. CASE Put(h)
    BY <1>1 DEF Put, CreateObjectFails, PutPart, PutEnds, PutBreaks
  <1>2. CASE Push(h) \/ Request(h)
    BY <1>2 DEF Push, CreateZip, CreateZipFails, WriteZip, OpenZip, RemoveZip, Request
  <1>3. CASE Build(h)
    BY <1>3, BuildPlaces DEF Pushing
  <1>. QED
    BY <1>1, <1>2, <1>3 DEF Step

\* What CreateObject says: who is putting, or copying, is disturbed.
LEMMA CreateDisturbs ==
  ASSUME TypeOK, NEW h \in Handlers, CreateObject(h)
  PROVE  /\ \A g \in Handlers \ {h} : project[g] = project[h] /\ pc[g] = "putting"
              => ~Undisturbed(g, "put")' /\ ~Undisturbed(h, "put")'
         /\ \A g \in Handlers \ {h} : project[g] = project[h] /\ pc[g] = "copying"
              => ~Undisturbed(g, "copy")'
         /\ last' = [last EXCEPT ![project[h]] = h]
         /\ pc[h] # "copying"
  BY DEF CreateObject, MayPut, Clashes, Others, Undisturbed, Goto, GotoPart

LEMMA PutAloneStep ==
  ASSUME TypeOK, PutAlone, NEW h \in Handlers, Step(h)
  PROVE  PutAlone'
  <1>. SUFFICES ASSUME NEW g \in Handlers, NEW k \in Handlers, g # k,
                       project[g] = project[k], Undisturbed(k, "put")',
                       last'[project[k]] = k, pc'[g] = "putting"
                PROVE  FALSE
    BY Frame DEF PutAlone
  <1>0. Undisturbed(k, "put") /\ project[k] \in Projects
    BY Frame DEF Undisturbed, TypeOK
  <1>1. CASE CreateObject(h)
    <2>1. CASE project[h] = project[k]
      <3>1. h = k
        BY <1>0, <1>1, <2>1, CreateDisturbs DEF TypeOK
      <3>2. pc[g] = "putting"
        BY <3>1, Frame
      <3>. QED
        BY <1>1, <3>1, <3>2, CreateDisturbs
    <2>2. CASE project[h] # project[k]
      <3>1. last[project[k]] = k /\ pc[g] = "putting"
        BY <1>0, <1>1, <2>2, CreateDisturbs, Frame DEF TypeOK
      <3>. QED
        BY <1>0, <3>1 DEF PutAlone
    <2>. QED
      BY <2>1, <2>2
  <1>2. CASE ~CreateObject(h)
    <2>1. last[project[k]] = k /\ pc[g] = "putting"
      BY <1>2, OthersDoNotPut, Frame
    <2>. QED
      BY <1>0, <2>1 DEF PutAlone
  <1>. QED
    BY <1>1, <1>2

LEMMA LastStep ==
  ASSUME TypeOK, LastIsKnown, NEW h \in Handlers, Step(h)
  PROVE  LastIsKnown'
  <1>1. CASE CreateObject(h)
    BY <1>1, SourceStoreAssumption DEF CreateObject, LastIsKnown, TypeOK
  <1>2. CASE ~CreateObject(h)
    <2>1. stored' = stored
      <3>1. CASE Put(h) \/ Push(h) \/ Request(h)
        BY <1>2, <3>1 DEF Put, CreateObjectFails, PutPart, PutEnds, PutBreaks, Push, CreateZip,
                          CreateZipFails, WriteZip,
                          OpenZip, RemoveZip, Request, files
      <3>2. CASE Build(h)
        BY <3>2, BuildPlaces DEF files
      <3>. QED
        BY <3>1, <3>2 DEF Step
    <2>. QED
      BY <1>2, <2>1, OthersDoNotPut, Frame DEF LastIsKnown
  <1>. QED
    BY <1>1, <1>2

\* What holds of the store for handler k.
StoreOf(k) ==
  LET p == project[k] IN
  /\ pc[k] = "putting" => last[p] = k /\ pos[k] <= Size[k] + 1 /\ store[p] = Prefix(k, pos[k])
  /\ last[p] = k /\ pc[k] # "putting" => store[p] = Whole(k)

\* An undisturbed handler puts its whole archive.
LEMMA ReadsWhole ==
  ASSUME KindsFit, ZipIsPrefix, NEW k \in Handlers, Undisturbed(k, "put"), pc[k] = "putting"
  PROVE  Reading(k) = Whole(k)
  <1>1. CASE kind[k] = "upload"
    BY <1>1 DEF Reading
  <1>2. CASE kind[k] = "push"
    BY <1>2 DEF Reading, ZipOf, ZipIsPrefix
  <1>. QED
    BY <1>1, <1>2 DEF KindsFit, Pushing

LEMMA StoreOwnStep ==
  ASSUME TypeOK, KindsFit, ZipIsPrefix, NEW k \in Handlers, Step(k),
         StoreOf(k), Undisturbed(k, "put"), Undisturbed(k, "put")'
  PROVE  StoreOf(k)'
  <1>. USE DEF TypeOK, Spoil, MayPut, AfterPut, Goto, GotoPart
  <1>0. Size[k] \in Nat /\ Size[k] >= 1 /\ pos[k] \in Nat \ {0} /\ project[k] \in Projects
    BY SourceStoreAssumption DEF Parts
  <1>1. CASE CreateObject(k)
    <2>1. pc[k] # "blind"
      BY DEF KindsFit, ZipIsPrefix, Pushing
    <2>2. /\ last'[project[k]] = k /\ pos'[k] = 1 /\ pc'[k] = "putting"
          /\ store'[project[k]] = Blank /\ project' = project
      BY <1>0, <1>1, <2>1 DEF CreateObject, Created
    <2>. QED
      BY <1>0, <2>2, PrefixFacts DEF StoreOf
  <1>2. CASE PutPart(k)
    <2>1. pos[k] <= Size[k]
      BY <1>0, <1>2, ReadsWhole, PrefixFacts DEF PutPart
    <2>2. pos[k] \in Parts /\ Reading(k)[pos[k]] = k
      <3>1. pos[k] \in Parts
        BY <1>0, <2>1, SourceStoreAssumption DEF Parts
      <3>2. Reading(k) = Whole(k)
        BY <1>2, ReadsWhole DEF PutPart
      <3>. QED
        BY <2>1, <3>1, <3>2 DEF Whole
    <2>3. store'[project[k]] = Prefix(k, pos[k] + 1)
      BY <1>0, <1>2, <2>1, <2>2, PrefixFacts DEF PutPart, StoreOf
    <2>4. /\ last' = last /\ pos'[k] = pos[k] + 1 /\ pc'[k] = "putting" /\ project' = project
          /\ last[project[k]] = k
      BY <1>2 DEF PutPart, StoreOf
    <2>. QED
      BY <1>0, <2>1, <2>3, <2>4 DEF StoreOf
  <1>3. CASE PutEnds(k)
    <2>1. pos[k] = Size[k] + 1
      BY <1>0, <1>3, ReadsWhole, PrefixFacts DEF PutEnds, StoreOf
    <2>2. store'[project[k]] = Whole(k) /\ project' = project /\ pc'[k] # "putting"
      BY <1>3, <2>1, PrefixFacts DEF PutEnds, StoreOf, files
    <2>. QED
      BY <2>2 DEF StoreOf
  <1>4. CASE PutBreaks(k)
    BY <1>4 DEF PutBreaks, Undisturbed
  <1>7. CASE CreateObjectFails(k)
    BY <1>7 DEF CreateObjectFails, MayPut, AfterPut, StoreOf, files
  <1>5. CASE Push(k) \/ Request(k)
    <2>1. /\ pc[k] # "putting" /\ pc'[k] # "putting"
          /\ UNCHANGED <<store, last, project>>
      BY <1>5 DEF Push, CreateZip, CreateZipFails, WriteZip, OpenZip, RemoveZip, Request, files
    <2>. QED
      BY <2>1 DEF StoreOf
  <1>6. CASE Build(k)
    BY <1>6, BuildPlaces, Frame DEF StoreOf, files, Pushing
  <1>. QED
    BY <1>1, <1>2, <1>3, <1>4, <1>5, <1>6, <1>7 DEF Step, Put

LEMMA StoreStep ==
  ASSUME TypeOK, KindsFit, ZipIsPrefix, PutAlone, StoreIsPrefix, NEW h \in Handlers, Step(h)
  PROVE  StoreIsPrefix'
  <1>. SUFFICES ASSUME NEW k \in Handlers, Undisturbed(k, "put")' PROVE StoreOf(k)'
    BY DEF StoreIsPrefix, StoreOf
  <1>1. Undisturbed(k, "put") /\ StoreOf(k) /\ project[k] \in Projects
    BY Frame DEF Undisturbed, StoreIsPrefix, StoreOf, TypeOK
  <1>2. CASE k = h
    BY <1>1, <1>2, StoreOwnStep
  <1>3. CASE k # h
    <2>1. pc'[k] = pc[k] /\ pos'[k] = pos[k] /\ project' = project
      BY <1>3, Frame
    <2>2. CASE CreateObject(h) /\ project[h] = project[k]
      <3>1. pc[k] # "putting" /\ last'[project[k]] = h
        BY <1>1, <1>3, <2>2, CreateDisturbs DEF TypeOK
      <3>. QED
        BY <1>3, <2>1, <3>1 DEF StoreOf
    <2>3. CASE PutPart(h) /\ project[h] = project[k]
      <3>1. pc[h] = "putting" /\ last' = last
        BY <2>3 DEF PutPart
      <3>2. last[project[k]] # k
        BY <1>1, <1>3, <2>3, <3>1 DEF PutAlone
      <3>. QED
        BY <1>1, <2>1, <3>1, <3>2 DEF StoreOf
    <2>4. CASE (CreateObject(h) \/ PutPart(h)) /\ project[h] # project[k]
      <3>1. store'[project[k]] = store[project[k]] /\ last'[project[k]] = last[project[k]]
        BY <1>1, <2>4 DEF CreateObject, PutPart, TypeOK
      <3>. QED
        BY <1>1, <2>1, <3>1 DEF StoreOf
    <2>5. CASE ~CreateObject(h) /\ ~PutPart(h)
      <3>1. store' = store /\ last' = last
        <4>1. CASE Put(h) \/ Push(h) \/ Request(h)
          BY <2>5, <4>1 DEF Put, CreateObjectFails, PutEnds, PutBreaks, Push, CreateZip,
                            CreateZipFails, WriteZip, OpenZip,
                            RemoveZip, Request, files
        <4>2. CASE Build(h)
          BY <4>2, BuildPlaces DEF files
        <4>. QED
          BY <4>1, <4>2 DEF Step
      <3>. QED
        BY <1>1, <2>1, <3>1 DEF StoreOf
    <2>. QED
      BY <2>2, <2>3, <2>4, <2>5
  <1>. QED
    BY <1>2, <1>3

-----------------------------------------------------------------------------
\* The archive a build copies

LEMMA CopyAloneStep ==
  ASSUME TypeOK, CopyAlone, NEW h \in Handlers, Step(h)
  PROVE  CopyAlone'
  <1>. SUFFICES ASSUME NEW b \in Handlers, pc'[b] = "copying", Undisturbed(b, "copy")'
                PROVE  /\ last'[project[b]] = from'[b]
                       /\ \A g \in Handlers : project[g] = project[b] => pc'[g] # "putting"
    BY Frame DEF CopyAlone
  <1>0. Undisturbed(b, "copy") /\ project[b] \in Projects
    BY Frame DEF Undisturbed, TypeOK
  <1>1. CASE Fetch(b) /\ h = b
    <2>1. Others(b, {"putting"}) = {} /\ last'[project[b]] = from'[b]
      BY <1>1 DEF Fetch, Return, Goto, GotoPart, TypeOK, Undisturbed
    <2>. QED
      BY <1>1, <2>1, Frame DEF Others
  <1>2. CASE CreateObject(h)
    <2>1. CASE h = b
      BY <1>2, <2>1 DEF CreateObject, Goto, GotoPart, TypeOK
    <2>2. CASE h # b
      <3>1. pc[b] = "copying" /\ from'[b] = from[b]
        BY <2>2, Frame
      <3>2. project[h] # project[b]
        BY <1>2, <2>2, <3>1, CreateDisturbs
      <3>3. last'[project[b]] = last[project[b]]
        BY <1>0, <1>2, <3>2, CreateDisturbs DEF TypeOK
      <3>. QED
        BY <1>0, <3>1, <3>2, <3>3, Frame DEF CopyAlone
    <2>. QED
      BY <2>1, <2>2
  <1>3. CASE ~CreateObject(h) /\ ~(Fetch(b) /\ h = b)
    <2>1. pc[b] = "copying" /\ from'[b] = from[b]
      <3>1. CASE h # b
        BY <3>1, Frame
      <3>2. CASE h = b
        <4>. USE DEF TypeOK, Spoil, MayPut, AfterPut, Goto, GotoPart, Return
        <4>1. CASE Put(b) \/ Push(b) \/ Request(b)
          BY <1>3, <3>2, <4>1 DEF Put, CreateObjectFails, PutPart, PutEnds, PutBreaks, Push,
                                  CreateZip, CreateZipFails, WriteZip,
                                  OpenZip, RemoveZip, Request
        <4>2. CASE Copy(b)
          BY <1>3, <3>2, <4>2 DEF Copy, CopyPart, CopyEnds, CopyBreaks, Extract
        <4>3. CASE CheckTool(b) \/ DownloadPart(b) \/ DownloadBreaks(b) \/ Truncate(b)
                   \/ UnzipFails(b)
          BY <3>2, <4>3 DEF CheckTool, Present, CreateToolzip, KeepToolzip, DownloadPart,
                            DownloadBreaks, Truncate, UnzipFails
        <4>4. CASE WriteTool(b) \/ WriteToolBreaks(b) \/ RemoveToolzip(b) \/ StartTool(b) \/ ToolEnds(b)
          BY <3>2, <4>4 DEF WriteTool, WriteToolBreaks, RemoveToolzip, StartTool, ToolEnds
        <4>. QED
          BY <1>3, <3>2, <4>1, <4>2, <4>3, <4>4 DEF Step, Build, Tool
      <3>. QED
        BY <3>1, <3>2
    <2>. QED
      BY <1>0, <1>3, <2>1, OthersDoNotPut, Frame DEF CopyAlone
  <1>. QED
    BY <1>1, <1>2, <1>3

\* What holds of the copy of build b.
TreeOf(b) ==
  /\ pc[b] \in AtWork => from[b] \in Handlers
  /\ pc[b] \notin AtWork => tree[b] = Blank
  /\ pc[b] = "copying" /\ Undisturbed(b, "copy") /\ Undisturbed(from[b], "put")
       => pos[b] <= Size[from[b]] + 1 /\ tree[b] = Prefix(from[b], pos[b])
  /\ pc[b] \in Copied /\ Undisturbed(b, "copy") /\ Undisturbed(from[b], "put")
       => tree[b] = Whole(from[b])

\* An undisturbed build reads from a whole archive.
LEMMA CopiesWhole ==
  ASSUME TypeOK, StoreIsPrefix, LastIsKnown, CopyAlone, NEW b \in Handlers,
         pc[b] = "copying", from[b] \in Handlers,
         Undisturbed(b, "copy"), Undisturbed(from[b], "put")
  PROVE  store[project[b]] = Whole(from[b])
  <1>1. project[b] \in Projects
    BY DEF TypeOK
  <1>2. last[project[b]] = from[b]
    BY DEF CopyAlone
  <1>3. project[from[b]] = project[b]
    BY <1>1, <1>2, SourceStoreAssumption DEF LastIsKnown
  <1>4. pc[from[b]] # "putting"
    BY <1>3 DEF CopyAlone
  <1>. QED
    BY <1>2, <1>3, <1>4 DEF StoreIsPrefix

LEMMA CopyStep ==
  ASSUME TypeOK, StoreIsPrefix, LastIsKnown, CopyAlone, NEW b \in Handlers,
         TreeOf(b), CopyPart(b) \/ CopyEnds(b)
  PROVE  TreeOf(b)'
  <1>. USE DEF TypeOK, Spoil, MayPut, AfterPut, Goto, GotoPart
  <1>1. pc[b] = "copying" /\ from[b] \in Handlers /\ from' = from /\ clash' = clash
    BY DEF CopyPart, CopyEnds, TreeOf, AtWork
  <1>2. pos[b] \in Nat \ {0} /\ Size[from[b]] \in Nat /\ Size[from[b]] <= MaxParts
    BY <1>1, SourceStoreAssumption DEF Parts
  <1>3. CASE ~(Undisturbed(b, "copy") /\ Undisturbed(from[b], "put"))
    BY <1>1, <1>3 DEF CopyPart, CopyEnds, TreeOf, AtWork, Copied, Undisturbed
  <1>4. CASE Undisturbed(b, "copy") /\ Undisturbed(from[b], "put")
    <2>1. store[project[b]] = Whole(from[b])
      BY <1>1, <1>4, CopiesWhole
    <2>2. pos[b] <= Size[from[b]] + 1 /\ tree[b] = Prefix(from[b], pos[b])
      BY <1>1, <1>4 DEF TreeOf
    <2>3. AtEnd(store[project[b]], pos[b]) <=> pos[b] > Size[from[b]]
      BY <1>1, <1>2, <2>1, PrefixFacts
    <2>4. CASE CopyPart(b)
      <3>1. pos[b] <= Size[from[b]] /\ pos[b] \in Parts
        BY <1>2, <2>3, <2>4, SourceStoreAssumption DEF CopyPart, Parts
      <3>2. store[project[b]][pos[b]] = from[b]
        BY <2>1, <3>1 DEF Whole
      <3>3. tree'[b] = Prefix(from[b], pos[b] + 1)
        BY <1>1, <2>2, <2>4, <3>1, <3>2, PrefixFacts DEF CopyPart
      <3>4. pos'[b] = pos[b] + 1 /\ pc'[b] = "copying"
        BY <2>4 DEF CopyPart
      <3>. QED
        BY <1>1, <1>2, <3>1, <3>3, <3>4 DEF TreeOf, AtWork, Copied, Downloading
    <2>5. CASE CopyEnds(b)
      <3>1. pos[b] = Size[from[b]] + 1
        BY <1>2, <2>2, <2>3, <2>5 DEF CopyEnds
      <3>2. tree'[b] = Whole(from[b]) /\ pc'[b] = "extracting"
        BY <1>1, <2>2, <2>5, <3>1, PrefixFacts DEF CopyEnds
      <3>. QED
        BY <1>1, <3>2 DEF TreeOf, AtWork, Copied
    <2>. QED
      BY <2>4, <2>5
  <1>. QED
    BY <1>3, <1>4

LEMMA TreeStep ==
  ASSUME TypeOK, StoreIsPrefix, LastIsKnown, CopyAlone, TreeIsPrefix, NEW h \in Handlers, Step(h)
  PROVE  TreeIsPrefix'
  <1>. SUFFICES ASSUME NEW b \in Handlers PROVE TreeOf(b)'
    BY DEF TreeIsPrefix, TreeOf
  <1>0. TreeOf(b)
    BY DEF TreeIsPrefix, TreeOf
  <1>1. CASE b # h
    BY <1>0, <1>1, Frame DEF TreeOf, Undisturbed
  <1>2. CASE b = h
    <2>. USE DEF TypeOK, Spoil, MayPut, AfterPut, Goto, GotoPart, Return
    <2>1. CASE Put(b) \/ Push(b) \/ Request(b)
      <3>1. pc[b] \notin AtWork /\ pc'[b] \notin AtWork /\ tree' = tree
        BY <2>1 DEF Put, CreateObject, CreateObjectFails, PutPart, PutEnds, PutBreaks, Push,
                    CreateZip, CreateZipFails, WriteZip,
                    OpenZip, RemoveZip, Request, AtWork, Copied, Downloading
      <3>. QED
        BY <1>0, <3>1 DEF TreeOf, AtWork
    <2>2. CASE Fetch(b)
      <3>1. tree[b] = Blank /\ pc[b] \notin AtWork
        BY <1>0, <2>2 DEF Fetch, TreeOf, AtWork, Copied, Downloading
      <3>2. CASE pc'[b] = "copying"
        <4>1. /\ pos'[b] = 1 /\ tree' = tree /\ project[b] \in stored
              /\ from'[b] = last[project[b]]
          BY <2>2, <3>2 DEF Fetch
        <4>2. from'[b] \in Handlers
          BY <4>1, SourceStoreAssumption DEF LastIsKnown
        <4>3. 1 <= Size[from'[b]] + 1
          BY <4>2, SourceStoreAssumption DEF Parts
        <4>. QED
          BY <3>1, <3>2, <4>1, <4>2, <4>3, PrefixFacts DEF TreeOf, AtWork, Copied, Downloading
      <3>3. CASE pc'[b] # "copying"
        BY <2>2, <3>3 DEF Fetch, TreeOf, AtWork, Copied, Downloading
      <3>. QED
        BY <3>2, <3>3
    <2>3. CASE CopyPart(b) \/ CopyEnds(b)
      BY <1>0, <2>3, CopyStep
    <2>5. CASE CopyBreaks(b)
      <3>1. /\ from[b] \in Handlers /\ from' = from /\ pc'[b] = "extracting"
            /\ ~Undisturbed(b, "copy")'
        BY <1>0, <2>5 DEF CopyBreaks, TreeOf, AtWork, Undisturbed
      <3>. QED
        BY <3>1 DEF TreeOf, AtWork, Copied
    <2>4. CASE Extract(b) \/ Tool(b)
      <3>1. /\ pc[b] \in Copied
            /\ \/ /\ pc'[b] \in Copied /\ from' = from
                  /\ tree'[b] = tree[b] \/ ~Undisturbed(b, "copy")'
               \/ pc'[b] \notin AtWork /\ tree'[b] = Blank
        <4>. USE DEF AtWork, Copied, Downloading
        <4>1. CASE Extract(b)
          <5>1. CASE pc'[b] = "failed"
            BY <4>1, <5>1 DEF Extract
          <5>2. CASE pc'[b] # "failed" /\ Undisturbed(b, "copy")'
            <6>1. tree' = [tree EXCEPT ![b] = [i \in Parts |-> IF i \in {} THEN None ELSE tree[b][i]]]
              BY <4>1, <5>2 DEF Extract, Undisturbed
            <6>2. tree[b] = [i \in Parts |-> tree[b][i]]
              BY DEF Contents
            <6>. QED
              BY <4>1, <5>2, <6>1, <6>2 DEF Extract
          <5>3. CASE pc'[b] # "failed" /\ ~Undisturbed(b, "copy")'
            BY <4>1, <5>3 DEF Extract
          <5>. QED
            BY <5>1, <5>2, <5>3
        <4>2. CASE CheckTool(b)
          BY <4>2 DEF CheckTool, Present, CreateToolzip, KeepToolzip
        <4>3. CASE DownloadPart(b) \/ DownloadBreaks(b) \/ Truncate(b) \/ UnzipFails(b)
          BY <4>3 DEF DownloadPart, DownloadBreaks, Truncate, UnzipFails
        <4>4. CASE WriteTool(b) \/ WriteToolBreaks(b) \/ RemoveToolzip(b) \/ StartTool(b) \/ ToolEnds(b)
          BY <4>4 DEF WriteTool, WriteToolBreaks, RemoveToolzip, StartTool, ToolEnds
        <4>. QED
          BY <2>4, <4>1, <4>2, <4>3, <4>4 DEF Tool
      <3>2. Undisturbed(b, "copy")' => Undisturbed(b, "copy")
        BY Frame DEF Undisturbed
      <3>3. from' = from => (Undisturbed(from[b], "put")' => Undisturbed(from[b], "put"))
        BY Frame DEF Undisturbed
      <3>. QED
        BY <1>0, <3>1, <3>2, <3>3 DEF TreeOf, AtWork, Copied, Downloading
    <2>. QED
      BY <1>2, <2>1, <2>2, <2>3, <2>4, <2>5 DEF Step, Build, Copy
  <1>. QED
    BY <1>1, <1>2

-----------------------------------------------------------------------------
\* nixpacks.exe

\* A handler that is not building, or not yet, has no part in the tool.
LEMMA OthersLeaveTool ==
  ASSUME TypeOK, NEW h \in Handlers,
         Put(h) \/ Push(h) \/ Request(h) \/ Copy(h) \/ StartTool(h) \/ ToolEnds(h)
  PROVE  /\ UNCHANGED tool
         /\ pc[h] \notin Downloading /\ pc'[h] \notin Downloading
  <1>. USE DEF TypeOK, Spoil, MayPut, AfterPut, Goto, GotoPart, Return, tool, Downloading
  <1>1. CASE Put(h)
    BY <1>1 DEF Put, CreateObject, CreateObjectFails, PutPart, PutEnds, PutBreaks
  <1>2. CASE Push(h) \/ Request(h)
    BY <1>2 DEF Push, CreateZip, CreateZipFails, WriteZip, OpenZip, RemoveZip, Request
  <1>3. CASE Copy(h)
    BY <1>3 DEF Copy, Fetch, CopyPart, CopyEnds, CopyBreaks, Extract
  <1>4. CASE StartTool(h) \/ ToolEnds(h)
    BY <1>4 DEF StartTool, ToolEnds
  <1>. QED
    BY <1>1, <1>2, <1>3, <1>4

LEMMA ToolStep ==
  ASSUME TypeOK, GetsParts, ToolAlone, NEW h \in Handlers, Step(h)
  PROVE  ToolAlone'
  <1>. SUFFICES ASSUME ToolQuiet' PROVE ToolAlone'
    BY DEF ToolAlone
  <1>. DEFINE One  == \A e, g \in Handlers : pc[e] \in Downloading /\ pc[g] \in Downloading => e = g
              Zip(g) == /\ pc[g] = "getting" => toolzip = {i \in ToolParts : i < pos[g]}
                        /\ pc[g] \in {"unzipping", "writing"} => toolzip = ToolParts
              Exe  == exe = "partial" => \E g \in Handlers : pc[g] = "writing"
  <1>0. One /\ (\A g \in Handlers : Zip(g)) /\ Exe
    BY Frame DEF ToolAlone, ToolQuiet, Undisturbed
  <1>. SUFFICES One' /\ (\A g \in Handlers : Zip(g)') /\ Exe'
    BY DEF ToolAlone
  <1>1. CASE Put(h) \/ Push(h) \/ Request(h) \/ Copy(h) \/ StartTool(h) \/ ToolEnds(h)
    <2>1. /\ UNCHANGED tool /\ pc[h] \notin Downloading /\ pc'[h] \notin Downloading
          /\ \A g \in Handlers \ {h} : pc'[g] = pc[g] /\ pos'[g] = pos[g]
      BY <1>1, OthersLeaveTool, Frame
    <2>. QED
      BY <1>0, <2>1 DEF tool, Downloading
  <1>2. CASE CheckTool(h)
    <2>. USE DEF TypeOK, Spoil, MayPut, AfterPut, Goto, GotoPart, Return, tool
    <2>1. CASE pc'[h] \notin Downloading
      <3>1. UNCHANGED tool /\ pc[h] \notin Downloading
        BY <1>2, <2>1 DEF CheckTool, Present, CreateToolzip, KeepToolzip, Downloading
      <3>. QED
        BY <1>0, <2>1, <3>1, Frame DEF Downloading
    <2>2. CASE pc'[h] \in Downloading
      <3>1. /\ pc'[h] = "getting" /\ pos'[h] = 1 /\ toolzip' = {} /\ exe = "missing" /\ exe' = exe
            /\ clash' = clash \cup
                 Clashes(h, {g \in Handlers \ {h} : pc[g] \in Downloading}, "tool")
        BY <1>2, <2>2 DEF CheckTool, Present, CreateToolzip, KeepToolzip, Downloading, ToolQuiet,
                          Undisturbed
      <3>2. \A g \in Handlers \ {h} : pc[g] \notin Downloading
        BY <3>1 DEF Clashes, ToolQuiet, Undisturbed
      <3>3. \A g \in Handlers \ {h} : pc'[g] \notin Downloading
        BY <3>2, Frame
      <3>4. {i \in ToolParts : i < 1} = {}
        BY DEF ToolParts
      <3>. QED
        BY <3>1, <3>3, <3>4 DEF Downloading
    <2>. QED
      BY <2>1, <2>2
  <1>3. CASE DownloadPart(h) \/ DownloadBreaks(h) \/ Truncate(h) \/ UnzipFails(h)
             \/ WriteTool(h) \/ WriteToolBreaks(h) \/ RemoveToolzip(h)
    <2>. USE DEF TypeOK, Spoil, Goto, GotoPart
    <2>1. pc[h] \in Downloading
      BY <1>3 DEF DownloadPart, DownloadBreaks, Truncate, UnzipFails, WriteTool, WriteToolBreaks,
                  RemoveToolzip, Downloading
    <2>2. \A g \in Handlers \ {h} : pc[g] \notin Downloading /\ pc'[g] \notin Downloading
      BY <1>0, <2>1, Frame
    <2>3. One' /\ \A g \in Handlers \ {h} : Zip(g)'
      BY <2>2 DEF Downloading
    <2>4. exe = "partial" => pc[h] = "writing"
      BY <1>0, <2>2 DEF Downloading
    <2>5. CASE DownloadPart(h)
      <3>1. /\ pos[h] \in ToolParts /\ toolzip = {i \in ToolParts : i < pos[h]}
            /\ toolzip' = toolzip \cup {pos[h]} /\ exe' = exe /\ exe # "partial"
        BY <1>0, <2>4, <2>5 DEF DownloadPart, GetsParts, tool
      <3>2. \/ pos[h] = 1 /\ pc'[h] = "getting" /\ pos'[h] = 2
            \/ pos[h] = 2 /\ pc'[h] = "unzipping"
        BY <2>5, <3>1 DEF DownloadPart, ToolParts
      <3>3. toolzip' = IF pos[h] = 1 THEN {1} ELSE {1, 2}
        BY <3>1 DEF ToolParts
      <3>4. {i \in ToolParts : i < 2} = {1}
        BY DEF ToolParts
      <3>. QED
        BY <2>3, <3>1, <3>2, <3>3, <3>4 DEF ToolParts
    <2>6. CASE DownloadBreaks(h) \/ WriteToolBreaks(h)
      BY <2>6 DEF DownloadBreaks, WriteToolBreaks, ToolQuiet, Undisturbed
    <2>7. CASE Truncate(h) \/ UnzipFails(h)
      BY <1>0, <2>3, <2>4, <2>7 DEF Truncate, UnzipFails, tool
    <2>8. CASE WriteTool(h)
      <3>1. toolzip = ToolParts /\ exe' = "whole" /\ pc'[h] = "tidying"
        BY <1>0, <2>8 DEF WriteTool, ToolParts
      <3>. QED
        BY <2>3, <3>1
    <2>9. CASE RemoveToolzip(h)
      BY <2>3, <2>4, <2>9 DEF RemoveToolzip
    <2>. QED
      BY <1>3, <2>5, <2>6, <2>7, <2>8, <2>9
  <1>. QED
    BY <1>1, <1>2, <1>3 DEF Step, Build, Tool

-----------------------------------------------------------------------------
LEMMA InitIInv == Init => IInv
  <1>. SUFFICES ASSUME Init PROVE IInv
    OBVIOUS
  <1>1. TypeOK
    BY PartTypes, SourceStoreAssumption DEF Init, TypeOK, Places, Contents
  <1>2. GetsParts /\ KindsFit /\ PartsAtHome
    BY DEF Init, GetsParts, KindsFit, PartsAtHome, Pushing, Blank
  <1>3. ZipAlone /\ ZipIsPrefix
    BY DEF Init, ZipAlone, ZipIsPrefix, Pushing
  <1>4. PutAlone /\ StoreIsPrefix /\ LastIsKnown
    BY SourceStoreAssumption DEF Init, PutAlone, StoreIsPrefix, LastIsKnown
  <1>5. CopyAlone /\ TreeIsPrefix
    BY DEF Init, CopyAlone, TreeIsPrefix, AtWork, Copied, Downloading
  <1>6. ToolAlone
    BY DEF Init, ToolAlone, Downloading
  <1>. QED
    BY <1>1, <1>2, <1>3, <1>4, <1>5, <1>6 DEF IInv

\* A stop leaves nobody at work.
LEMMA StopIInv ==
  ASSUME IInv, Stop
  PROVE  IInv'
  <1>. USE DEF IInv, Stop, files, tool
  <1>1. TypeOK'
    BY PartTypes, SourceStoreAssumption DEF TypeOK, Ended, Places
  <1>2. \A h \in Handlers : pc'[h] \in Ended \cup {"idle"} /\ (pc'[h] # pc[h] => pc'[h] = "lost")
    BY DEF TypeOK, Ended
  <1>3. \A h \in Handlers, file \in {"put", "copy", "tool"} :
          Undisturbed(h, file)' => Undisturbed(h, file)
    BY DEF Undisturbed
  <1>. USE DEF Ended, Pushing, AtWork, Copied, Downloading
  <1>4. GetsParts' /\ KindsFit' /\ PartsAtHome'
    BY <1>2 DEF GetsParts, KindsFit, PartsAtHome, Blank, TypeOK
  <1>5. ZipAlone' /\ ZipIsPrefix'
    BY <1>2 DEF ZipAlone, ZipIsPrefix
  <1>6. PutAlone' /\ LastIsKnown' /\ CopyAlone'
    BY <1>2 DEF PutAlone, LastIsKnown, CopyAlone
  <1>7. StoreIsPrefix'
    BY <1>2, <1>3 DEF StoreIsPrefix, Undisturbed
  <1>8. TreeIsPrefix'
    BY <1>2 DEF TreeIsPrefix
  <1>9. ToolAlone'
    BY <1>2, <1>3 DEF ToolAlone, ToolQuiet, Undisturbed
  <1>. QED
    BY <1>1, <1>4, <1>5, <1>6, <1>7, <1>8, <1>9

LEMMA StepIInv == IInv /\ [Next]_vars => IInv'
  <1>. SUFFICES ASSUME IInv, [Next]_vars PROVE IInv'
    OBVIOUS
  <1>1. ASSUME NEW h \in Handlers, Step(h) PROVE IInv'
    BY <1>1, TypeStep, GetsPartsStep, KindsStep, PartsStep, ZipAloneStep, ZipStep, PutAloneStep,
       StoreStep, LastStep, CopyAloneStep, TreeStep, ToolStep DEF IInv
  <1>2. CASE UNCHANGED vars
    <2>1. TypeOK' /\ GetsParts' /\ KindsFit' /\ PartsAtHome'
      BY <1>2 DEF IInv, vars, files, tool, TypeOK, GetsParts, KindsFit, PartsAtHome
    <2>2. ZipAlone' /\ ZipIsPrefix' /\ PutAlone' /\ StoreIsPrefix' /\ LastIsKnown'
      BY <1>2 DEF IInv, vars, files, tool, ZipAlone, ZipIsPrefix, PutAlone, StoreIsPrefix,
                  LastIsKnown, Undisturbed
    <2>3. CopyAlone' /\ TreeIsPrefix' /\ ToolAlone'
      BY <1>2 DEF IInv, vars, files, tool, CopyAlone, TreeIsPrefix, ToolAlone, ToolQuiet,
                  Undisturbed
    <2>. QED
      BY <2>1, <2>2, <2>3 DEF IInv
  <1>. QED
    BY <1>1, <1>2, StopIInv DEF Next, Step, Finished

-----------------------------------------------------------------------------
\* Who writes a file alone, and with no error dropped, writes all of it.
THEOREM Inductive == Spec => []IInv
  <1>. QED
    BY InitIInv, StepIInv, PTL DEF Spec

\* The type invariant.
THEOREM TypeCorrect == Spec => []TypeOK
  <1>1. IInv => TypeOK
    BY DEF IInv
  <1>. QED
    BY <1>1, Inductive, PTL

\* The archive in the store is the one that was put last, and whole, unless its
\* writer met another, had an error dropped or was cut off.
THEOREM ArchiveCorrect == Spec => []ArchiveIsLastPut
  <1>1. IInv => ArchiveIsLastPut
    <2>. SUFFICES ASSUME IInv, NEW p \in Projects, last[p] # None,
                         <<last[p], "put">> \notin clash, pc[last[p]] # "putting"
                  PROVE  store[p] = Whole(last[p])
      BY DEF ArchiveIsLastPut
    <2>1. last[p] \in Handlers /\ project[last[p]] = p
      BY DEF IInv, TypeOK, LastIsKnown
    <2>. QED
      BY <2>1 DEF IInv, StoreIsPrefix, Undisturbed
  <1>. QED
    BY <1>1, Inductive, PTL

\* A build works on the whole archive it opened, unless that was not stored whole,
\* was written meanwhile, or an error was dropped in copying or unpacking it.
THEOREM BuildCorrect == Spec => []BuildsWhatWasStored
  <1>1. IInv => BuildsWhatWasStored
    BY DEF IInv, TreeIsPrefix, BuildsWhatWasStored, Undisturbed
  <1>. QED
    BY <1>1, Inductive, PTL

\* No build sees a part of another project, whatever meets, breaks or stops.
THEOREM ProjectsApart == Spec => []BuildsOwnProject
  <1>1. IInv => BuildsOwnProject
    BY DEF IInv, PartsAtHome, BuildsOwnProject
  <1>. QED
    BY <1>1, Inductive, PTL

\* nixpacks.exe is no fragment unless downloads met, broke or were cut off.
THEOREM ToolCorrect == Spec => []ToolIsWhole
  <1>1. IInv => ToolIsWhole
    BY DEF IInv, ToolAlone, ToolQuiet, Undisturbed, ToolIsWhole, Downloading
  <1>. QED
    BY <1>1, Inductive, PTL
=============================================================================
