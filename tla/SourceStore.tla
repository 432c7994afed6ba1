---------------------------- MODULE SourceStore -----------------------------
(***************************************************************************)
(* The files that handlers of the standalone server share by their names:  *)
(* the source archive of a project in the object store, the zip a push     *)
(* writes in the temporary directory, and bin/nixpacks.exe with the zip it *)
(* is downloaded in.  Nothing locks them; a writer truncates in place and  *)
(* writes part by part at an offset of its own.                            *)
(*                                                                         *)
(* A handler is an upload (it stores an archive), a push (the goroutine of *)
(* the GitHub webhook: it zips its clone, stores the zip and triggers a    *)
(* build) or a request (it triggers a build of whatever is stored), with   *)
(* the build it triggered.  Archives are told apart by the handler they    *)
(* come from.  Part Size[h] of the archive of h is its directory, the      *)
(* others are file entries.                                                *)
(*                                                                         *)
(* The files behave as on Windows, where nixpacks.exe runs: any number of  *)
(* handlers may have a file open for reading and writing, but os.Remove of *)
(* an open file fails, and so does opening a running program for writing.  *)
(* Any call on a file may fail besides, on a full disk say; the code drops *)
(* most of these errors and goes on, and `clash` says where it did.        *)
(***************************************************************************)
EXTENDS Integers

CONSTANTS
  Handlers,    \* uploads, pushes and requests
  Projects,
  MaxParts,    \* bound on the parts of an archive
  Size,        \* parts of the archive a handler would store
  None         \* no archive; as a part, zeros or nothing written

Parts == 1 .. MaxParts

ASSUME SourceStoreAssumption ==
  /\ MaxParts \in Nat
  /\ Size \in [Handlers -> Parts]
  /\ None \notin Handlers

VARIABLES
  kind,      \* what a handler is
  project,   \* the project it is about
  pc,        \* where a handler stands
  pos,       \* the next part of the file it copies
  temp,      \* the zip of a project in the temporary directory
  zipped,    \* the projects for which that zip exists
  store,     \* projects/<p>/source.zip
  stored,    \* the projects for which it exists
  tree,      \* in the private directory of a build: source.zip, and once
             \* that is unpacked, what was unpacked of it
  toolzip,   \* the parts there are of bin/nixpacks.zip
  exe,       \* bin/nixpacks.exe
  last,      \* history: the writer that created the archive last
  from,      \* history: last, when a build opened the archive
  clash      \* history: whose work on a file met another's, or broke off

files == <<temp, zipped, store, stored>>
tool  == <<toolzip, exe>>
vars  == <<kind, project, pc, pos, files, tree, tool, last, from, clash>>

-----------------------------------------------------------------------------
Contents == [Parts -> Handlers \cup {None}]
Blank    == [i \in Parts |-> None]
Whole(v) == [i \in Parts |-> IF i <= Size[v] THEN v ELSE None]

\* A reader at part i finds the end of the file.
AtEnd(f, i) == \A j \in Parts : j >= i => f[j] = None

\* zip.OpenReader finds the directory of v at the end of the file.
HasDirectory(f, v) == f[Size[v]] = v /\ AtEnd(f, Size[v] + 1)

ToolParts == {1, 2}     \* the entry of nixpacks.exe, and the directory

Pushing     == {"zipping", "zipped", "opened", "blind", "putting", "put"}
Holding     == {"zipping", "opened", "putting"}   \* the zip is open
Ended       == {"done", "built", "failed", "lost"}
Downloading == {"getting", "unzipping", "writing", "tidying"}

\* The other handlers of h's project that stand at one of the places S.
Others(h, S) == {g \in Handlers \ {h} : project[g] = project[h] /\ pc[g] \in S}

OtherPushes(h) == {g \in Others(h, Pushing) : kind[g] = "push"}

Clashes(h, G, file) == IF G = {} THEN {} ELSE (G \cup {h}) \X {file}

Init ==
  /\ kind \in [Handlers -> {"upload", "push", "request"}]
  /\ project \in [Handlers -> Projects]
  /\ pc = [h \in Handlers |-> "idle"]
  /\ pos = [h \in Handlers |-> 1]
  /\ temp = [p \in Projects |-> Blank]
  /\ zipped = {}
  /\ store = [p \in Projects |-> Blank]
  /\ stored = {}
  /\ tree = [h \in Handlers |-> Blank]
  /\ toolzip = {}
  /\ exe = "missing"
  /\ last = [p \in Projects |-> None]
  /\ from = [h \in Handlers |-> None]
  /\ clash = {}

Goto(h, s)       == pc' = [pc EXCEPT ![h] = s]
GotoPart(h, s, i) == Goto(h, s) /\ pos' = [pos EXCEPT ![h] = i]

\* The build returns: its directory is removed.
Return(h, s) ==
  /\ GotoPart(h, s, 1)
  /\ tree' = [tree EXCEPT ![h] = Blank]
  /\ from' = [from EXCEPT ![h] = None]

\* An error is dropped in the work of h on a file, which is not what it should be.
Spoil(h, file) == clash' = clash \cup {<<h, file>>}

-----------------------------------------------------------------------------
\* A push zips its clone

\* Mutant: a name without the project.
ZipOfAll(p) == CHOOSE q \in Projects : TRUE

\* Where the zip of p is: its name has the project in it.
ZipOf(p) == p

CreateZip(h) ==
  /\ kind[h] = "push" /\ pc[h] = "idle"
  /\ temp' = [temp EXCEPT ![ZipOf(project[h])] = Blank]
  /\ zipped' = zipped \cup {ZipOf(project[h])}
  /\ clash' = clash \cup Clashes(h, OtherPushes(h), "put")
  /\ GotoPart(h, "zipping", 1)
  /\ UNCHANGED <<kind, project, store, stored, tree, tool, last, from>>

\* os.Create fails, its error is ignored, and nothing is written: the zip an
\* earlier push left, if any, is what this one will open.
CreateZipFails(h) ==
  /\ kind[h] = "push" /\ pc[h] = "idle"
  /\ Spoil(h, "put")
  /\ Goto(h, "zipped")
  /\ UNCHANGED <<kind, project, pos, files, tree, tool, last, from>>

\* One write of the zip writer, at the offset of this handler.  The last one
\* is the directory, and the file is closed.  A write may be lost: the errors
\* of Create, Open, Copy and Close are ignored.
WriteZip(h) ==
  /\ pc[h] = "zipping"
  /\ \/ temp' = [temp EXCEPT ![ZipOf(project[h])][pos[h]] = h] /\ clash' = clash
     \/ temp' = temp /\ Spoil(h, "put")
  /\ IF pos[h] < Size[h] THEN GotoPart(h, "zipping", pos[h] + 1) ELSE GotoPart(h, "zipped", 1)
  /\ UNCHANGED <<kind, project, zipped, store, stored, tree, tool, last, from>>

\* os.Open, whose error is ignored: then Put is given a nil file.
OpenZip(h) ==
  /\ pc[h] = "zipped"
  /\ \/ ZipOf(project[h]) \in zipped /\ Goto(h, "opened") /\ clash' = clash
     \/ Goto(h, "blind") /\ Spoil(h, "put")
  /\ UNCHANGED <<kind, project, pos, files, tree, tool, last, from>>

-----------------------------------------------------------------------------
\* Put, called by an upload or a push

\* Mutant: the file is opened for writing without O_TRUNC.
CreatedUntruncated(f) == f

\* os.Create makes the file empty.
Created(f) == Blank

MayPut(h) == (kind[h] = "upload" /\ pc[h] = "idle") \/ pc[h] \in {"opened", "blind"}

\* Put returns.  An upload answers, with 500 after an error; a push goes on.
AfterPut(h) == IF kind[h] = "upload" THEN "done" ELSE "put"

CreateObject(h) ==
  LET p == project[h] IN
  /\ MayPut(h)
  /\ store' = [store EXCEPT ![p] = Created(@)]
  /\ stored' = stored \cup {p}
  /\ last' = [last EXCEPT ![p] = h]
  /\ clash' = clash \cup Clashes(h, Others(h, {"putting"}), "put")
                    \cup Others(h, {"copying"}) \X {"copy"}
  /\ GotoPart(h, IF pc[h] = "blind" THEN "put" ELSE "putting", 1)
  /\ UNCHANGED <<kind, project, temp, zipped, tree, tool, from>>

\* MkdirAll or os.Create fails: the archive stays what it was, and a push goes
\* on to build it.
CreateObjectFails(h) ==
  /\ MayPut(h)
  /\ Goto(h, AfterPut(h))
  /\ UNCHANGED <<kind, project, pos, files, tree, tool, last, from, clash>>

\* What Put reads from: the form of the upload, or the zip of the push.
Reading(h) == IF kind[h] = "upload" THEN Whole(h) ELSE temp[ZipOf(project[h])]

\* One round of io.Copy.
PutPart(h) ==
  /\ pc[h] = "putting" /\ ~AtEnd(Reading(h), pos[h])
  /\ store' = [store EXCEPT ![project[h]][pos[h]] = Reading(h)[pos[h]]]
  /\ GotoPart(h, "putting", pos[h] + 1)
  /\ UNCHANGED <<kind, project, temp, zipped, stored, tree, tool, last, from, clash>>

PutEnds(h) ==
  /\ pc[h] = "putting" /\ AtEnd(Reading(h), pos[h])
  /\ GotoPart(h, AfterPut(h), 1)
  /\ UNCHANGED <<kind, project, files, tree, tool, last, from, clash>>

\* A read or a write fails.
PutBreaks(h) ==
  /\ pc[h] = "putting" /\ ~AtEnd(Reading(h), pos[h])
  /\ Spoil(h, "put")
  /\ GotoPart(h, AfterPut(h), 1)
  /\ UNCHANGED <<kind, project, files, tree, tool, last, from>>

\* os.Remove, which may fail, and does while another push has the zip open;
\* then TriggerDeployment, which may refuse the project.
RemoveZip(h) ==
  /\ pc[h] = "put"
  /\ \/ UNCHANGED <<temp, zipped>>
     \/ /\ \A g \in Handlers \ {h} :
             ZipOf(project[g]) = ZipOf(project[h]) => pc[g] \notin Holding
        /\ temp' = [temp EXCEPT ![ZipOf(project[h])] = Blank]
        /\ zipped' = zipped \ {ZipOf(project[h])}
  /\ Goto(h, "queued") \/ Goto(h, "done")
  /\ UNCHANGED <<kind, project, pos, store, stored, tree, tool, last, from, clash>>

-----------------------------------------------------------------------------
\* A build gets the archive, copies it and unpacks it

\* POST /api/v1/deployments/ triggers a build.
Request(h) ==
  /\ kind[h] = "request" /\ pc[h] = "idle"
  /\ Goto(h, "queued")
  /\ UNCHANGED <<kind, project, pos, files, tree, tool, last, from, clash>>

\* storage.Get and a file for the copy.  Without either the build fails;
\* otherwise the archive is open.
Fetch(h) ==
  LET p == project[h] IN
  /\ pc[h] = "queued"
  /\ \/ /\ p \in stored
        /\ GotoPart(h, "copying", 1)
        /\ from' = [from EXCEPT ![h] = last[p]]
        /\ clash' = clash \cup (IF Others(h, {"putting"}) = {} THEN {} ELSE {<<h, "copy">>})
        /\ tree' = tree
     \/ Return(h, "failed") /\ clash' = clash
  /\ UNCHANGED <<kind, project, files, tool, last>>

\* Mutant: the builds of a project share their directory.
CopyPartShared(h) ==
  /\ pc[h] = "copying" /\ ~AtEnd(store[project[h]], pos[h])
  /\ tree' = [g \in Handlers |->
                IF project[g] # project[h] THEN tree[g]
                ELSE [tree[g] EXCEPT ![pos[h]] = store[project[h]][pos[h]]]]
  /\ GotoPart(h, "copying", pos[h] + 1)
  /\ UNCHANGED <<kind, project, files, tool, last, from, clash>>

CopyPart(h) ==
  /\ pc[h] = "copying" /\ ~AtEnd(store[project[h]], pos[h])
  /\ tree' = [tree EXCEPT ![h][pos[h]] = store[project[h]][pos[h]]]
  /\ GotoPart(h, "copying", pos[h] + 1)
  /\ UNCHANGED <<kind, project, files, tool, last, from, clash>>

CopyEnds(h) ==
  /\ pc[h] = "copying" /\ AtEnd(store[project[h]], pos[h])
  /\ GotoPart(h, "extracting", 1)
  /\ UNCHANGED <<kind, project, files, tree, tool, last, from, clash>>

\* The error of io.Copy is ignored.
CopyBreaks(h) ==
  /\ pc[h] = "copying" /\ ~AtEnd(store[project[h]], pos[h])
  /\ Spoil(h, "copy")
  /\ GotoPart(h, "extracting", 1)
  /\ UNCHANGED <<kind, project, files, tree, tool, last, from>>

\* Unpacking fails where a header is damaged or a file cannot be created, and
\* without a directory.  Errors in the contents of an entry are ignored: the
\* entries `lost` are empty or cut short.
Extract(h) ==
  /\ pc[h] = "extracting"
  /\ \/ \E v \in Handlers :
          /\ HasDirectory(tree[h], v)
          /\ \E lost \in SUBSET (1 .. Size[v] - 1) :
               /\ tree' = [tree EXCEPT ![h] = [i \in Parts |-> IF i \in lost THEN None ELSE @[i]]]
               /\ IF lost = {} THEN clash' = clash ELSE Spoil(h, "copy")
          /\ Goto(h, "checking") /\ UNCHANGED <<pos, from>>
     \/ Return(h, "failed") /\ clash' = clash
  /\ UNCHANGED <<kind, project, files, tool, last>>

-----------------------------------------------------------------------------
\* A build makes sure of nixpacks.exe and runs it

Present(h) ==
  /\ exe # "missing"
  /\ Goto(h, "ready")
  /\ UNCHANGED <<pos, tree, toolzip, from, clash>>

\* nixpacks.zip is created, or made empty.
CreateToolzip(h) ==
  /\ exe = "missing"
  /\ GotoPart(h, "getting", 1)
  /\ toolzip' = {}
  /\ clash' = clash \cup Clashes(h, {g \in Handlers \ {h} : pc[g] \in Downloading}, "tool")
  /\ UNCHANGED <<tree, from>>

\* The error of os.Create is ignored: whatever nixpacks.zip there is will be unpacked.
KeepToolzip(h) ==
  /\ exe = "missing"
  /\ Goto(h, "unzipping")
  /\ Spoil(h, "tool")
  /\ UNCHANGED <<pos, tree, toolzip, from>>

\* os.Stat, and when there is no file http.Get, which may fail.
CheckTool(h) ==
  /\ pc[h] = "checking"
  /\ \/ Present(h) \/ CreateToolzip(h) \/ KeepToolzip(h)
     \/ exe = "missing" /\ Return(h, "failed") /\ UNCHANGED <<toolzip, clash>>
  /\ UNCHANGED <<kind, project, files, exe, last>>

\* Mutant: the end of the file is missed.
DownloadPartOn(h) ==
  /\ pc[h] = "getting"
  /\ toolzip' = toolzip \cup {pos[h]}
  /\ GotoPart(h, "getting", pos[h] + 1)
  /\ UNCHANGED <<kind, project, files, tree, exe, last, from, clash>>

DownloadPart(h) ==
  /\ pc[h] = "getting"
  /\ toolzip' = toolzip \cup {pos[h]}
  /\ IF pos[h] + 1 \in ToolParts THEN GotoPart(h, "getting", pos[h] + 1)
     ELSE GotoPart(h, "unzipping", 1)
  /\ UNCHANGED <<kind, project, files, tree, exe, last, from, clash>>

\* The error of io.Copy is ignored.
DownloadBreaks(h) ==
  /\ pc[h] = "getting"
  /\ Spoil(h, "tool")
  /\ GotoPart(h, "unzipping", 1)
  /\ UNCHANGED <<kind, project, files, tree, tool, last, from>>

ToolRuns == \E g \in Handlers : pc[g] = "building"

\* Mutant: the zip is removed before it is unpacked.
TruncateLast(h) ==
  /\ pc[h] = "unzipping" /\ 2 \in toolzip /\ ~ToolRuns
  /\ exe' = "partial" /\ toolzip' = {}
  /\ Goto(h, "writing")
  /\ UNCHANGED <<kind, project, pos, files, tree, last, from, clash>>

\* extractZip: with the directory at hand nixpacks.exe is truncated ...
Truncate(h) ==
  /\ pc[h] = "unzipping" /\ 2 \in toolzip /\ ~ToolRuns
  /\ exe' = "partial"
  /\ Goto(h, "writing")
  /\ UNCHANGED <<kind, project, pos, files, tree, toolzip, last, from, clash>>

\* ... or not, when the zip has none or a file cannot be opened.
UnzipFails(h) ==
  /\ pc[h] = "unzipping"
  /\ Goto(h, "tidying")
  /\ UNCHANGED <<kind, project, pos, files, tree, tool, last, from, clash>>

\* Then it is written, as far as the entry is there ...
WriteTool(h) ==
  /\ pc[h] = "writing"
  /\ exe' = IF 1 \in toolzip THEN "whole" ELSE exe
  /\ Goto(h, "tidying")
  /\ UNCHANGED <<kind, project, pos, files, tree, toolzip, last, from, clash>>

\* ... or io.Copy breaks, whose error is ignored, or f.Open fails.
WriteToolBreaks(h) ==
  /\ pc[h] = "writing"
  /\ Spoil(h, "tool")
  /\ Goto(h, "tidying")
  /\ UNCHANGED <<kind, project, pos, files, tree, tool, last, from>>

\* os.Remove, which may fail, and does while another build has the zip open.
RemoveToolzip(h) ==
  /\ pc[h] = "tidying"
  /\ \/ toolzip' = toolzip
     \/ toolzip' = {} /\ \A g \in Handlers \ {h} : pc[g] \notin {"getting", "writing"}
  /\ Goto(h, "ready")
  /\ UNCHANGED <<kind, project, pos, files, tree, exe, last, from, clash>>

\* cmd.Start, which fails for a file that is no program, and may for one that is.
StartTool(h) ==
  /\ pc[h] = "ready"
  /\ \/ exe = "whole" /\ Goto(h, "building") /\ UNCHANGED <<pos, tree, from>>
     \/ Return(h, "failed")
  /\ UNCHANGED <<kind, project, files, tool, last, clash>>

\* nixpacks ends.  It need not: see BuildOutput.
ToolEnds(h) ==
  /\ pc[h] = "building"
  /\ Return(h, "built") \/ Return(h, "failed")
  /\ UNCHANGED <<kind, project, files, tool, last, clash>>

-----------------------------------------------------------------------------
\* The server stops, and is started again: what handlers were writing stays as
\* it is, and nobody goes on with it.  What lies in their private directories
\* is not looked at any more.
Stop ==
  /\ \E h \in Handlers : pc[h] \notin Ended \cup {"idle"}
  /\ pc' = [h \in Handlers |-> IF pc[h] \in Ended \cup {"idle"} THEN pc[h] ELSE "lost"]
  /\ pos' = [h \in Handlers |-> 1]
  /\ tree' = [h \in Handlers |-> Blank]
  /\ from' = [h \in Handlers |-> None]
  /\ clash' = clash \cup {h \in Handlers : pc[h] = "putting"} \X {"put"}
                    \cup {h \in Handlers : pc[h] = "writing"} \X {"tool"}
  /\ UNCHANGED <<kind, project, files, tool, last>>

-----------------------------------------------------------------------------
Put(h)   == CreateObject(h) \/ CreateObjectFails(h) \/ PutPart(h) \/ PutEnds(h) \/ PutBreaks(h)
Push(h)  == CreateZip(h) \/ CreateZipFails(h) \/ WriteZip(h) \/ OpenZip(h) \/ RemoveZip(h)
Copy(h)  == Fetch(h) \/ CopyPart(h) \/ CopyEnds(h) \/ CopyBreaks(h) \/ Extract(h)
Tool(h)  == CheckTool(h) \/ DownloadPart(h) \/ DownloadBreaks(h) \/ Truncate(h) \/ UnzipFails(h)
            \/ WriteTool(h) \/ WriteToolBreaks(h) \/ RemoveToolzip(h) \/ StartTool(h)
            \/ ToolEnds(h)
Build(h) == Copy(h) \/ Tool(h)

\* Nothing is left to do.
Finished ==
  /\ \A h \in Handlers : pc[h] \in Ended
  /\ UNCHANGED vars

Next == (\E h \in Handlers : Put(h) \/ Push(h) \/ Request(h) \/ Build(h)) \/ Stop \/ Finished

\* No fairness: a download has no timeout, and nixpacks may block for ever.
Spec == Init /\ [][Next]_vars

-----------------------------------------------------------------------------
\* Properties

Places == {"idle", "queued", "copying", "extracting", "checking", "ready", "building"}
          \cup Ended \cup Pushing \cup Downloading

TypeOK ==
  /\ kind \in [Handlers -> {"upload", "push", "request"}]
  /\ project \in [Handlers -> Projects]
  /\ pc \in [Handlers -> Places]
  /\ pos \in [Handlers -> 1 .. (IF MaxParts > 2 THEN MaxParts ELSE 2) + 1]
  /\ temp \in [Projects -> Contents] /\ zipped \subseteq Projects
  /\ store \in [Projects -> Contents] /\ stored \subseteq Projects
  /\ tree \in [Handlers -> Contents]
  /\ toolzip \subseteq ToolParts
  /\ exe \in {"missing", "partial", "whole"}
  /\ last \in [Projects -> Handlers \cup {None}]
  /\ from \in [Handlers -> Handlers \cup {None}]
  /\ clash \subseteq Handlers \X {"put", "copy", "tool"}

\* Once nobody writes it any more, the archive of a project is all of the archive
\* of the upload or push that created the file last: nothing an earlier writer
\* left behind is in it.  Excepted are a writer that met another, on this file or
\* on the zip it read from; one in whose zip or copy a call failed, which a push
\* does not notice; and one that the server's stop cut off.
ArchiveIsLastPut ==
  \A p \in Projects :
    LET h == last[p] IN
    h # None /\ <<h, "put">> \notin clash /\ pc[h] # "putting" => store[p] = Whole(h)

Copied == {"extracting", "checking", "ready", "building"} \cup Downloading

\* A build works on exactly the archive that was the latest when it opened it.
\* Excepted are a build in whose copying or unpacking an error was ignored, one
\* whose archive was written while it copied it, and an archive that its own
\* writer did not store whole (see ArchiveIsLastPut).
BuildsWhatWasStored ==
  \A h \in Handlers :
    pc[h] \in Copied /\ <<h, "copy">> \notin clash /\ <<from[h], "put">> \notin clash
      => tree[h] = Whole(from[h])

\* However uploads, pushes and builds interleave, and whatever breaks or stops,
\* no build sees a part of an archive of another project.
BuildsOwnProject ==
  \A h \in Handlers, i \in Parts :
    tree[h][i] # None => project[tree[h][i]] = project[h]

\* Once nobody is downloading it nixpacks.exe is no fragment, on which every
\* later build would fail.  It is one only after two downloads overlapped, a call
\* failed in one and the error was ignored, or the server stopped in one.
ToolIsWhole ==
  (\A h \in Handlers : pc[h] \notin Downloading) /\ exe = "partial"
    => \E h \in Handlers : <<h, "tool">> \in clash
=============================================================================
