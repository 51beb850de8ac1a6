------------------------------ MODULE CsmStore ------------------------------
(***************************************************************************)
(* The durable memory of Context Swarm Memory and the Committer that       *)
(* changes it: src/core/commit.ts over src/storage/jsonlStorage.ts.        *)
(*                                                                         *)
(* A shard is a manifest file and a chain of snapshot files S001, S002,    *)
(* ...; directory.json holds one entry per shard; chronicle.jsonl is the   *)
(* append-only log of writes.  Every csm command is an operating system    *)
(* process of its own and takes no lock, so a writer is a sequence of file *)
(* system steps that may interleave with another writer's, with a query's, *)
(* and may stop between any two of them.  fs.writeFile truncates the file  *)
(* before it writes it, and JSON.parse throws on what it finds in between. *)
(*                                                                         *)
(* Events, names, tags, token counts and timestamps are abstracted to the  *)
(* number of the command that wrote the event.                             *)
(***************************************************************************)
EXTENDS Integers, Sequences

CONSTANTS
    Writers,    \* processes that run csm shard create / remember / commit
    Readers,    \* processes that run csm ask
    Shards,     \* shard ids
    MaxOps,     \* bound: how many commands are begun
    MaxSnap,    \* bound: the highest snapshot number of a shard
    MaxCrashes  \* bound: how many commands are killed midway

ASSUME StoreBounds ==
    /\ Shards # {}
    /\ MaxOps \in Nat
    /\ MaxSnap \in Nat \ {0}
    /\ MaxCrashes \in Nat

VARIABLES
    snaps,      \* snapshots/<Snnn>.json: the content last written
    snapFile,   \*   and what a reader of the file would find
    manifest,   \* manifest.json of each shard: the content last written
    manFile,    \*   and what a reader of the file would find
    directory,  \* directory.json: the content last written
    dirFile,    \*   and what a reader of the file would find
    chronicle,  \* chronicle.jsonl
    op,         \* the command each writer process is executing
    view,       \* the directory each query has loaded
    issued,     \* history: commands begun so far
    acked,      \* history: <<shard, command>> reported as written
    crashes     \* history: commands killed so far

disk == <<snaps, snapFile, manifest, manFile, directory, dirFile, chronicle>>
vars == <<disk, op, view, issued, acked, crashes>>

-----------------------------------------------------------------------------
(* Data.                                                                   *)

SnapIds == 1..MaxSnap
Kinds == {"create", "remember", "commit", "freeze"}
Appends == {"remember", "commit"}

\* What opening a file finds: nothing, no bytes yet, two writers' bytes laid
\* over each other, or the JSON text that was written.
FileStates == {"absent", "empty", "garbled", "whole"}
Torn == {"empty", "garbled"}

Snapshot == [events: Seq(Nat), parent: 0..MaxSnap]
Manifest == [status: {"active", "frozen"}, latest: 0..MaxSnap, ids: Seq(SnapIds)]
Entry == [snap: 0..MaxSnap, status: {"active", "frozen"}]  \* snap 0: no entry
Directory == [Shards -> Entry]
Record == [type: {"shard_created", "commit_write", "shard_frozen"},
           shard: Shards, old: 0..MaxSnap, new: 0..MaxSnap]

BlankSnap == [events |-> << >>, parent |-> 0]
BlankMan == [status |-> "active", latest |-> 0, ids |-> << >>]
BlankEntry == [snap |-> 0, status |-> "active"]
BlankDir == [s \in Shards |-> BlankEntry]

Steps == {"idle", "dry", "man", "prev", "orphan", "refuse", "openSnap", "putSnap",
          "openMan", "putMan", "entry", "dir", "openDir", "putDir", "log"}

\* A command in flight: the manifest it read, the snapshot it is adding (its
\* number and content) and the directory it is about to save.
Op == [pc: Steps, kind: Kinds, shard: Shards, id: 0..MaxOps, man: Manifest,
       new: 0..MaxSnap, snap: Snapshot, dir: Directory]

Idle == [pc |-> "idle", kind |-> "freeze", shard |-> CHOOSE s \in Shards : TRUE,
         id |-> 0, man |-> BlankMan, new |-> 0, snap |-> BlankSnap, dir |-> BlankDir]

Exists(s, n) == snapFile[s][n] # "absent"
AllIdle == \A w \in Writers : op[w] = Idle

\* fs.writeFile: bytes laid over an empty file are the text; over another
\* writer's bytes a longer tail may survive and spoil the JSON.
AfterPut(file) == IF file = "empty" THEN {"whole"} ELSE {"whole", "garbled"}

TypeOK ==
    /\ snaps \in [Shards -> [SnapIds -> Snapshot]]
    /\ snapFile \in [Shards -> [SnapIds -> FileStates]]
    /\ manifest \in [Shards -> Manifest]
    /\ manFile \in [Shards -> FileStates]
    /\ directory \in Directory
    /\ dirFile \in FileStates
    /\ chronicle \in Seq(Record)
    /\ op \in [Writers -> Op]
    /\ view \in [Readers -> Directory]
    /\ issued \in 0..MaxOps
    /\ acked \subseteq Shards \X (0..MaxOps)
    /\ crashes \in 0..MaxCrashes

\* csm init has run: an empty directory, an empty chronicle, no shard.
Init ==
    /\ snaps = [s \in Shards |-> [n \in SnapIds |-> BlankSnap]]
    /\ snapFile = [s \in Shards |-> [n \in SnapIds |-> "absent"]]
    /\ manifest = [s \in Shards |-> BlankMan]
    /\ manFile = [s \in Shards |-> "absent"]
    /\ directory = BlankDir
    /\ dirFile = "whole"
    /\ chronicle = << >>
    /\ op = [w \in Writers |-> Idle]
    /\ view = [r \in Readers |-> BlankDir]
    /\ issued = 0
    /\ acked = {}
    /\ crashes = 0

-----------------------------------------------------------------------------
(* How a command ends, and how it moves on.                                *)

At(w, pc) == op[w].pc = pc

Become(w, o) ==
    /\ op' = [op EXCEPT ![w] = o]
    /\ UNCHANGED <<view, issued, crashes>>

Goto(w, pc) == Become(w, [op[w] EXCEPT !.pc = pc])

\* An exception, or applied:false: the process exits and what it wrote stays.
Stop(w) == Become(w, Idle) /\ UNCHANGED <<disk, acked>>

-----------------------------------------------------------------------------
(* Mutants: slips the properties below must catch; no action uses them.    *)

\* The append forgets to look at the shard's status.
AppendLoadManifest_AnyStatus(w) ==
    /\ At(w, "man") /\ op[w].kind \in Appends
    /\ LET s == op[w].shard IN
       IF manFile[s] = "whole"
       THEN /\ manifest[s].latest < MaxSnap
            /\ Become(w, [op[w] EXCEPT !.pc = "prev", !.man = manifest[s],
                                       !.new = manifest[s].latest + 1])
            /\ UNCHANGED <<disk, acked>>
       ELSE Stop(w)

\* The new version holds the new event only.
AppendLoadPrevious_EventOnly(w) ==
    /\ At(w, "prev")
    /\ Become(w, [op[w] EXCEPT !.pc = "orphan",
          !.snap = [events |-> <<op[w].id>>, parent |-> op[w].man.latest]])
    /\ UNCHANGED <<disk, acked>>

\* The parent is the version before the one that was read.
AppendLoadPrevious_Grandparent(w) ==
    /\ At(w, "prev")
    /\ LET n == op[w].man.latest IN
       Become(w, [op[w] EXCEPT !.pc = "orphan",
          !.snap = [events |-> Append(snaps[op[w].shard][n].events, op[w].id),
                    parent |-> n - 1]])
    /\ UNCHANGED <<disk, acked>>

\* The freeze saves a manifest rebuilt from defaults.
FreezeLoadManifest_Rebuilt(w) ==
    /\ At(w, "man") /\ op[w].kind = "freeze"
    /\ Goto(w, "openMan")
    /\ UNCHANGED <<disk, acked>>

\* writeSnapshot overwrites what is there.
SnapshotRefuse_Overwrite(w) ==
    /\ At(w, "refuse")
    /\ Goto(w, "openSnap") /\ UNCHANGED <<disk, acked>>

\* The pointers are saved without waiting for the blob.
SnapshotOpen_PointerFirst(w) ==
    /\ At(w, "openSnap")
    /\ Goto(w, "openMan")
    /\ UNCHANGED <<disk, acked>>

\* The version is listed but latestSnapshotId is not moved.
NewManifest_LatestKept(o) ==
    IF o.kind = "freeze"
    THEN [o.man EXCEPT !.status = "frozen"]
    ELSE [o.man EXCEPT !.ids = Append(@, o.new)]

\* A shard that has an entry is not updated in the directory.
AppendLoadEntry_InsertOnly(w) ==
    /\ At(w, "entry")
    /\ Goto(w, IF directory[op[w].shard].snap = 0 THEN "dir" ELSE "log")
    /\ UNCHANGED <<disk, acked>>

\* The freeze reaches the manifest but not the directory entry.
DirectoryLoad_FreezeSkipped(w) ==
    /\ At(w, "dir")
    /\ LET o == op[w]
           entry == [snap |-> o.new, status |-> o.man.status]
       IN  IF dirFile \in Torn
           THEN Stop(w)
           ELSE /\ Become(w, IF o.kind = "freeze"
                             THEN [o EXCEPT !.pc = "log"]
                             ELSE [o EXCEPT !.pc = "openDir",
                                            !.dir = [directory EXCEPT ![o.shard] = entry]])
                /\ UNCHANGED <<disk, acked>>

\* oldSnapshotId is never recorded.
LogRecord_NoOld(o) ==
    [type |-> "commit_write", shard |-> o.shard, old |-> 0, new |-> o.new]

\* oldSnapshotId is derived from the new one, also where there is none.
LogRecord_OldFromNew(o) ==
    [type |-> "commit_write", shard |-> o.shard, old |-> o.new - 1, new |-> o.new]

\* The line names the version after the one that was written.
LogRecord_NextVersion(o) ==
    [type |-> "commit_write", shard |-> o.shard, old |-> o.man.latest, new |-> o.new + 1]

-----------------------------------------------------------------------------
(* Starting a command, and the dry run of applyCommitDecision.             *)

Begin(w, k, s) ==
    /\ op[w] = Idle
    /\ issued < MaxOps
    /\ issued' = issued + 1
    /\ op' = [op EXCEPT ![w] = [Idle EXCEPT !.kind = k, !.shard = s, !.id = issued + 1,
                                 !.pc = IF k \in {"commit", "freeze"} THEN "dry" ELSE "man"]]
    /\ UNCHANGED <<disk, view, acked, crashes>>

\* dryRunCommit finds the shard; a decision that needs a confirmation it was
\* not given stops here as well.
DryRun(w) ==
    /\ At(w, "dry")
    /\ \/ manFile[op[w].shard] = "whole" /\ Goto(w, "man") /\ UNCHANGED <<disk, acked>>
       \/ Stop(w)

-----------------------------------------------------------------------------
(* createShard, appendEventAndSnapshot and freeze up to their first write. *)

CreateLoadManifest(w) ==
    /\ At(w, "man") /\ op[w].kind = "create"
    /\ IF manFile[op[w].shard] = "absent"
       THEN /\ Become(w, [op[w] EXCEPT !.pc = "refuse", !.new = 1])
            /\ UNCHANGED <<disk, acked>>
       ELSE Stop(w)

AppendLoadManifest(w) ==
    /\ At(w, "man") /\ op[w].kind \in Appends
    /\ LET s == op[w].shard IN
       IF manFile[s] = "whole" /\ manifest[s].status = "active"
       THEN /\ manifest[s].latest < MaxSnap
            /\ Become(w, [op[w] EXCEPT !.pc = "prev", !.man = manifest[s],
                                       !.new = manifest[s].latest + 1])
            /\ UNCHANGED <<disk, acked>>
       ELSE Stop(w)

AppendLoadPrevious(w) ==
    /\ At(w, "prev")
    /\ LET s == op[w].shard
           n == op[w].man.latest
       IN  IF n \in SnapIds /\ snapFile[s][n] = "whole"
           THEN /\ Become(w, [op[w] EXCEPT !.pc = "orphan",
                     !.snap = [events |-> Append(snaps[s][n].events, op[w].id),
                               parent |-> n]])
                /\ UNCHANGED <<disk, acked>>
           ELSE Stop(w)

AppendCheckOrphan(w) ==
    /\ At(w, "orphan")
    /\ IF Exists(op[w].shard, op[w].new)
       THEN Stop(w)
       ELSE Goto(w, "refuse") /\ UNCHANGED <<disk, acked>>

FreezeLoadManifest(w) ==
    /\ At(w, "man") /\ op[w].kind = "freeze"
    /\ LET s == op[w].shard IN
       IF manFile[s] = "whole"
       THEN /\ Become(w, [op[w] EXCEPT !.pc = "openMan", !.man = manifest[s]])
            /\ UNCHANGED <<disk, acked>>
       ELSE Stop(w)

-----------------------------------------------------------------------------
(* writeSnapshot: refuse to overwrite, truncate, write.                    *)

SnapshotRefuse(w) ==
    /\ At(w, "refuse")
    /\ IF Exists(op[w].shard, op[w].new)
       THEN Stop(w)
       ELSE Goto(w, "openSnap") /\ UNCHANGED <<disk, acked>>

SnapshotOpen(w) ==
    /\ At(w, "openSnap")
    /\ snapFile' = [snapFile EXCEPT ![op[w].shard][op[w].new] = "empty"]
    /\ Goto(w, "putSnap")
    /\ UNCHANGED <<snaps, manifest, manFile, directory, dirFile, chronicle, acked>>

SnapshotPut(w) ==
    /\ At(w, "putSnap")
    /\ LET s == op[w].shard
           n == op[w].new
       IN  /\ snaps' = [snaps EXCEPT ![s][n] = op[w].snap]
           /\ \E f \in AfterPut(snapFile[s][n]) :
                 snapFile' = [snapFile EXCEPT ![s][n] = f]
    /\ Goto(w, "openMan")
    /\ UNCHANGED <<manifest, manFile, directory, dirFile, chronicle, acked>>

-----------------------------------------------------------------------------
(* saveManifest: the manifest as read at the start, with this change.      *)

NewManifest(o) ==
    IF o.kind = "freeze"
    THEN [o.man EXCEPT !.status = "frozen"]
    ELSE [o.man EXCEPT !.latest = o.new, !.ids = Append(@, o.new)]

ManifestOpen(w) ==
    /\ At(w, "openMan")
    /\ manFile' = [manFile EXCEPT ![op[w].shard] = "empty"]
    /\ Goto(w, "putMan")
    /\ UNCHANGED <<snaps, snapFile, manifest, directory, dirFile, chronicle, acked>>

ManifestPut(w) ==
    /\ At(w, "putMan")
    /\ LET s == op[w].shard IN
       /\ manifest' = [manifest EXCEPT ![s] = NewManifest(op[w])]
       /\ \E f \in AfterPut(manFile[s]) : manFile' = [manFile EXCEPT ![s] = f]
    /\ Goto(w, IF op[w].kind \in Appends THEN "entry" ELSE "dir")
    /\ UNCHANGED <<snaps, snapFile, directory, dirFile, chronicle, acked>>

-----------------------------------------------------------------------------
(* The directory: read it whole, change one entry, save it whole.          *)

\* The append reads the directory once for the fields it carries over ...
AppendLoadEntry(w) ==
    /\ At(w, "entry")
    /\ IF dirFile \in Torn
       THEN Stop(w)
       ELSE Goto(w, "dir") /\ UNCHANGED <<disk, acked>>

\* ... and upsertDirectoryEntry (or the freeze) reads it again to change it.
\* A frozen shard that has no entry gets none.
DirectoryLoad(w) ==
    /\ At(w, "dir")
    /\ LET o == op[w]
           s == o.shard
           missing == o.kind = "freeze" /\ directory[s].snap = 0
           entry == IF o.kind = "freeze"
                    THEN [directory[s] EXCEPT !.status = "frozen"]
                    ELSE [snap |-> o.new, status |-> o.man.status]
       IN  IF dirFile \in Torn
           THEN Stop(w)
           ELSE /\ Become(w, IF missing
                             THEN [o EXCEPT !.pc = "log"]
                             ELSE [o EXCEPT !.pc = "openDir",
                                            !.dir = [directory EXCEPT ![s] = entry]])
                /\ UNCHANGED <<disk, acked>>

DirectoryOpen(w) ==
    /\ At(w, "openDir")
    /\ dirFile' = "empty"
    /\ Goto(w, "putDir")
    /\ UNCHANGED <<snaps, snapFile, manifest, manFile, directory, chronicle, acked>>

DirectoryPut(w) ==
    /\ At(w, "putDir")
    /\ directory' = op[w].dir
    /\ dirFile' \in AfterPut(dirFile)
    /\ Goto(w, "log")
    /\ UNCHANGED <<snaps, snapFile, manifest, manFile, chronicle, acked>>

-----------------------------------------------------------------------------
(* The chronicle, then the command reports success.                        *)

LogRecord(o) ==
    [type |-> CASE o.kind = "create" -> "shard_created"
                [] o.kind = "freeze" -> "shard_frozen"
                [] OTHER -> "commit_write",
     shard |-> o.shard,
     old |-> IF o.kind \in Appends THEN o.man.latest ELSE 0,
     new |-> o.new]

ChronicleAppend(w) ==
    /\ At(w, "log")
    /\ chronicle' = Append(chronicle, LogRecord(op[w]))
    /\ acked' = IF op[w].kind \in Appends
                THEN acked \cup {<<op[w].shard, op[w].id>>}
                ELSE acked
    /\ Become(w, Idle)
    /\ UNCHANGED <<snaps, snapFile, manifest, manFile, directory, dirFile>>

-----------------------------------------------------------------------------
(* Crashes, queries, and the operator.                                     *)

\* The process dies between two steps; files and their half-written bytes stay.
Crash(w) ==
    /\ op[w] # Idle
    /\ crashes < MaxCrashes
    /\ crashes' = crashes + 1
    /\ op' = [op EXCEPT ![w] = Idle]
    /\ UNCHANGED <<disk, view, issued, acked>>

\* ask() loads the directory once and later reads the snapshots it names.
AskLoadDirectory(r) ==
    /\ view[r] = BlankDir
    /\ dirFile = "whole"
    /\ view' = [view EXCEPT ![r] = directory]
    /\ UNCHANGED <<disk, op, issued, acked, crashes>>

AskFinish(r) ==
    /\ view[r] # BlankDir
    /\ view' = [view EXCEPT ![r] = BlankDir]
    /\ UNCHANGED <<disk, op, issued, acked, crashes>>

\* The orphan an append's error message names: a snapshot file one past the
\* manifest of an active shard.
Orphan(s) ==
    /\ manFile[s] = "whole" /\ manifest[s].status = "active"
    /\ manifest[s].latest < MaxSnap
    /\ Exists(s, manifest[s].latest + 1)

\* The two recoveries that message offers an operator, applied while no
\* command runs: add the snapshot to the manifest, or delete the file.
RecoverAdopt(s) ==
    /\ AllIdle /\ Orphan(s)
    /\ LET n == manifest[s].latest + 1 IN
       /\ snapFile[s][n] = "whole"
       /\ manifest' = [manifest EXCEPT ![s].latest = n, ![s].ids = Append(@, n)]
    /\ UNCHANGED <<snaps, snapFile, manFile, directory, dirFile, chronicle,
                   op, view, issued, acked, crashes>>

RecoverDelete(s) ==
    /\ AllIdle /\ Orphan(s)
    /\ LET n == manifest[s].latest + 1 IN
       /\ snapFile' = [snapFile EXCEPT ![s][n] = "absent"]
       /\ snaps' = [snaps EXCEPT ![s][n] = BlankSnap]
    /\ UNCHANGED <<manifest, manFile, directory, dirFile, chronicle,
                   op, view, issued, acked, crashes>>

\* Every command of the bounded run has ended.
Finished == issued = MaxOps /\ AllIdle /\ UNCHANGED vars

-----------------------------------------------------------------------------
WriterStep(w) ==
    \/ \E k \in Kinds, s \in Shards : Begin(w, k, s)
    \/ DryRun(w)
    \/ CreateLoadManifest(w)
    \/ AppendLoadManifest(w) \/ AppendLoadPrevious(w) \/ AppendCheckOrphan(w)
    \/ FreezeLoadManifest(w)
    \/ SnapshotRefuse(w) \/ SnapshotOpen(w) \/ SnapshotPut(w)
    \/ ManifestOpen(w) \/ ManifestPut(w)
    \/ AppendLoadEntry(w) \/ DirectoryLoad(w) \/ DirectoryOpen(w) \/ DirectoryPut(w)
    \/ ChronicleAppend(w)
    \/ Crash(w)

Query == \E r \in Readers : AskLoadDirectory(r) \/ AskFinish(r)

Next ==
    \/ \E w \in Writers : WriterStep(w)
    \/ Query
    \/ Finished

Operator == \E s \in Shards : RecoverAdopt(s) \/ RecoverDelete(s)

Spec == Init /\ [][Next]_vars
SpecWithRecovery == Init /\ [][Next \/ Operator]_vars

\* One command at a time per shard: the discipline the single-user CLI expects
\* of its user.  Commands on different shards still interleave.
ShardExclusive ==
    \A w1, w2 \in Writers :
        op[w1] # Idle /\ op[w2] # Idle /\ op[w1].shard = op[w2].shard => w1 = w2

SpecPerShard == Init /\ [][(Next \/ Operator) /\ ShardExclusive']_vars

-----------------------------------------------------------------------------
(* Properties of any number of unsynchronised commands, crashes included.  *)

\* Blob first, pointers after: whatever interleaves or dies, no manifest, no
\* directory entry and no directory a query has loaded names a snapshot file
\* that was never created (the write order of appendEventAndSnapshot).
NoDanglingPointer ==
    \A s \in Shards :
        /\ \A n \in 1..manifest[s].latest : Exists(s, n)
        /\ directory[s].snap # 0 => Exists(s, directory[s].snap)
        /\ \A r \in Readers : view[r][s].snap # 0 => Exists(s, view[r][s].snap)

\* The chronicle never tells of a version that is not on disk.
ChronicleNeverInvents ==
    \A i \in 1..Len(chronicle) :
        chronicle[i].new # 0 => Exists(chronicle[i].shard, chronicle[i].new)

\* Whatever a manifest, the routing index, a query's copy of it or the chronicle
\* names is on disk.
FilesExist == NoDanglingPointer /\ ChronicleNeverInvents

-----------------------------------------------------------------------------
(* Properties under one command at a time per shard, with crashes, an      *)
(* operator who repairs orphans, and a directory file shared by all.       *)

Whole(s, n) == snapFile[s][n] = "whole"

\* The manifest's versions are S001..latest without a gap, each a readable file
\* that extends its parent by exactly one event, and at most one file (the
\* orphan) lies beyond them.
VersionChain ==
    \A s \in Shards :
        LET latest == manifest[s].latest IN
        /\ manifest[s].ids = [n \in 1..latest |-> n]
        /\ \A n \in 1..latest :
              /\ Whole(s, n)
              /\ snaps[s][n].parent = n - 1
              /\ Len(snaps[s][n].events) = n - 1
              /\ n > 1 => SubSeq(snaps[s][n].events, 1, n - 2) = snaps[s][n-1].events
        /\ \A n \in SnapIds : n > latest + 1 => ~Exists(s, n)

\* A write that csm reported as applied is, from then on, an event of the
\* shard's latest version: no later command, crash or repair drops it.
AckedWritesSurvive ==
    \A a \in acked :
        LET s == a[1] IN
        /\ manifest[s].latest \in SnapIds
        /\ Whole(s, manifest[s].latest)
        /\ \E i \in 1..Len(snaps[s][manifest[s].latest].events) :
              snaps[s][manifest[s].latest].events[i] = a[2]

\* The routing index may lag behind a shard, after a crash or a lost update,
\* but neither it nor a query's copy of it is ever ahead of the manifest, and
\* what it names can be read.
DirectoryNeverAhead ==
    \A s \in Shards :
        \A e \in {directory[s]} \cup {view[r][s] : r \in Readers} :
            e.snap # 0 => e.snap <= manifest[s].latest /\ Whole(s, e.snap)

\* A snapshot file that was once written whole keeps its content for as long as
\* it exists.  docs/ARCHITECTURE.md:55-57 says so of the storage layer whatever
\* runs beside it ("Snapshots are immutable ... refuses overwrites at the file
\* level"); two appends to one shard refute that, see store_overwrite.
SnapshotFilesImmutable ==
    [][\A s \in Shards : \A n \in SnapIds :
          Whole(s, n) /\ Exists(s, n)' =>
              Whole(s, n)' /\ snaps'[s][n] = snaps[s][n]]_vars

\* Freezing is final: a frozen shard is never thawed and gains no version.
FrozenIsFinal ==
    [][\A s \in Shards :
          manifest[s].status = "frozen" => manifest'[s] = manifest[s]]_vars

\* The chronicle tells each shard's history in order: its creation first, and
\* every version at most once, later ones later.
ChronicleInOrder ==
    \A i, j \in 1..Len(chronicle) :
        LET a == chronicle[i]
            b == chronicle[j]
        IN  i < j /\ a.shard = b.shard /\ b.new # 0 => a.new <= b.old

-----------------------------------------------------------------------------
(* Properties of one command at a time over the whole store.               *)

\* Once a command reaches its chronicle line the directory entry of its shard
\* agrees with the manifest, whatever earlier crashes had left behind.
CommandConverges ==
    \A w \in Writers :
        LET s == op[w].shard IN
        At(w, "log") =>
            \/ directory[s] = [snap |-> manifest[s].latest, status |-> manifest[s].status]
            \/ op[w].kind = "freeze" /\ directory[s].status = "frozen"
            \/ op[w].kind = "freeze" /\ directory[s].snap = 0

\* Without a crash the whole store is consistent between commands: every file
\* readable, directory and manifests equal, nothing orphaned, and the chronicle
\* holds one line per version.
ConsistentAtRest ==
    AllIdle /\ crashes = 0 =>
        /\ dirFile = "whole"
        /\ \A s \in Shards :
              /\ manFile[s] \in {"absent", "whole"}
              /\ directory[s] = [snap |-> manifest[s].latest, status |-> manifest[s].status]
              /\ \A n \in SnapIds : Exists(s, n) <=> n <= manifest[s].latest
              /\ \A n \in 1..manifest[s].latest :
                    \E i \in 1..Len(chronicle) :
                        chronicle[i].shard = s /\ chronicle[i].new = n
=============================================================================
