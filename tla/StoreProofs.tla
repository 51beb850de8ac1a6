---------------------------- MODULE StoreProofs ----------------------------
(***************************************************************************)
(* Theorems about the durable store, for every set of writers, readers and *)
(* shards and every bound.                                                 *)
(*                                                                         *)
(* The first half needs no discipline: any number of commands may run      *)
(* beside each other and die at any step.  The rest is about a shard with  *)
(* one command at a time: what the store keeps of its past, and that its   *)
(* files implement append-only logs.  Crashes may stop a command anywhere, *)
(* an operator may repair an orphan, and commands on other shards and      *)
(* queries run beside it.  The last part is about one command at a time    *)
(* over the whole store, and what it leaves behind.                        *)
(***************************************************************************)
EXTENDS MCCsmStore, TLAPS

-----------------------------------------------------------------------------
(* Type correctness.  TypeOK alone is not inductive: a manifest gains the   *)
(* number a command carries, so that number must be a version.              *)

Past == Steps \ {"idle", "dry", "man"}

Numbered(o) ==
    IF o.pc \in Past /\ o.kind # "freeze"
    THEN o.new = o.man.latest + 1 /\ o.new \in SnapIds
    ELSE o.new = 0 /\ (o.pc \notin Past => o.man.latest = 0)

TypeInv == TypeOK /\ \A w \in Writers : Numbered(op[w])

LEMMA BlankTypes ==
    /\ BlankSnap \in Snapshot
    /\ BlankMan \in Manifest
    /\ BlankDir \in Directory
    /\ Idle \in Op /\ Numbered(Idle)
BY StoreBounds DEF BlankSnap, BlankMan, BlankDir, BlankEntry, Idle, Op, Snapshot,
   Manifest, Directory, Entry, SnapIds, Steps, Kinds, Numbered, Past

LEMMA InitType == Init => TypeInv
BY BlankTypes, StoreBounds DEF Init, TypeInv, TypeOK, FileStates

\* What every step that moves one command on, to the state o, preserves.
LEMMA BecomeType ==
    ASSUME TypeInv, NEW w \in Writers, NEW o \in Op, Numbered(o), Become(w, o)
    PROVE  /\ op' \in [Writers -> Op]
           /\ \A v \in Writers : Numbered(op'[v])
           /\ view' \in [Readers -> Directory]
           /\ issued' \in 0..MaxOps
           /\ crashes' \in 0..MaxCrashes
BY DEF TypeInv, TypeOK, Become

\* A step from one writing phase to another keeps the number of the version.
LEMMA GotoType ==
    ASSUME TypeInv, NEW w \in Writers, op[w].pc \in Past, NEW pc \in Past, Goto(w, pc)
    PROVE  /\ op' \in [Writers -> Op]
           /\ \A v \in Writers : Numbered(op'[v])
           /\ view' \in [Readers -> Directory]
           /\ issued' \in 0..MaxOps
           /\ crashes' \in 0..MaxCrashes
<1>1. op[w] \in Op /\ Numbered(op[w])
  BY DEF TypeInv, TypeOK
<1> DEFINE o == [op[w] EXCEPT !.pc = pc]
<1>2. o \in Op
  BY <1>1 DEF Op, Past
<1>3. o.pc = pc /\ o.kind = op[w].kind /\ o.new = op[w].new /\ o.man = op[w].man
  BY <1>1 DEF Op
<1>4. Become(w, o)
  BY DEF Goto
<1> HIDE DEF o
<1>5. Numbered(o)
  BY <1>1, <1>3 DEF Numbered
<1> QED
  BY <1>2, <1>4, <1>5, BecomeType

\* A step of one command that leaves the disk as it was.
LEMMA AdvanceType ==
    ASSUME TypeInv, NEW w \in Writers, NEW o \in Op, Numbered(o), Become(w, o),
           UNCHANGED <<disk, acked>>
    PROVE  TypeInv'
<1>1. op' \in [Writers -> Op] /\ (\A v \in Writers : Numbered(op'[v]))
      /\ view' \in [Readers -> Directory] /\ issued' \in 0..MaxOps
      /\ crashes' \in 0..MaxCrashes
  BY BecomeType
<1> QED
  BY <1>1 DEF TypeInv, TypeOK, disk, Numbered

LEMMA StopType ==
    ASSUME TypeInv, NEW w \in Writers, Stop(w)
    PROVE  TypeInv'
BY AdvanceType, BlankTypes DEF Stop

LEMMA PassType ==
    ASSUME TypeInv, NEW w \in Writers, op[w].pc \in Past, NEW pc \in Past,
           Goto(w, pc), UNCHANGED <<disk, acked>>
    PROVE  TypeInv'
<1>1. op' \in [Writers -> Op] /\ (\A v \in Writers : Numbered(op'[v]))
      /\ view' \in [Readers -> Directory] /\ issued' \in 0..MaxOps
      /\ crashes' \in 0..MaxCrashes
  BY GotoType
<1> QED
  BY <1>1 DEF TypeInv, TypeOK, disk, Numbered

LEMMA PutType ==
    ASSUME NEW f \in FileStates
    PROVE  AfterPut(f) \subseteq FileStates
BY DEF AfterPut, FileStates

LEMMA NewManifestType ==
    ASSUME NEW o \in Op, Numbered(o), o.pc \in Past
    PROVE  NewManifest(o) \in Manifest
<1>1. /\ o.man \in Manifest /\ o.new \in 0..MaxSnap
  BY DEF Op
<1>2. CASE o.kind = "freeze"
  BY <1>1, <1>2 DEF NewManifest, Manifest
<1>3. CASE o.kind # "freeze"
  <2>1. o.new \in SnapIds
    BY <1>3 DEF Numbered
  <2>2. Append(o.man.ids, o.new) \in Seq(SnapIds)
    BY <1>1, <2>1 DEF Manifest
  <2> QED
    BY <1>1, <1>3, <2>2 DEF NewManifest, Manifest
<1> QED
  BY <1>2, <1>3

LEMMA LogRecordType ==
    ASSUME NEW o \in Op
    PROVE  LogRecord(o) \in Record
BY StoreBounds DEF LogRecord, Record, Op, Manifest, Kinds, Appends

\* One lemma per step of a command.
LEMMA BeginType ==
    ASSUME TypeInv, NEW w \in Writers, NEW k \in Kinds, NEW s \in Shards, Begin(w, k, s)
    PROVE  TypeInv'
<1> DEFINE o == [Idle EXCEPT !.kind = k, !.shard = s, !.id = issued + 1,
                   !.pc = IF k \in {"commit", "freeze"} THEN "dry" ELSE "man"]
<1>1. issued + 1 \in 0..MaxOps
  BY StoreBounds DEF TypeInv, TypeOK, Begin
<1>2. o \in Op
  BY <1>1, BlankTypes DEF Op, Steps
<1>5. o.pc \in {"dry", "man"} /\ o.new = Idle.new /\ o.man = Idle.man
  BY BlankTypes DEF Op
<1>6. Idle.new = 0 /\ Idle.man.latest = 0
  BY DEF Idle, BlankMan
<1>4. op' = [op EXCEPT ![w] = o] /\ issued' = issued + 1
      /\ UNCHANGED <<disk, view, acked, crashes>>
  BY DEF Begin
<1> HIDE DEF o
<1>3. Numbered(o)
  BY <1>5, <1>6 DEF Numbered, Past
<1> QED
  BY <1>1, <1>2, <1>3, <1>4 DEF TypeInv, TypeOK, disk, Numbered

LEMMA DryRunType ==
    ASSUME TypeInv, NEW w \in Writers, DryRun(w)
    PROVE  TypeInv'
<1>1. CASE Stop(w)
  BY <1>1, StopType
<1>2. CASE Goto(w, "man") /\ UNCHANGED <<disk, acked>>
  <2> DEFINE o == [op[w] EXCEPT !.pc = "man"]
  <2>1. op[w] \in Op /\ Numbered(op[w]) /\ op[w].pc = "dry"
    BY DEF TypeInv, TypeOK, DryRun, At
  <2>2. o \in Op /\ o.pc = "man" /\ o.new = op[w].new /\ o.man = op[w].man
    BY <2>1 DEF Op, Steps
  <2>3. Become(w, o)
    BY <1>2 DEF Goto
  <2> HIDE DEF o
  <2>4. Numbered(o)
    BY <2>1, <2>2 DEF Numbered, Past
  <2> QED
    BY <1>2, <2>2, <2>3, <2>4, AdvanceType
<1> QED
  BY <1>1, <1>2 DEF DryRun

\* The steps that read, up to the first write of a command.
LEMMA LoadTypes ==
    ASSUME TypeInv, NEW w \in Writers,
           CreateLoadManifest(w) \/ AppendLoadManifest(w) \/ AppendLoadPrevious(w)
              \/ FreezeLoadManifest(w)
    PROVE  TypeInv'
<1> DEFINE s == op[w].shard
<1>1. /\ op[w] \in Op /\ Numbered(op[w]) /\ s \in Shards
      /\ manifest[s] \in Manifest
      /\ snaps[s] \in [SnapIds -> Snapshot]
  BY DEF TypeInv, TypeOK, Op
<1>2. CASE CreateLoadManifest(w)
  <2> DEFINE o == [op[w] EXCEPT !.pc = "refuse", !.new = 1]
  <2>1. op[w].pc = "man" /\ op[w].kind = "create"
    BY <1>2 DEF CreateLoadManifest, At
  <2>4. Stop(w) \/ (Become(w, o) /\ UNCHANGED <<disk, acked>>)
    BY <1>2 DEF CreateLoadManifest
  <2>5. 1 \in SnapIds /\ 1 \in 0..MaxSnap
    BY StoreBounds DEF SnapIds
  <2>2. o \in Op
    BY <1>1, <2>5 DEF Op, Steps
  <2>6. o.pc = "refuse" /\ o.kind = "create" /\ o.new = 1 /\ o.man = op[w].man
    BY <1>1, <2>1 DEF Op
  <2>7. op[w].man.latest = 0
    BY <1>1, <2>1 DEF Numbered, Past
  <2> HIDE DEF o
  <2>3. Numbered(o)
    BY <2>5, <2>6, <2>7 DEF Numbered, Past, Steps
  <2> QED
    BY <2>2, <2>3, <2>4, AdvanceType, StopType
<1>3. CASE AppendLoadManifest(w)
  <2> DEFINE o == [op[w] EXCEPT !.pc = "prev", !.man = manifest[s],
                                !.new = manifest[s].latest + 1]
  <2>1. op[w].pc = "man" /\ op[w].kind \in Appends
    BY <1>3 DEF AppendLoadManifest, At
  <2>2. Stop(w) \/ (manifest[s].latest < MaxSnap /\ Become(w, o) /\ UNCHANGED <<disk, acked>>)
    BY <1>3 DEF AppendLoadManifest
  <2>3. ASSUME manifest[s].latest < MaxSnap
        PROVE  o \in Op /\ Numbered(o)
    <3>1. manifest[s].latest + 1 \in SnapIds
      BY <1>1, <2>3, StoreBounds DEF Manifest, SnapIds
    <3>2. manifest[s].latest + 1 \in 0..MaxSnap
      BY <3>1 DEF SnapIds
    <3>3. o \in Op
      BY <1>1, <3>2 DEF Op, Steps
    <3>4. /\ o.pc = "prev" /\ o.kind = op[w].kind /\ o.man = manifest[s]
          /\ o.new = manifest[s].latest + 1
      BY <1>1 DEF Op
    <3> HIDE DEF o
    <3> QED
      BY <2>1, <3>1, <3>3, <3>4 DEF Numbered, Past, Appends, Steps
  <2> QED
    BY <2>2, <2>3, AdvanceType, StopType
<1>4. CASE AppendLoadPrevious(w)
  <2> DEFINE n == op[w].man.latest
             o == [op[w] EXCEPT !.pc = "orphan",
                     !.snap = [events |-> Append(snaps[s][n].events, op[w].id), parent |-> n]]
  <2>1. op[w].pc = "prev"
    BY <1>4 DEF AppendLoadPrevious, At
  <2>2. Stop(w) \/ (n \in SnapIds /\ Become(w, o) /\ UNCHANGED <<disk, acked>>)
    BY <1>4 DEF AppendLoadPrevious
  <2>3. ASSUME n \in SnapIds
        PROVE  o \in Op /\ Numbered(o)
    <3>1. snaps[s][n].events \in Seq(Nat) /\ op[w].id \in Nat
      BY <1>1, <2>3, StoreBounds DEF Snapshot, Op
    <3>2. Append(snaps[s][n].events, op[w].id) \in Seq(Nat)
      BY <3>1
    <3>3. [events |-> Append(snaps[s][n].events, op[w].id), parent |-> n] \in Snapshot
      BY <2>3, <3>2 DEF Snapshot, SnapIds
    <3>4. o \in Op
      BY <1>1, <3>3 DEF Op, Steps
    <3>5. /\ o.pc = "orphan" /\ o.kind = op[w].kind /\ o.man = op[w].man
          /\ o.new = op[w].new
      BY <1>1 DEF Op
    <3> HIDE DEF o
    <3> QED
      BY <1>1, <2>1, <3>4, <3>5 DEF Numbered, Past, Steps
  <2> QED
    BY <2>2, <2>3, AdvanceType, StopType
<1>5. CASE FreezeLoadManifest(w)
  <2> DEFINE o == [op[w] EXCEPT !.pc = "openMan", !.man = manifest[s]]
  <2>1. op[w].pc = "man" /\ op[w].kind = "freeze"
    BY <1>5 DEF FreezeLoadManifest, At
  <2>2. o \in Op
    BY <1>1 DEF Op, Steps
  <2>4. Stop(w) \/ (Become(w, o) /\ UNCHANGED <<disk, acked>>)
    BY <1>5 DEF FreezeLoadManifest
  <2>5. o.pc = "openMan" /\ o.kind = "freeze" /\ o.new = op[w].new
    BY <1>1, <2>1 DEF Op
  <2> HIDE DEF o
  <2>3. Numbered(o)
    BY <1>1, <2>1, <2>5 DEF Numbered, Past, Steps
  <2> QED
    BY <2>2, <2>3, <2>4, AdvanceType, StopType
<1> QED
  BY <1>2, <1>3, <1>4, <1>5

LEMMA CheckTypes ==
    ASSUME TypeInv, NEW w \in Writers,
           AppendCheckOrphan(w) \/ SnapshotRefuse(w) \/ AppendLoadEntry(w)
    PROVE  TypeInv'
BY PassType, StopType DEF AppendCheckOrphan, SnapshotRefuse, AppendLoadEntry, At, Past, Steps

\* The steps that write a snapshot file and a manifest.
LEMMA FileTypes ==
    ASSUME TypeInv, NEW w \in Writers,
           SnapshotOpen(w) \/ SnapshotPut(w) \/ ManifestOpen(w) \/ ManifestPut(w)
    PROVE  TypeInv'
<1> DEFINE s == op[w].shard
           GotoOK == /\ op' \in [Writers -> Op]
                     /\ \A v \in Writers : Numbered(op'[v])
                     /\ view' \in [Readers -> Directory]
                     /\ issued' \in 0..MaxOps
                     /\ crashes' \in 0..MaxCrashes
<1>1. /\ op[w] \in Op /\ Numbered(op[w]) /\ s \in Shards
      /\ snapFile \in [Shards -> [SnapIds -> FileStates]]
      /\ manFile \in [Shards -> FileStates]
      /\ snaps \in [Shards -> [SnapIds -> Snapshot]]
      /\ manifest \in [Shards -> Manifest]
  BY DEF TypeInv, TypeOK, Op
<1>2. GotoOK
  BY GotoType DEF SnapshotOpen, SnapshotPut, ManifestOpen, ManifestPut, At, Past, Steps
<1>3. CASE SnapshotOpen(w)
  <2>1. snapFile' \in [Shards -> [SnapIds -> FileStates]]
    BY <1>1, <1>3 DEF SnapshotOpen, FileStates
  <2> QED
    BY <1>2, <1>3, <2>1 DEF SnapshotOpen, TypeInv, TypeOK
<1>4. CASE SnapshotPut(w)
  <2> DEFINE n == op[w].new
  <2>1. PICK f \in AfterPut(snapFile[s][n]) : snapFile' = [snapFile EXCEPT ![s][n] = f]
    BY <1>4 DEF SnapshotPut
  <2>2. f \in FileStates
    BY <2>1 DEF AfterPut, FileStates
  <2>3. snapFile' \in [Shards -> [SnapIds -> FileStates]]
    BY <1>1, <2>1, <2>2
  <2>4. op[w].snap \in Snapshot
    BY <1>1 DEF Op
  <2>5. snaps' \in [Shards -> [SnapIds -> Snapshot]]
    BY <1>1, <1>4, <2>4 DEF SnapshotPut
  <2> QED
    BY <1>2, <1>4, <2>3, <2>5 DEF SnapshotPut, TypeInv, TypeOK
<1>5. CASE ManifestOpen(w)
  <2>1. manFile' \in [Shards -> FileStates]
    BY <1>1, <1>5 DEF ManifestOpen, FileStates
  <2> QED
    BY <1>2, <1>5, <2>1 DEF ManifestOpen, TypeInv, TypeOK
<1>6. CASE ManifestPut(w)
  <2>1. PICK f \in AfterPut(manFile[s]) : manFile' = [manFile EXCEPT ![s] = f]
    BY <1>6 DEF ManifestPut
  <2>2. manFile' \in [Shards -> FileStates]
    BY <1>1, <2>1 DEF AfterPut, FileStates
  <2>3. NewManifest(op[w]) \in Manifest
    BY <1>1, <1>6, NewManifestType DEF ManifestPut, At, Past, Steps
  <2>4. manifest' \in [Shards -> Manifest]
    BY <1>1, <1>6, <2>3 DEF ManifestPut
  <2> QED
    BY <1>2, <1>6, <2>2, <2>4 DEF ManifestPut, TypeInv, TypeOK
<1> QED
  BY <1>3, <1>4, <1>5, <1>6

\* The steps on directory.json and the chronicle.
LEMMA DirectoryTypes ==
    ASSUME TypeInv, NEW w \in Writers,
           DirectoryLoad(w) \/ DirectoryOpen(w) \/ DirectoryPut(w) \/ ChronicleAppend(w)
    PROVE  TypeInv'
<1> DEFINE s == op[w].shard
<1>1. /\ op[w] \in Op /\ Numbered(op[w]) /\ s \in Shards
      /\ directory \in Directory /\ dirFile \in FileStates
      /\ directory[s] \in Entry
  BY DEF TypeInv, TypeOK, Op, Directory
<1>2. CASE DirectoryLoad(w)
  <2> DEFINE entry == IF op[w].kind = "freeze"
                      THEN [directory[s] EXCEPT !.status = "frozen"]
                      ELSE [snap |-> op[w].new, status |-> op[w].man.status]
             o == [op[w] EXCEPT !.pc = "openDir", !.dir = [directory EXCEPT ![s] = entry]]
  <2>1. op[w].pc = "dir"
    BY <1>2 DEF DirectoryLoad, At
  <2>2. entry \in Entry
    BY <1>1 DEF Entry, Op, Manifest
  <2>3. o \in Op
    BY <1>1, <2>2 DEF Op, Steps, Directory
  <2>6. o.pc = "openDir" /\ o.kind = op[w].kind /\ o.new = op[w].new /\ o.man = op[w].man
    BY <1>1 DEF Op
  <2>5. \/ Stop(w)
        \/ Goto(w, "log") /\ UNCHANGED <<disk, acked>>
        \/ Become(w, o) /\ UNCHANGED <<disk, acked>>
    BY <1>2 DEF DirectoryLoad, Goto
  <2> HIDE DEF o
  <2>4. Numbered(o)
    BY <1>1, <2>1, <2>6 DEF Numbered, Past, Steps
  <2> QED
    BY <2>1, <2>3, <2>4, <2>5, AdvanceType, PassType, StopType DEF Past, Steps
<1>3. CASE DirectoryOpen(w)
  <2>1. /\ op' \in [Writers -> Op] /\ (\A v \in Writers : Numbered(op'[v]))
        /\ view' \in [Readers -> Directory] /\ issued' \in 0..MaxOps
        /\ crashes' \in 0..MaxCrashes
    BY <1>3, GotoType DEF DirectoryOpen, At, Past, Steps
  <2> QED
    BY <1>3, <2>1 DEF DirectoryOpen, TypeInv, TypeOK, FileStates
<1>4. CASE DirectoryPut(w)
  <2>1. /\ op' \in [Writers -> Op] /\ (\A v \in Writers : Numbered(op'[v]))
        /\ view' \in [Readers -> Directory] /\ issued' \in 0..MaxOps
        /\ crashes' \in 0..MaxCrashes
    BY <1>4, GotoType DEF DirectoryPut, At, Past, Steps
  <2>2. directory' \in Directory /\ dirFile' \in FileStates
    BY <1>1, <1>4 DEF DirectoryPut, Op, AfterPut, FileStates
  <2> QED
    BY <1>4, <2>1, <2>2 DEF DirectoryPut, TypeInv, TypeOK
<1>5. CASE ChronicleAppend(w)
  <2>1. /\ op' \in [Writers -> Op] /\ (\A v \in Writers : Numbered(op'[v]))
        /\ view' \in [Readers -> Directory] /\ issued' \in 0..MaxOps
        /\ crashes' \in 0..MaxCrashes
    BY <1>5, BecomeType, BlankTypes DEF ChronicleAppend
  <2>2. chronicle' \in Seq(Record)
    BY <1>1, <1>5, LogRecordType DEF ChronicleAppend, TypeInv, TypeOK
  <2>3. acked' \subseteq Shards \X (0..MaxOps)
    BY <1>1, <1>5 DEF ChronicleAppend, TypeInv, TypeOK, Op
  <2> QED
    BY <1>5, <2>1, <2>2, <2>3 DEF ChronicleAppend, TypeInv, TypeOK
<1> QED
  BY <1>2, <1>3, <1>4, <1>5
\* The steps outside a command: a crash, a query, an operator, the end.
LEMMA OutsideTypes ==
    ASSUME TypeInv,
           \/ \E w \in Writers : Crash(w)
           \/ Query \/ Operator \/ Finished
    PROVE  TypeInv'
<1>1. CASE \E w \in Writers : Crash(w)
  BY <1>1, BlankTypes, StoreBounds DEF Crash, TypeInv, TypeOK, disk, Numbered
<1>2. CASE Query
  BY <1>2, BlankTypes DEF Query, AskLoadDirectory, AskFinish, TypeInv, TypeOK, disk, Numbered
<1>3. CASE Operator
  <2>1. PICK s \in Shards : RecoverAdopt(s) \/ RecoverDelete(s)
    BY <1>3 DEF Operator
  <2> DEFINE n == manifest[s].latest + 1
  <2>2. /\ manifest \in [Shards -> Manifest] /\ manifest[s] \in Manifest
        /\ snapFile \in [Shards -> [SnapIds -> FileStates]]
        /\ snaps \in [Shards -> [SnapIds -> Snapshot]]
    BY DEF TypeInv, TypeOK
  <2>3. n \in SnapIds /\ n \in 0..MaxSnap
    BY <2>1, <2>2, StoreBounds DEF RecoverAdopt, RecoverDelete, Orphan, Manifest, SnapIds
  <2>4. CASE RecoverAdopt(s)
    <3> DEFINE m == [manifest[s] EXCEPT !.latest = n, !.ids = Append(@, n)]
    <3>1. m \in Manifest
      <4>1. Append(manifest[s].ids, n) \in Seq(SnapIds)
        BY <2>2, <2>3 DEF Manifest
      <4> QED
        BY <2>2, <2>3, <4>1 DEF Manifest
    <3>2. manifest' = [manifest EXCEPT ![s] = m]
      BY <2>2, <2>4 DEF RecoverAdopt, Manifest
    <3> HIDE DEF m
    <3>3. manifest' \in [Shards -> Manifest]
      BY <2>2, <3>1, <3>2
    <3> QED
      BY <2>4, <3>3 DEF RecoverAdopt, TypeInv, TypeOK, Numbered
  <2>5. CASE RecoverDelete(s)
    <3>1. snapFile' \in [Shards -> [SnapIds -> FileStates]]
      BY <2>2, <2>5 DEF RecoverDelete, FileStates
    <3>2. snaps' \in [Shards -> [SnapIds -> Snapshot]]
      BY <2>2, <2>5, BlankTypes DEF RecoverDelete
    <3> QED
      BY <2>5, <3>1, <3>2 DEF RecoverDelete, TypeInv, TypeOK, Numbered
  <2> QED
    BY <2>1, <2>4, <2>5
<1>4. CASE Finished
  BY <1>4 DEF Finished, vars, disk, TypeInv, TypeOK, Numbered
<1> QED
  BY <1>1, <1>2, <1>3, <1>4

LEMMA NextType ==
    ASSUME TypeInv, [Next \/ Operator]_vars
    PROVE  TypeInv'
<1>1. CASE \E w \in Writers : WriterStep(w)
  <2>1. PICK w \in Writers : WriterStep(w)
    BY <1>1
  <2> QED
    BY <2>1, BeginType, DryRunType, LoadTypes, CheckTypes, FileTypes, DirectoryTypes,
       OutsideTypes DEF WriterStep
<1>2. CASE Query \/ Operator \/ Finished
  BY <1>2, OutsideTypes
<1>3. CASE UNCHANGED vars
  BY <1>3 DEF vars, disk, TypeInv, TypeOK, Numbered
<1> QED
  BY <1>1, <1>2, <1>3 DEF Next

\* Whatever commands run beside each other, crash or are repaired, every file,
\* command and history keeps its type, and every command that adds a version
\* carries the number that follows the manifest it read.
THEOREM TypeCorrect == SpecWithRecovery => []TypeOK
<1>1. Init => TypeInv
  BY InitType
<1>2. TypeInv /\ [Next \/ Operator]_vars => TypeInv'
  BY NextType
<1>3. TypeInv => TypeOK
  BY DEF TypeInv
<1> QED
  BY <1>1, <1>2, <1>3, PTL DEF SpecWithRecovery

-----------------------------------------------------------------------------
(* No dangling pointer.  The inductive invariant follows every pointer to a *)
(* snapshot from the manifest a command read, through the version it adds   *)
(* and the directory it is about to save, to the files it ends up in.  sf   *)
(* stands for the snapshot files, now or after a step.                      *)

On(sf, s, n) == sf[s][n] # "absent"

ManifestOn(sf, s, m) == \A n \in 1..m.latest : On(sf, s, n)
DirectoryOn(sf, d) == \A s \in Shards : d[s].snap # 0 => On(sf, s, d[s].snap)
LineOn(sf, line) == line.new # 0 => On(sf, line.shard, line.new)

\* The phases in which the file of the version being added exists.
Holding == {"putSnap", "openMan", "putMan", "entry", "dir", "openDir", "putDir", "log"}

Backed(sf, o) ==
    /\ ManifestOn(sf, o.shard, o.man)
    /\ DirectoryOn(sf, o.dir)
    /\ o.pc \in Holding /\ o.kind # "freeze" => On(sf, o.shard, o.new)

BackedInv ==
    /\ \A s \in Shards : ManifestOn(snapFile, s, manifest[s])
    /\ DirectoryOn(snapFile, directory)
    /\ \A r \in Readers : DirectoryOn(snapFile, view[r])
    /\ \A i \in 1..Len(chronicle) : LineOn(snapFile, chronicle[i])
    /\ \A w \in Writers : Backed(snapFile, op[w])

Grows(sf, sg) == \A s \in Shards, n \in SnapIds : On(sf, s, n) => On(sg, s, n)

LEMMA InitBacked == Init => BackedInv
BY StoreBounds DEF Init, BackedInv, ManifestOn, DirectoryOn, LineOn, Backed, Holding,
   BlankMan, BlankDir, BlankEntry, Idle

LEMMA ManifestStays ==
    ASSUME NEW sf, NEW sg, Grows(sf, sg), NEW s \in Shards, NEW m \in Manifest,
           ManifestOn(sf, s, m)
    PROVE  ManifestOn(sg, s, m)
<1>1. m.latest \in 0..MaxSnap
  BY DEF Manifest
<1> QED
  BY <1>1, StoreBounds DEF ManifestOn, Grows, SnapIds

LEMMA DirectoryStays ==
    ASSUME NEW sf, NEW sg, Grows(sf, sg), NEW d \in Directory, DirectoryOn(sf, d)
    PROVE  DirectoryOn(sg, d)
<1>1. \A s \in Shards : d[s].snap \in 0..MaxSnap
  BY DEF Directory, Entry
<1>2. \A s \in Shards : d[s].snap # 0 => d[s].snap \in SnapIds
  BY <1>1, StoreBounds DEF SnapIds
<1> QED
  BY <1>2 DEF DirectoryOn, Grows

LEMMA LineStays ==
    ASSUME NEW sf, NEW sg, Grows(sf, sg), NEW line \in Record, LineOn(sf, line)
    PROVE  LineOn(sg, line)
BY StoreBounds DEF LineOn, Grows, Record, SnapIds

LEMMA BackedStays ==
    ASSUME NEW sf, NEW sg, Grows(sf, sg), NEW o \in Op, Numbered(o), Backed(sf, o)
    PROVE  Backed(sg, o)
<1>1. o.shard \in Shards /\ o.man \in Manifest /\ o.dir \in Directory
  BY DEF Op
<1>2. ManifestOn(sg, o.shard, o.man) /\ DirectoryOn(sg, o.dir)
  BY <1>1, ManifestStays, DirectoryStays DEF Backed
<1>3. ASSUME o.pc \in Holding, o.kind # "freeze"
      PROVE  On(sg, o.shard, o.new)
  <2>1. On(sf, o.shard, o.new)
    BY <1>3 DEF Backed
  <2>2. o.new \in SnapIds
    BY <1>3 DEF Numbered, Holding, Past, Steps
  <2> QED
    BY <1>1, <2>1, <2>2 DEF Grows
<1> QED
  BY <1>2, <1>3 DEF Backed

\* One command moves; every pointer it creates is backed by a file.
LEMMA BackedStep ==
    ASSUME TypeInv, TypeInv', BackedInv, NEW w \in Writers,
           Grows(snapFile, snapFile'),
           \A v \in Writers : v # w => op'[v] = op[v],
           Backed(snapFile', op'[w]),
           \A s \in Shards : manifest'[s] = manifest[s] \/ ManifestOn(snapFile', s, manifest'[s]),
           directory' = directory \/ DirectoryOn(snapFile', directory'),
           view' = view,
           \/ chronicle' = chronicle
           \/ \E line \in Record : LineOn(snapFile', line) /\ chronicle' = Append(chronicle, line)
    PROVE  BackedInv'
<1>1. \A s \in Shards : ManifestOn(snapFile', s, manifest'[s])
  <2> TAKE s \in Shards
  <2>1. manifest[s] \in Manifest /\ ManifestOn(snapFile, s, manifest[s])
    BY DEF TypeInv, TypeOK, BackedInv
  <2>2. ManifestOn(snapFile', s, manifest[s])
    BY <2>1, ManifestStays
  <2> QED
    BY <2>2
<1>2. DirectoryOn(snapFile', directory')
  <2>1. directory \in Directory /\ DirectoryOn(snapFile, directory)
    BY DEF TypeInv, TypeOK, BackedInv
  <2> QED
    BY <2>1, DirectoryStays
<1>3. \A r \in Readers : DirectoryOn(snapFile', view'[r])
  <2> TAKE r \in Readers
  <2>1. view[r] \in Directory /\ DirectoryOn(snapFile, view[r])
    BY DEF TypeInv, TypeOK, BackedInv
  <2> QED
    BY <2>1, DirectoryStays
<1>4. \A i \in 1..Len(chronicle') : LineOn(snapFile', chronicle'[i])
  <2>1. chronicle \in Seq(Record)
    BY DEF TypeInv, TypeOK
  <2>2. \A i \in 1..Len(chronicle) : LineOn(snapFile', chronicle[i])
    <3> TAKE i \in 1..Len(chronicle)
    <3>1. chronicle[i] \in Record /\ LineOn(snapFile, chronicle[i])
      BY <2>1 DEF BackedInv
    <3> QED
      BY <3>1, LineStays
  <2>3. CASE chronicle' = chronicle
    BY <2>2, <2>3
  <2>4. ASSUME NEW line \in Record, LineOn(snapFile', line),
               chronicle' = Append(chronicle, line)
        PROVE  \A i \in 1..Len(chronicle') : LineOn(snapFile', chronicle'[i])
    <3> TAKE i \in 1..Len(chronicle')
    <3>1. CASE i \in 1..Len(chronicle)
      BY <2>1, <2>2, <2>4, <3>1
    <3>2. CASE i = Len(chronicle) + 1
      BY <2>1, <2>4, <3>2
    <3> QED
      BY <2>1, <2>4, <3>1, <3>2
  <2> QED
    BY <2>3, <2>4
<1>5. \A v \in Writers : Backed(snapFile', op'[v])
  <2> TAKE v \in Writers
  <2>1. op[v] \in Op /\ Numbered(op[v]) /\ Backed(snapFile, op[v])
    BY DEF TypeInv, TypeOK, BackedInv
  <2>2. Backed(snapFile', op[v])
    BY <2>1, BackedStays
  <2> QED
    BY <2>2
<1> QED
  BY <1>1, <1>2, <1>3, <1>4, <1>5 DEF BackedInv

LEMMA IdleBacked == ASSUME NEW sf PROVE Backed(sf, Idle)
BY DEF Backed, ManifestOn, DirectoryOn, Idle, BlankMan, BlankDir, BlankEntry, Holding

\* A step of one command that leaves the disk as it was.
LEMMA BackedAdvance ==
    ASSUME TypeInv, TypeInv', BackedInv, NEW w \in Writers, NEW o,
           Backed(snapFile, o), op' = [op EXCEPT ![w] = o], UNCHANGED <<disk, view>>
    PROVE  BackedInv'
<1>1. op'[w] = o /\ (\A v \in Writers : v # w => op'[v] = op[v])
  BY DEF TypeInv, TypeOK
<1>2. /\ snapFile' = snapFile /\ manifest' = manifest /\ directory' = directory
      /\ view' = view /\ chronicle' = chronicle
  BY DEF disk
<1>3. Grows(snapFile, snapFile')
  BY <1>2 DEF Grows
<1> QED
  BY <1>1, <1>2, <1>3, BackedStep

LEMMA BackedStop ==
    ASSUME TypeInv, TypeInv', BackedInv, NEW w \in Writers, Stop(w)
    PROVE  BackedInv'
BY BackedAdvance, IdleBacked DEF Stop, Become

\* A command moves on from a phase that holds its file, or to one that need not.
LEMMA BackedPass ==
    ASSUME TypeInv, TypeInv', BackedInv, NEW w \in Writers, NEW pc,
           pc \in Holding => op[w].pc \in Holding,
           Goto(w, pc), UNCHANGED <<disk, acked>>
    PROVE  BackedInv'
<1> DEFINE o == [op[w] EXCEPT !.pc = pc]
<1>1. op[w] \in Op /\ Backed(snapFile, op[w])
  BY DEF TypeInv, TypeOK, BackedInv
<1>2. /\ o.pc = pc /\ o.kind = op[w].kind /\ o.shard = op[w].shard
      /\ o.man = op[w].man /\ o.new = op[w].new /\ o.dir = op[w].dir
  BY <1>1 DEF Op
<1>3. op' = [op EXCEPT ![w] = o] /\ view' = view
  BY DEF Goto, Become
<1> HIDE DEF o
<1>4. Backed(snapFile, o)
  BY <1>1, <1>2 DEF Backed
<1> QED
  BY <1>3, <1>4, BackedAdvance

\* The steps that leave the disk as it was.
LEMMA BackedReads ==
    ASSUME TypeInv, TypeInv', BackedInv, NEW w \in Writers,
           \/ DryRun(w)
           \/ CreateLoadManifest(w) \/ AppendLoadManifest(w) \/ AppendLoadPrevious(w)
           \/ AppendCheckOrphan(w) \/ FreezeLoadManifest(w) \/ SnapshotRefuse(w)
           \/ AppendLoadEntry(w)
    PROVE  BackedInv'
<1> DEFINE s == op[w].shard
<1>1. /\ op[w] \in Op /\ s \in Shards /\ Backed(snapFile, op[w])
      /\ ManifestOn(snapFile, s, manifest[s])
  BY DEF TypeInv, TypeOK, BackedInv, Op
<1>2. CASE DryRun(w) \/ AppendCheckOrphan(w) \/ SnapshotRefuse(w) \/ AppendLoadEntry(w)
  BY <1>2, BackedPass, BackedStop
     DEF DryRun, AppendCheckOrphan, SnapshotRefuse, AppendLoadEntry, Holding, At
<1>3. CASE CreateLoadManifest(w)
  <2> DEFINE o == [op[w] EXCEPT !.pc = "refuse", !.new = 1]
  <2>1. Stop(w) \/ (Become(w, o) /\ UNCHANGED <<disk, acked>>)
    BY <1>3 DEF CreateLoadManifest
  <2>2. o.pc = "refuse" /\ o.shard = s /\ o.man = op[w].man /\ o.dir = op[w].dir
    BY <1>1 DEF Op
  <2> HIDE DEF o
  <2>3. Backed(snapFile, o)
    BY <1>1, <2>2 DEF Backed, Holding
  <2> QED
    BY <2>1, <2>3, BackedAdvance, BackedStop DEF Become
<1>4. CASE AppendLoadManifest(w)
  <2> DEFINE o == [op[w] EXCEPT !.pc = "prev", !.man = manifest[s],
                                !.new = manifest[s].latest + 1]
  <2>1. Stop(w) \/ (Become(w, o) /\ UNCHANGED <<disk, acked>>)
    BY <1>4 DEF AppendLoadManifest
  <2>2. o.pc = "prev" /\ o.shard = s /\ o.man = manifest[s] /\ o.dir = op[w].dir
    BY <1>1 DEF Op
  <2> HIDE DEF o
  <2>3. Backed(snapFile, o)
    BY <1>1, <2>2 DEF Backed, Holding
  <2> QED
    BY <2>1, <2>3, BackedAdvance, BackedStop DEF Become
<1>5. CASE AppendLoadPrevious(w)
  <2> DEFINE n == op[w].man.latest
             o == [op[w] EXCEPT !.pc = "orphan",
                     !.snap = [events |-> Append(snaps[s][n].events, op[w].id), parent |-> n]]
  <2>1. Stop(w) \/ (Become(w, o) /\ UNCHANGED <<disk, acked>>)
    BY <1>5 DEF AppendLoadPrevious
  <2>2. o.pc = "orphan" /\ o.shard = s /\ o.man = op[w].man /\ o.dir = op[w].dir
    BY <1>1 DEF Op
  <2> HIDE DEF o
  <2>3. Backed(snapFile, o)
    BY <1>1, <2>2 DEF Backed, Holding
  <2> QED
    BY <2>1, <2>3, BackedAdvance, BackedStop DEF Become
<1>6. CASE FreezeLoadManifest(w)
  <2> DEFINE o == [op[w] EXCEPT !.pc = "openMan", !.man = manifest[s]]
  <2>1. op[w].kind = "freeze" /\ (Stop(w) \/ (Become(w, o) /\ UNCHANGED <<disk, acked>>))
    BY <1>6 DEF FreezeLoadManifest
  <2>2. o.kind = op[w].kind /\ o.shard = s /\ o.man = manifest[s] /\ o.dir = op[w].dir
    BY <1>1 DEF Op
  <2> HIDE DEF o
  <2>3. Backed(snapFile, o)
    BY <1>1, <2>1, <2>2 DEF Backed
  <2> QED
    BY <2>1, <2>3, BackedAdvance, BackedStop DEF Become
<1> QED
  BY <1>2, <1>3, <1>4, <1>5, <1>6

\* The steps that write: the snapshot file appears before any pointer to it.
LEMMA BackedWrites ==
    ASSUME TypeInv, TypeInv', BackedInv, NEW w \in Writers,
           \/ SnapshotOpen(w) \/ SnapshotPut(w) \/ ManifestOpen(w) \/ ManifestPut(w)
           \/ DirectoryLoad(w) \/ DirectoryOpen(w) \/ DirectoryPut(w) \/ ChronicleAppend(w)
    PROVE  BackedInv'
<1> DEFINE s == op[w].shard
           n == op[w].new
           Moved(pc) == /\ op' = [op EXCEPT ![w] = [op[w] EXCEPT !.pc = pc]]
                        /\ view' = view
<1>1. /\ op \in [Writers -> Op] /\ op[w] \in Op /\ s \in Shards
      /\ Numbered(op[w]) /\ Backed(snapFile, op[w])
      /\ snapFile \in [Shards -> [SnapIds -> FileStates]]
      /\ manifest \in [Shards -> Manifest] /\ directory \in Directory
  BY DEF TypeInv, TypeOK, BackedInv, Op
<1>2. ASSUME NEW pc, Moved(pc)
      PROVE  /\ \A v \in Writers : v # w => op'[v] = op[v]
             /\ op'[w].pc = pc /\ op'[w].kind = op[w].kind /\ op'[w].shard = s
             /\ op'[w].man = op[w].man /\ op'[w].new = n /\ op'[w].dir = op[w].dir
  BY <1>1, <1>2 DEF Op
<1>3. Grows(snapFile, snapFile)
  BY DEF Grows
<1>4. CASE SnapshotOpen(w)
  <2>1. /\ snapFile' = [snapFile EXCEPT ![s][n] = "empty"] /\ Moved("putSnap")
        /\ op[w].pc = "openSnap"
        /\ UNCHANGED <<manifest, directory, chronicle>>
    BY <1>4 DEF SnapshotOpen, Goto, Become, At
  <2>2. Grows(snapFile, snapFile')
    BY <1>1, <2>1 DEF Grows, On
  <2>3. op[w].kind # "freeze" => On(snapFile', s, n)
    BY <1>1, <2>1 DEF On, Numbered, Past, Steps
  <2>4. Backed(snapFile', op[w])
    BY <1>1, <2>1, <2>2, BackedStays
  <2>5. Backed(snapFile', op'[w])
    BY <1>2, <2>1, <2>3, <2>4 DEF Backed
  <2> QED
    BY <1>2, <2>1, <2>2, <2>5, BackedStep
<1>5. CASE SnapshotPut(w)
  <2>1. /\ Moved("openMan") /\ op[w].pc = "putSnap"
        /\ UNCHANGED <<manifest, directory, chronicle>>
    BY <1>5 DEF SnapshotPut, Goto, Become, At
  <2>2. PICK f \in AfterPut(snapFile[s][n]) : snapFile' = [snapFile EXCEPT ![s][n] = f]
    BY <1>5 DEF SnapshotPut
  <2>3. f # "absent"
    BY <2>2 DEF AfterPut
  <2>4. Grows(snapFile, snapFile')
    BY <1>1, <2>2, <2>3 DEF Grows, On
  <2>5. Backed(snapFile', op[w])
    BY <1>1, <2>4, BackedStays
  <2>6. Backed(snapFile', op'[w])
    BY <1>2, <2>1, <2>5 DEF Backed, Holding
  <2> QED
    BY <1>2, <2>1, <2>4, <2>6, BackedStep
<1>6. CASE ManifestOpen(w)
  <2>1. /\ Moved("putMan") /\ op[w].pc = "openMan"
        /\ UNCHANGED <<snapFile, manifest, directory, chronicle>>
    BY <1>6 DEF ManifestOpen, Goto, Become, At
  <2>2. Backed(snapFile', op'[w])
    BY <1>1, <1>2, <2>1 DEF Backed, Holding
  <2> QED
    BY <1>2, <1>3, <2>1, <2>2, BackedStep
<1>7. CASE ManifestPut(w)
  <2> DEFINE pc == IF op[w].kind \in Appends THEN "entry" ELSE "dir"
  <2>1. /\ Moved(pc) /\ op[w].pc = "putMan"
        /\ manifest' = [manifest EXCEPT ![s] = NewManifest(op[w])]
        /\ UNCHANGED <<snapFile, directory, chronicle>>
    BY <1>7 DEF ManifestPut, Goto, Become, At
  <2>2. Backed(snapFile', op'[w])
    BY <1>1, <1>2, <2>1 DEF Backed, Holding
  <2>3. ManifestOn(snapFile, s, NewManifest(op[w]))
    <3>1. op[w].man \in Manifest /\ ManifestOn(snapFile, s, op[w].man)
      BY <1>1 DEF Op, Backed
    <3>2. CASE op[w].kind = "freeze"
      <4>1. NewManifest(op[w]).latest = op[w].man.latest
        BY <3>1, <3>2 DEF NewManifest, Manifest
      <4> QED
        BY <3>1, <4>1 DEF ManifestOn
    <3>3. CASE op[w].kind # "freeze"
      <4>1. NewManifest(op[w]).latest = n
        BY <3>1, <3>3 DEF NewManifest, Manifest
      <4>2. n = op[w].man.latest + 1 /\ On(snapFile, s, n)
        BY <1>1, <2>1, <3>3 DEF Numbered, Past, Steps, Backed, Holding
      <4>3. op[w].man.latest \in Nat
        BY <3>1, StoreBounds DEF Manifest
      <4> QED
        BY <3>1, <4>1, <4>2, <4>3 DEF ManifestOn
    <3> QED
      BY <3>2, <3>3
  <2>4. \A t \in Shards : manifest'[t] = manifest[t] \/ ManifestOn(snapFile', t, manifest'[t])
    BY <1>1, <2>1, <2>3
  <2> HIDE DEF pc
  <2> QED
    BY <1>2, <1>3, <2>1, <2>2, <2>4, BackedStep
<1>8. CASE DirectoryLoad(w)
  <2> DEFINE entry == IF op[w].kind = "freeze"
                      THEN [directory[s] EXCEPT !.status = "frozen"]
                      ELSE [snap |-> n, status |-> op[w].man.status]
             d == [directory EXCEPT ![s] = entry]
             o == [op[w] EXCEPT !.pc = "openDir", !.dir = d]
  <2>1. /\ op[w].pc = "dir"
        /\ \/ Stop(w)
           \/ Goto(w, "log") /\ UNCHANGED <<disk, acked>>
           \/ Become(w, o) /\ UNCHANGED <<disk, acked>>
    BY <1>8 DEF DirectoryLoad, Goto, At
  <2>2. entry.snap = IF op[w].kind = "freeze" THEN directory[s].snap ELSE n
    BY <1>1 DEF Directory, Entry
  <2>3. DirectoryOn(snapFile, directory)
    BY DEF BackedInv
  <2>4. op[w].kind # "freeze" => On(snapFile, s, n)
    BY <1>1, <2>1 DEF Backed, Holding
  <2>5. DirectoryOn(snapFile, d)
    <3> HIDE DEF entry
    <3>1. \A t \in Shards : d[t] = IF t = s THEN entry ELSE directory[t]
      BY <1>1 DEF Directory
    <3> HIDE DEF d
    <3> QED
      BY <2>2, <2>3, <2>4, <3>1 DEF DirectoryOn
  <2>6. /\ o.pc = "openDir" /\ o.kind = op[w].kind /\ o.shard = s
        /\ o.man = op[w].man /\ o.new = n /\ o.dir = d
    BY <1>1 DEF Op
  <2> HIDE DEF o, d
  <2>7. Backed(snapFile, o)
    BY <1>1, <2>4, <2>5, <2>6 DEF Backed
  <2>8. CASE Become(w, o) /\ UNCHANGED <<disk, acked>>
    BY <2>7, <2>8, BackedAdvance DEF Become
  <2> QED
    BY <2>1, <2>8, BackedPass, BackedStop DEF Holding
<1>9. CASE DirectoryOpen(w)
  <2>1. /\ Moved("putDir") /\ op[w].pc = "openDir"
        /\ UNCHANGED <<snapFile, manifest, directory, chronicle>>
    BY <1>9 DEF DirectoryOpen, Goto, Become, At
  <2>2. Backed(snapFile', op'[w])
    BY <1>1, <1>2, <2>1 DEF Backed, Holding
  <2> QED
    BY <1>2, <1>3, <2>1, <2>2, BackedStep
<1>10. CASE DirectoryPut(w)
  <2>1. /\ Moved("log") /\ op[w].pc = "putDir" /\ directory' = op[w].dir
        /\ UNCHANGED <<snapFile, manifest, chronicle>>
    BY <1>10 DEF DirectoryPut, Goto, Become, At
  <2>2. Backed(snapFile', op'[w]) /\ DirectoryOn(snapFile', directory')
    BY <1>1, <1>2, <2>1 DEF Backed, Holding
  <2> QED
    BY <1>2, <1>3, <2>1, <2>2, BackedStep
<1>11. CASE ChronicleAppend(w)
  <2>1. /\ op' = [op EXCEPT ![w] = Idle] /\ view' = view /\ op[w].pc = "log"
        /\ chronicle' = Append(chronicle, LogRecord(op[w]))
        /\ UNCHANGED <<snapFile, manifest, directory>>
    BY <1>11 DEF ChronicleAppend, Become, At
  <2>2. LogRecord(op[w]).new = n /\ LogRecord(op[w]).shard = s
    BY DEF LogRecord
  <2>3. LineOn(snapFile, LogRecord(op[w]))
    BY <1>1, <2>1, <2>2 DEF LineOn, Backed, Holding, Numbered, Past, Steps
  <2>4. LogRecord(op[w]) \in Record
    BY <1>1, LogRecordType
  <2>5. Backed(snapFile', op'[w]) /\ (\A v \in Writers : v # w => op'[v] = op[v])
    BY <1>1, <2>1, IdleBacked
  <2> QED
    BY <1>3, <2>1, <2>3, <2>4, <2>5, BackedStep
<1> QED
  BY <1>4, <1>5, <1>6, <1>7, <1>8, <1>9, <1>10, <1>11

LEMMA NextBacked ==
    ASSUME TypeInv, BackedInv, [Next]_vars
    PROVE  BackedInv'
<1>1. TypeInv'
  BY NextType
<1>2. ASSUME NEW w \in Writers, WriterStep(w)
      PROVE  BackedInv'
  <2>1. CASE \E k \in Kinds, s \in Shards : Begin(w, k, s)
    <3>1. PICK k \in Kinds, s \in Shards : Begin(w, k, s)
      BY <2>1
    <3> DEFINE o == [Idle EXCEPT !.kind = k, !.shard = s, !.id = issued + 1,
                      !.pc = IF k \in {"commit", "freeze"} THEN "dry" ELSE "man"]
    <3>2. o.pc \notin Holding /\ o.man = BlankMan /\ o.dir = BlankDir
      BY DEF Idle, Holding
    <3>3. op' = [op EXCEPT ![w] = o] /\ UNCHANGED <<disk, view>>
      BY <3>1 DEF Begin
    <3> HIDE DEF o
    <3>4. Backed(snapFile, o)
      BY <3>2 DEF Backed, ManifestOn, DirectoryOn, BlankMan, BlankDir, BlankEntry
    <3> QED
      BY <1>1, <3>3, <3>4, BackedAdvance
  <2>2. CASE Crash(w)
    BY <1>1, <2>2, BackedAdvance, IdleBacked DEF Crash
  <2> QED
    BY <1>1, <1>2, <2>1, <2>2, BackedReads, BackedWrites DEF WriterStep
<1>3. CASE Query
  <2>1. PICK r \in Readers : AskLoadDirectory(r) \/ AskFinish(r)
    BY <1>3 DEF Query
  <2>2. DirectoryOn(snapFile, BlankDir)
    BY DEF DirectoryOn, BlankDir, BlankEntry
  <2>3. /\ UNCHANGED <<disk, op>>
        /\ \/ view' = [view EXCEPT ![r] = directory]
           \/ view' = [view EXCEPT ![r] = BlankDir]
    BY <2>1 DEF AskLoadDirectory, AskFinish
  <2>4. view \in [Readers -> Directory]
    BY DEF TypeInv, TypeOK
  <2> QED
    BY <2>2, <2>3, <2>4 DEF BackedInv, disk
<1>4. CASE UNCHANGED vars
  BY <1>4 DEF vars, disk, BackedInv
<1> QED
  BY <1>2, <1>3, <1>4 DEF Next, Finished

\* Whatever commands interleave, on the same shard or not, and wherever they
\* die: no manifest, no directory entry and no directory a query holds names a
\* snapshot that was never created (commit.ts writes the blob, then pointers).
THEOREM PointersNeverDangle == Spec => []NoDanglingPointer
<1>1. Init => TypeInv /\ BackedInv
  BY InitType, InitBacked
<1>2. TypeInv /\ BackedInv /\ [Next]_vars => (TypeInv /\ BackedInv)'
  BY NextType, NextBacked
<1>3. BackedInv => NoDanglingPointer
  BY DEF BackedInv, NoDanglingPointer, ManifestOn, DirectoryOn, On, Exists
<1> QED
  BY <1>1, <1>2, <1>3, PTL DEF Spec

\* Under the same conditions the chronicle tells of no version that is not on
\* disk: its line is the last thing a command writes.
THEOREM ChronicleIsBacked == Spec => []ChronicleNeverInvents
<1>1. Init => TypeInv /\ BackedInv
  BY InitType, InitBacked
<1>2. TypeInv /\ BackedInv /\ [Next]_vars => (TypeInv /\ BackedInv)'
  BY NextType, NextBacked
<1>3. BackedInv => ChronicleNeverInvents
  BY DEF BackedInv, ChronicleNeverInvents, LineOn, On, Exists
<1> QED
  BY <1>1, <1>2, <1>3, PTL DEF Spec

\* Together: whatever a manifest, the routing index, a query's copy of it or the
\* chronicle names is on disk, whoever wrote it and wherever it died.
THEOREM FilesAlwaysExist == Spec => []FilesExist
<1>1. NoDanglingPointer /\ ChronicleNeverInvents => FilesExist
  BY DEF FilesExist
<1> QED
  BY <1>1, PointersNeverDangle, ChronicleIsBacked, PTL

-----------------------------------------------------------------------------
(* The past of the disciplined store.  PastInv is inductive.  It adds to   *)
(* the properties what a command in flight knows of its shard at each of   *)
(* its steps: nobody moves the manifest it read, the version it writes     *)
(* extends the latest one, and an orphan it leaves can be adopted.         *)

Has(c, e) == \E i \in 1..Len(c.events) : c.events[i] = e

\* Content c of version n: the version before it and one event more.
Extends(c, n, sn) ==
  /\ c.parent = n - 1
  /\ Len(c.events) = n - 1
  /\ n > 1 => SubSeq(c.events, 1, n - 2) = sn[n - 1].events

\* A shard's files: versions 1..latest, and possibly the orphan behind them.
Chain(m, sf, sn) ==
  /\ m.ids = [n \in 1..m.latest |-> n]
  /\ \A n \in 1..m.latest : sf[n] = "whole"
  /\ \A n \in SnapIds : n > m.latest + 1 => sf[n] = "absent"
  /\ \A n \in SnapIds : sf[n] = "whole" => Extends(sn[n], n, sn)

ShardInv(s) == /\ Chain(manifest[s], snapFile[s], snaps[s])
               /\ manFile[s] = "absent" => manifest[s] = BlankMan

Fresh == {"dry", "man"}
Adding == {"prev", "orphan", "refuse", "openSnap", "putSnap"}
Built == {"orphan", "refuse", "openSnap", "putSnap", "openMan", "putMan"}
Saving == {"openMan", "putMan"}
Telling == {"entry", "dir", "openDir", "putDir", "log"}

\* What command o knows of its shard, whose manifest is m and whose files are sf, sn.
Flight(o, m, sf, sn) ==
  /\ o.pc \in Fresh => o.man = BlankMan /\ o.snap = BlankSnap
  /\ o.kind = "create" => o.man = BlankMan
  /\ o.pc \in Adding => o.kind # "freeze"
  /\ o.pc = "prev" => o.kind \in Appends
  /\ o.pc \in Adding \cup Saving => o.man = m
  /\ o.pc \in Adding \cup Saving /\ o.kind # "freeze" => m.status = "active"
  /\ o.pc \in Built /\ o.kind # "freeze" => Extends(o.snap, m.latest + 1, sn)
  /\ o.pc \in Built /\ o.kind \in Appends => Has(o.snap, o.id)
  /\ o.pc = "openSnap" => sf[o.new] = "absent"
  /\ o.pc = "putSnap" => sf[o.new] = "empty"
  /\ o.pc \in Saving /\ o.kind # "freeze" => sf[o.new] = "whole" /\ sn[o.new] = o.snap
  /\ o.pc \in Telling /\ o.kind # "freeze" => m.latest = o.new
  /\ o.pc \in Telling /\ o.kind \in Appends => Has(sn[o.new], o.id)

InFlight(w) ==
  LET s == op[w].shard IN Flight(op[w], manifest[s], snapFile[s], snaps[s])

\* A write that was reported is in the latest version of its shard.
Holds(a) == /\ manifest[a[1]].latest \in SnapIds
            /\ Has(snaps[a[1]][manifest[a[1]].latest], a[2])

\* The command's line will come after every line on its shard.
Adds(o) == o.pc \in Telling /\ o.kind # "freeze"
ToldInOrder ==
  /\ \A i \in 1..Len(chronicle) :
       /\ chronicle[i].new <= manifest[chronicle[i].shard].latest
       /\ \A w \in Writers : Adds(op[w]) /\ chronicle[i].shard = op[w].shard
                               => chronicle[i].new <= op[w].man.latest
  /\ ChronicleInOrder

Behind(d) == \A s \in Shards : d[s].snap <= manifest[s].latest
IndexBehind == /\ Behind(directory)
               /\ \A r \in Readers : Behind(view[r])
               /\ \A w \in Writers : Behind(op[w].dir)

PastInv == /\ TypeInv
           /\ ShardExclusive
           /\ \A s \in Shards : ShardInv(s)
           /\ \A w \in Writers : InFlight(w)
           /\ \A a \in acked : Holds(a)
           /\ ToldInOrder
           /\ IndexBehind

-----------------------------------------------------------------------------
(* Frames: what one command's step leaves as it was.                       *)

LEMMA IdleFlight == ASSUME NEW m, NEW sf, NEW sn PROVE Flight(Idle, m, sf, sn)
BY DEF Flight, Idle, Fresh, Adding, Saving, Built, Telling

LEMMA Types ==
  ASSUME TypeInv
  PROVE  /\ manifest \in [Shards -> Manifest] /\ snaps \in [Shards -> [SnapIds -> Snapshot]]
         /\ snapFile \in [Shards -> [SnapIds -> FileStates]] /\ manFile \in [Shards -> FileStates]
         /\ op \in [Writers -> Op] /\ view \in [Readers -> Directory] /\ directory \in Directory
         /\ \A w \in Writers : op[w] \in Op /\ op[w].shard \in Shards /\ Numbered(op[w])
         /\ \A s \in Shards : manifest[s] \in Manifest /\ manifest[s].latest \in Nat
BY StoreBounds DEF TypeInv, TypeOK, Op, Manifest

LEMMA OneAtATime ==
  ASSUME ShardExclusive, NEW w \in Writers, op[w] # Idle, NEW v \in Writers \ {w}
  PROVE  op[v] = Idle \/ op[v].shard # op[w].shard
BY DEF ShardExclusive

LEMMA BusyIsNotIdle == \A w \in Writers : op[w].pc # "idle" => op[w] # Idle
BY DEF Idle

\* The conclusions the events of a version allow carry over to the next.
LEMMA ExtendsHas ==
  ASSUME NEW n \in Nat \ {0}, NEW c, c.events \in Seq(Nat), NEW sn, sn[n].events \in Seq(Nat),
         Extends(c, n + 1, sn), Len(sn[n].events) = n - 1, NEW e, Has(sn[n], e)
  PROVE  Has(c, e)
<1>1. Len(c.events) = n /\ SubSeq(c.events, 1, n - 1) = sn[n].events
  <2>1. (n + 1) - 1 = n /\ (n + 1) - 2 = n - 1 /\ n + 1 > 1
    OBVIOUS
  <2> QED BY <2>1 DEF Extends
<1>2. PICK i \in 1..Len(sn[n].events) : sn[n].events[i] = e
  BY DEF Has
<1>3. i \in 1..n - 1 /\ i \in 1..n
  BY <1>2
<1>4. SubSeq(c.events, 1, n - 1)[i] = c.events[i]
  BY <1>1, <1>3
<1> QED BY <1>1, <1>2, <1>3, <1>4 DEF Has

\* Command w of shard s takes a step; what it writes is on its own shard.
LEMMA StepKeeps ==
  ASSUME PastInv, TypeInv', ShardExclusive', NEW w \in Writers, NEW s \in Shards, NEW o,
         op' = [op EXCEPT ![w] = o], o.shard = s,
         view' = view, acked' = acked, chronicle' = chronicle,
         \/ UNCHANGED <<manifest, manFile, snapFile, snaps>>
         \/ op[w] # Idle /\ op[w].shard = s,
         \A t \in Shards \ {s} : /\ manifest'[t] = manifest[t] /\ manFile'[t] = manFile[t]
                                 /\ snapFile'[t] = snapFile[t] /\ snaps'[t] = snaps[t],
         ShardInv(s)',
         Flight(o, manifest'[s], snapFile'[s], snaps'[s]),
         manifest[s].latest <= manifest'[s].latest,
         \A e : manifest[s].latest \in SnapIds /\ Has(snaps[s][manifest[s].latest], e)
                  => /\ manifest'[s].latest \in SnapIds
                     /\ Has(snaps'[s][manifest'[s].latest], e),
         Adds(o) => /\ op[w].shard = s
                    /\ \/ Adds(op[w]) /\ o.man = op[w].man
                       \/ o.man.latest = manifest[s].latest,
         Behind(o.dir), Behind(directory')
  PROVE  PastInv'
<1>1. /\ op'[w] = o /\ \A v \in Writers \ {w} : op'[v] = op[v]
      /\ \A v \in Writers : op[v].shard \in Shards
      /\ \A t \in Shards : manifest[t].latest \in Nat /\ manifest'[t].latest \in Nat
  <2>1. TypeInv /\ op \in [Writers -> Op]
    BY Types DEF PastInv
  <2>2. \A t \in Shards : manifest'[t].latest \in Nat
    BY StoreBounds DEF TypeInv, TypeOK, Manifest
  <2> QED BY <2>1, <2>2, Types
<1>2. \A t \in Shards : manifest[t].latest <= manifest'[t].latest
  BY <1>1
<1>3. (\A t \in Shards : ShardInv(t))'
  BY DEF PastInv, ShardInv
<1>4. (\A v \in Writers : InFlight(v))'
  <2> SUFFICES ASSUME NEW v \in Writers PROVE InFlight(v)'
    OBVIOUS
  <2>1. CASE v = w
    BY <1>1, <2>1 DEF InFlight
  <2>2. CASE v # w /\ op[v] = Idle
    BY <1>1, <2>2, IdleFlight DEF InFlight
  <2>3. CASE v # w /\ op[v].shard # s
    BY <1>1, <2>3 DEF PastInv, InFlight
  <2>4. CASE v # w /\ UNCHANGED <<manifest, manFile, snapFile, snaps>>
    BY <1>1, <2>4 DEF PastInv, InFlight
  <2>5. CASE v # w /\ op[w] # Idle /\ op[w].shard = s
    BY <2>2, <2>3, <2>5, OneAtATime DEF PastInv
  <2> QED BY <2>1, <2>4, <2>5
<1>5. (\A a \in acked : Holds(a))'
  <2> SUFFICES ASSUME NEW a \in acked PROVE Holds(a)'
    OBVIOUS
  <2>1. a[1] \in Shards /\ Holds(a)
    BY DEF PastInv, TypeInv, TypeOK
  <2>2. CASE a[1] = s
    BY <2>1, <2>2 DEF Holds
  <2>3. CASE a[1] # s
    BY <2>1, <2>3 DEF Holds
  <2> QED BY <2>2, <2>3
<1>6. ToldInOrder'
  <2>1. ChronicleInOrder'
    BY DEF PastInv, ToldInOrder, ChronicleInOrder
  <2> SUFFICES ASSUME NEW i \in 1..Len(chronicle)
               PROVE  /\ chronicle[i].new <= manifest'[chronicle[i].shard].latest
                      /\ \A v \in Writers : Adds(op'[v]) /\ chronicle[i].shard = op'[v].shard
                                             => chronicle[i].new <= op'[v].man.latest
    BY <2>1 DEF ToldInOrder, Adds
  <2>2. /\ chronicle[i] \in Record /\ chronicle[i].shard \in Shards /\ chronicle[i].new \in Nat
        /\ chronicle[i].new <= manifest[chronicle[i].shard].latest
    <3>1. chronicle[i] \in Record
      BY DEF PastInv, TypeInv, TypeOK
    <3> QED BY <3>1, StoreBounds DEF Record, PastInv, ToldInOrder
  <2>3. chronicle[i].new <= manifest'[chronicle[i].shard].latest
    BY <1>1, <1>2, <2>2
  <2>4. ASSUME NEW v \in Writers, Adds(op'[v]), chronicle[i].shard = op'[v].shard
        PROVE  chronicle[i].new <= op'[v].man.latest
    <3>1. CASE v = w
      BY <1>1, <2>2, <2>4, <3>1 DEF PastInv, ToldInOrder
    <3>2. CASE v # w
      BY <1>1, <2>4, <3>2 DEF PastInv, ToldInOrder
    <3> QED BY <3>1, <3>2
  <2> QED BY <2>3, <2>4
<1>7. IndexBehind'
  <2>1. ASSUME NEW d \in Directory, Behind(d) PROVE Behind(d)'
    <3>1. \A t \in Shards : d[t].snap \in Nat
      BY StoreBounds DEF Directory, Entry
    <3> QED BY <1>1, <1>2, <2>1, <3>1 DEF Behind
  <2>2. directory' \in Directory /\ (\A r \in Readers : view[r] \in Directory)
        /\ o.dir \in Directory /\ \A v \in Writers : op[v].dir \in Directory
    <3>1. o \in Op
      BY <1>1 DEF TypeInv, TypeOK
    <3> QED BY <3>1 DEF PastInv, TypeInv, TypeOK, Op
  <2>3. /\ Behind(directory)
        /\ \A r \in Readers : Behind(view[r])
        /\ \A v \in Writers : Behind(op[v].dir)
    BY DEF PastInv, IndexBehind
  <2>4. \A t \in Shards : directory'[t].snap <= manifest'[t].latest
    <3>1. \A t \in Shards : directory'[t].snap \in Nat
      BY <2>2, StoreBounds DEF Directory, Entry
    <3> QED BY <1>1, <1>2, <3>1 DEF Behind
  <2>5. \A r \in Readers : Behind(view[r])'
    BY <2>1, <2>2, <2>3
  <2>6. \A v \in Writers : \A t \in Shards : op'[v].dir[t].snap <= manifest'[t].latest
    <3>1. \A v \in Writers : op'[v].dir \in Directory /\ (\A t \in Shards : op'[v].dir[t].snap \in Nat)
      <4>1. \A v \in Writers : op'[v] \in Op
        BY DEF TypeInv, TypeOK
      <4> QED BY <4>1, StoreBounds DEF Op, Directory, Entry
    <3>2. \A v \in Writers : \A t \in Shards : op'[v].dir[t].snap <= manifest[t].latest
      BY <1>1, <2>3 DEF Behind
    <3> QED BY <1>1, <1>2, <3>1, <3>2
  <2> QED BY <2>4, <2>5, <2>6 DEF IndexBehind, Behind
<1> QED BY <1>3, <1>4, <1>5, <1>6, <1>7 DEF PastInv

\* The same for a step that writes nothing of a shard ...
LEMMA IndexStepKeeps ==
  ASSUME PastInv, TypeInv', ShardExclusive', NEW w \in Writers, NEW o, o.shard \in Shards,
         op' = [op EXCEPT ![w] = o],
         UNCHANGED <<manifest, manFile, snapFile, snaps, chronicle, view, acked>>,
         Flight(o, manifest[o.shard], snapFile[o.shard], snaps[o.shard]),
         Adds(o) => o.shard = op[w].shard /\ Adds(op[w]) /\ o.man = op[w].man,
         Behind(o.dir), Behind(directory')
  PROVE  PastInv'
<1>2. ShardInv(o.shard)'
  BY DEF PastInv, ShardInv
<1>3. manifest[o.shard].latest \in Nat /\ manifest[o.shard].latest <= manifest'[o.shard].latest
  BY Types DEF PastInv
<1>4. Flight(o, manifest'[o.shard], snapFile'[o.shard], snaps'[o.shard])
  OBVIOUS
<1>5. \A e : manifest[o.shard].latest \in SnapIds /\ Has(snaps[o.shard][manifest[o.shard].latest], e)
               => /\ manifest'[o.shard].latest \in SnapIds
                  /\ Has(snaps'[o.shard][manifest'[o.shard].latest], e)
  OBVIOUS
<1>6. \A t \in Shards \ {o.shard} :
         /\ manifest'[t] = manifest[t] /\ manFile'[t] = manFile[t]
         /\ snapFile'[t] = snapFile[t] /\ snaps'[t] = snaps[t]
  OBVIOUS
<1>7. view' = view /\ acked' = acked /\ chronicle' = chronicle
  OBVIOUS
<1> QED BY <1>2, <1>3, <1>4, <1>5, <1>6, <1>7, StepKeeps

\* ... and for one that writes nothing at all.
LEMMA MoveKeeps ==
  ASSUME PastInv, TypeInv', ShardExclusive', NEW w \in Writers, NEW o, o.shard \in Shards,
         op' = [op EXCEPT ![w] = o], UNCHANGED <<disk, view, acked>>,
         Flight(o, manifest[o.shard], snapFile[o.shard], snaps[o.shard]),
         Adds(o) => o.shard = op[w].shard /\ Adds(op[w]) /\ o.man = op[w].man,
         Behind(o.dir)
  PROVE  PastInv'
<1>1. UNCHANGED <<manifest, manFile, snapFile, snaps, chronicle, view, acked>>
  BY DEF disk
<1>2. Behind(directory')
  <2>1. directory' = directory
    BY DEF disk
  <2> QED BY <2>1 DEF PastInv, IndexBehind
<1> QED BY <1>1, <1>2, IndexStepKeeps

LEMMA StopKeeps ==
  ASSUME PastInv, TypeInv', ShardExclusive', NEW w \in Writers,
         op' = [op EXCEPT ![w] = Idle], UNCHANGED <<disk, view, acked>>
  PROVE  PastInv'
<1>1. Idle.shard \in Shards /\ Idle.dir = BlankDir /\ ~Adds(Idle)
  BY BlankTypes DEF Op, Adds, Telling, Idle
<1>2. Behind(BlankDir)
  BY Types DEF Behind, BlankDir, BlankEntry, PastInv
<1> QED BY <1>1, <1>2, IdleFlight, MoveKeeps

\* What holds of a command that is about to take a step.
LEMMA Known ==
  ASSUME PastInv, NEW w \in Writers
  PROVE  /\ op[w] \in Op /\ op[w].shard \in Shards /\ Numbered(op[w])
         /\ InFlight(w) /\ Behind(op[w].dir)
         /\ ShardInv(op[w].shard)
         /\ manifest[op[w].shard] \in Manifest /\ manifest[op[w].shard].latest \in Nat
         /\ \A n \in SnapIds : snaps[op[w].shard][n] \in Snapshot
BY Types DEF PastInv, IndexBehind

LEMMA BeginKeeps ==
  ASSUME PastInv, TypeInv', ShardExclusive', NEW w \in Writers, NEW k \in Kinds, NEW s \in Shards,
         Begin(w, k, s)
  PROVE  PastInv'
<1> DEFINE o == [Idle EXCEPT !.kind = k, !.shard = s, !.id = issued + 1,
                   !.pc = IF k \in {"commit", "freeze"} THEN "dry" ELSE "man"]
<1>1. op' = [op EXCEPT ![w] = o] /\ UNCHANGED <<disk, view, acked>>
  BY DEF Begin
<1>2. /\ o.pc \in Fresh /\ o.shard = s /\ o.man = BlankMan /\ o.snap = BlankSnap
      /\ o.dir = BlankDir
  BY DEF Idle, Fresh
<1> HIDE DEF o
<1>3. Flight(o, manifest[s], snapFile[s], snaps[s]) /\ ~Adds(o)
  BY <1>2 DEF Flight, Fresh, Adding, Saving, Built, Telling, Adds
<1>4. Behind(o.dir)
  BY <1>2, Types DEF Behind, BlankDir, BlankEntry, PastInv
<1> QED BY <1>1, <1>2, <1>3, <1>4, MoveKeeps

\* A command goes on to another step with nothing but its pc changed.
LEMMA PassKeeps ==
  ASSUME PastInv, TypeInv', ShardExclusive', NEW w \in Writers, NEW pc, Goto(w, pc),
         UNCHANGED <<disk, acked>>,
         \/ op[w].pc = "dry" /\ pc = "man"
         \/ op[w].pc = "orphan" /\ pc = "refuse"
         \/ /\ op[w].pc = "refuse" /\ pc = "openSnap"
            /\ ~Exists(op[w].shard, op[w].new)
         \/ op[w].pc = "entry" /\ pc = "dir"
         \/ op[w].pc = "dir" /\ pc = "log"
  PROVE  PastInv'
<1> DEFINE o == [op[w] EXCEPT !.pc = pc]
           s == op[w].shard
<1>1. op' = [op EXCEPT ![w] = o] /\ view' = view
  BY DEF Goto, Become
<1>2. op[w] \in Op /\ s \in Shards /\ InFlight(w) /\ Behind(op[w].dir)
  BY Known
<1>3. /\ o.pc = pc /\ o.kind = op[w].kind /\ o.shard = s /\ o.id = op[w].id /\ o.man = op[w].man
      /\ o.new = op[w].new /\ o.snap = op[w].snap /\ o.dir = op[w].dir
  BY <1>2 DEF Op
<1> HIDE DEF o
<1>4. Flight(o, manifest[s], snapFile[s], snaps[s])
  BY <1>2, <1>3 DEF InFlight, Flight, Fresh, Adding, Saving, Built, Telling, Exists
<1>5. Adds(o) => Adds(op[w])
  BY <1>3 DEF Adds, Telling
<1> QED BY <1>1, <1>2, <1>3, <1>4, <1>5, MoveKeeps

LEMMA PassesKeep ==
  ASSUME PastInv, TypeInv', ShardExclusive', NEW w \in Writers,
         DryRun(w) \/ AppendCheckOrphan(w) \/ SnapshotRefuse(w) \/ AppendLoadEntry(w)
  PROVE  PastInv'
<1>1. ASSUME Stop(w) PROVE PastInv'
  BY <1>1, StopKeeps DEF Stop, Become
<1> QED BY <1>1, PassKeeps DEF DryRun, AppendCheckOrphan, SnapshotRefuse, AppendLoadEntry, At

LEMMA LoadsKeep ==
  ASSUME PastInv, TypeInv', ShardExclusive', NEW w \in Writers,
         CreateLoadManifest(w) \/ AppendLoadManifest(w) \/ FreezeLoadManifest(w)
  PROVE  PastInv'
<1> DEFINE s == op[w].shard
<1>1. ASSUME Stop(w) PROVE PastInv'
  BY <1>1, StopKeeps DEF Stop, Become
<1>2. /\ op[w] \in Op /\ s \in Shards /\ InFlight(w) /\ Behind(op[w].dir) /\ Numbered(op[w])
      /\ ShardInv(s)
  BY Known
<1>3. op[w].pc = "man" /\ op[w].man = BlankMan /\ op[w].snap = BlankSnap
  <2>1. op[w].pc = "man"
    BY DEF CreateLoadManifest, AppendLoadManifest, FreezeLoadManifest, At
  <2> QED BY <1>2, <2>1 DEF InFlight, Flight, Fresh
<1>4. CASE CreateLoadManifest(w)
  <2> DEFINE o == [op[w] EXCEPT !.pc = "refuse", !.new = 1]
  <2>1. /\ op[w].kind = "create"
        /\ Stop(w) \/ (manFile[s] = "absent" /\ Become(w, o) /\ UNCHANGED <<disk, acked>>)
    BY <1>4 DEF CreateLoadManifest
  <2>2. /\ o.pc = "refuse" /\ o.kind = "create" /\ o.shard = s /\ o.man = BlankMan /\ o.snap = BlankSnap
        /\ o.dir = op[w].dir
    BY <1>2, <1>3, <2>1 DEF Op
  <2> HIDE DEF o
  <2>3. ASSUME manFile[s] = "absent" PROVE Flight(o, manifest[s], snapFile[s], snaps[s])
    <3>1. manifest[s] = BlankMan
      BY <1>2, <2>3 DEF ShardInv
    <3>2. Extends(BlankSnap, 1, snaps[s]) /\ BlankMan.latest + 1 = 1 /\ BlankMan.status = "active"
      BY DEF Extends, BlankSnap, BlankMan
    <3> QED BY <2>2, <3>1, <3>2 DEF Flight, Fresh, Adding, Saving, Built, Telling, Appends
  <2>4. ~Adds(o)
    BY <2>2 DEF Adds, Telling
  <2> QED BY <1>1, <1>2, <2>1, <2>2, <2>3, <2>4, MoveKeeps DEF Become
<1>5. CASE AppendLoadManifest(w)
  <2> DEFINE o == [op[w] EXCEPT !.pc = "prev", !.man = manifest[s], !.new = manifest[s].latest + 1]
  <2>1. /\ op[w].kind \in Appends
        /\ \/ Stop(w)
           \/ manifest[s].status = "active" /\ Become(w, o) /\ UNCHANGED <<disk, acked>>
    BY <1>5 DEF AppendLoadManifest
  <2>2. /\ o.pc = "prev" /\ o.kind \in Appends /\ o.shard = s /\ o.man = manifest[s]
        /\ o.dir = op[w].dir
    BY <1>2, <2>1 DEF Op
  <2> HIDE DEF o
  <2>3. ASSUME manifest[s].status = "active" PROVE Flight(o, manifest[s], snapFile[s], snaps[s])
    BY <2>2, <2>3 DEF Flight, Fresh, Adding, Saving, Built, Telling, Appends
  <2>4. ~Adds(o)
    BY <2>2 DEF Adds, Telling
  <2> QED BY <1>1, <1>2, <2>1, <2>2, <2>3, <2>4, MoveKeeps DEF Become
<1>6. CASE FreezeLoadManifest(w)
  <2> DEFINE o == [op[w] EXCEPT !.pc = "openMan", !.man = manifest[s]]
  <2>1. /\ op[w].kind = "freeze"
        /\ Stop(w) \/ (Become(w, o) /\ UNCHANGED <<disk, acked>>)
    BY <1>6 DEF FreezeLoadManifest
  <2>2. /\ o.pc = "openMan" /\ o.kind = "freeze" /\ o.shard = s /\ o.man = manifest[s]
        /\ o.dir = op[w].dir
    BY <1>2, <2>1 DEF Op
  <2> HIDE DEF o
  <2>3. Flight(o, manifest[s], snapFile[s], snaps[s])
    BY <2>2 DEF Flight, Fresh, Adding, Saving, Built, Telling, Appends
  <2>4. ~Adds(o)
    BY <2>2 DEF Adds, Telling
  <2> QED BY <1>1, <1>2, <2>1, <2>2, <2>3, <2>4, MoveKeeps DEF Become
<1> QED BY <1>4, <1>5, <1>6

\* The new version: the latest one's events and the command's own.
LEMMA AppendExtends ==
  ASSUME NEW n \in Nat \ {0}, NEW e \in Nat, NEW old \in Seq(Nat), Len(old) = n - 1,
         NEW sn, sn[n].events = old, NEW c, c = [events |-> Append(old, e), parent |-> n]
  PROVE  Extends(c, n + 1, sn) /\ Has(c, e)
<1>1. c.events = Append(old, e) /\ c.parent = n
  OBVIOUS
<1>2. Len(c.events) = n /\ c.events[n] = e
  BY <1>1
<1>3. SubSeq(Append(old, e), 1, n - 1) = old
  <2>1. SubSeq(Append(old, e), 1, n - 1) \in Seq(Nat) /\ Len(SubSeq(Append(old, e), 1, n - 1)) = n - 1
    OBVIOUS
  <2>2. \A i \in 1..n - 1 : SubSeq(Append(old, e), 1, n - 1)[i] = old[i]
    OBVIOUS
  <2> QED BY <2>1, <2>2
<1>4. (n + 1) - 1 = n /\ (n + 1) - 2 = n - 1
  OBVIOUS
<1>5. SubSeq(c.events, 1, (n + 1) - 2) = sn[(n + 1) - 1].events
  BY <1>1, <1>3, <1>4
<1> QED BY <1>1, <1>2, <1>4, <1>5 DEF Extends, Has

LEMMA LoadPreviousKeeps ==
  ASSUME PastInv, TypeInv', ShardExclusive', NEW w \in Writers, AppendLoadPrevious(w)
  PROVE  PastInv'
<1>1. ASSUME Stop(w) PROVE PastInv'
  BY <1>1, StopKeeps DEF Stop, Become
<1>2. PICK s \in Shards : s = op[w].shard
  BY Known
<1>3. /\ op[w] \in Op /\ InFlight(w) /\ Behind(op[w].dir)
      /\ ShardInv(s) /\ \A k \in SnapIds : snaps[s][k] \in Snapshot
  BY <1>2, Known
<1>4. PICK n : n = op[w].man.latest
  OBVIOUS
<1>5. PICK c : c = [events |-> Append(snaps[s][n].events, op[w].id), parent |-> n]
  OBVIOUS
<1>6. PICK o : o = [op[w] EXCEPT !.pc = "orphan", !.snap = c]
  OBVIOUS
<1>7. /\ op[w].pc = "prev"
      /\ \/ Stop(w)
         \/ /\ n \in SnapIds /\ snapFile[s][n] = "whole"
            /\ Become(w, o) /\ UNCHANGED <<disk, acked>>
  BY <1>2, <1>4, <1>5, <1>6 DEF AppendLoadPrevious, At
<1>8. op[w].kind \in Appends /\ op[w].man = manifest[s] /\ manifest[s].status = "active"
  BY <1>2, <1>3, <1>7 DEF InFlight, Flight, Adding, Appends
<1>9. /\ o.pc = "orphan" /\ o.kind = op[w].kind /\ o.shard = s /\ o.id = op[w].id /\ o.man = op[w].man
      /\ o.snap = c /\ o.dir = op[w].dir
  BY <1>2, <1>3, <1>6 DEF Op
<1>10. ASSUME n \in SnapIds, snapFile[s][n] = "whole"
       PROVE  Extends(c, n + 1, snaps[s]) /\ Has(c, op[w].id)
  <2>1. n \in Nat \ {0} /\ op[w].id \in Nat
    BY <1>3, <1>10, StoreBounds DEF SnapIds, Op
  <2>2. snaps[s][n].events \in Seq(Nat)
    BY <1>3, <1>10 DEF Snapshot
  <2>3. Len(snaps[s][n].events) = n - 1
    BY <1>3, <1>10 DEF ShardInv, Chain, Extends
  <2> QED BY <1>5, <2>1, <2>2, <2>3, AppendExtends
<1>11. ASSUME n \in SnapIds, snapFile[s][n] = "whole"
      PROVE  Flight(o, manifest[s], snapFile[s], snaps[s])
  BY <1>4, <1>8, <1>9, <1>10, <1>11 DEF Flight, Fresh, Adding, Saving, Built, Telling, Appends
<1>12. ~Adds(o)
  BY <1>9 DEF Adds, Telling
<1> QED BY <1>1, <1>2, <1>3, <1>7, <1>9, <1>11, <1>12, MoveKeeps DEF Become
-----------------------------------------------------------------------------
(* The steps that write a shard's own files, first over their contents.    *)

SnapFiles == [SnapIds -> FileStates]
SnapMap == [SnapIds -> Snapshot]

\* What the step of a command that is adding version o.new may rely on.
LEMMA NewNumber ==
  ASSUME NEW o \in Op, Numbered(o), o.pc \in Past, o.kind # "freeze", NEW m \in Manifest,
         o.man = m
  PROVE  /\ o.new = m.latest + 1 /\ m.latest \in Nat /\ o.new \in Nat
         /\ o.new \in SnapIds /\ o.new # m.latest /\ o.new - 1 = m.latest
<1>1. m.latest \in Nat /\ o.new = m.latest + 1 /\ o.new \in SnapIds
  BY StoreBounds DEF Manifest, Numbered
<1> QED BY <1>1 DEF SnapIds

LEMMA OpenChain ==
  ASSUME NEW o \in Op, Numbered(o), NEW m \in Manifest, NEW sf \in SnapFiles, NEW sn \in SnapMap,
         Chain(m, sf, sn), Flight(o, m, sf, sn), o.pc = "openSnap",
         NEW q, q = [o EXCEPT !.pc = "putSnap"],
         NEW tf, tf = [sf EXCEPT ![o.new] = "empty"]
  PROVE  Chain(m, tf, sn) /\ Flight(q, m, tf, sn)
<1>1. o.kind # "freeze" /\ o.man = m /\ m.status = "active" /\ o.pc \in Past
  BY DEF Flight, Adding, Past, Steps
<1>2. /\ o.new = m.latest + 1 /\ m.latest \in Nat /\ o.new \in SnapIds
  BY <1>1, NewNumber
<1>3. tf[o.new] = "empty" /\ \A n \in SnapIds : n # o.new => tf[n] = sf[n]
  BY <1>2 DEF SnapFiles
<1>4. /\ q.pc = "putSnap" /\ q.kind = o.kind /\ q.id = o.id /\ q.man = o.man
      /\ q.new = o.new /\ q.snap = o.snap
  BY DEF Op
<1>5. Flight(q, m, tf, sn)
  BY <1>1, <1>3, <1>4 DEF Flight, Fresh, Adding, Saving, Built, Telling
<1>6. \A n \in 1..m.latest : n \in SnapIds /\ n # o.new
  BY <1>2, StoreBounds DEF SnapIds
<1>7. Chain(m, tf, sn)
  BY <1>2, <1>3, <1>6 DEF Chain
<1> QED BY <1>5, <1>7

\* Two steps of one command, apart from where they are.
SameCommand(o, q) == /\ q.kind = o.kind /\ q.id = o.id /\ q.man = o.man /\ q.new = o.new
                     /\ q.snap = o.snap /\ q.shard = o.shard /\ q.dir = o.dir

\* Command o, about to write its version, and q after it: tf and tn are the
\* shard's files then.
Writes(o, q, m, sf, sn, tf, tn) ==
  /\ o \in Op /\ Numbered(o) /\ m \in Manifest /\ sf \in SnapFiles /\ sn \in SnapMap
  /\ Chain(m, sf, sn) /\ Flight(o, m, sf, sn) /\ o.pc = "putSnap"
  /\ q.pc = "openMan" /\ SameCommand(o, q)
  /\ tf[o.new] = "whole" /\ tn[o.new] = o.snap
  /\ \A n \in SnapIds : n # o.new => tf[n] = sf[n] /\ tn[n] = sn[n]

LEMMA PutChain ==
  ASSUME NEW o, NEW q, NEW m, NEW sf, NEW sn, NEW tf, NEW tn, Writes(o, q, m, sf, sn, tf, tn)
  PROVE  /\ Chain(m, tf, tn) /\ Flight(q, m, tf, tn)
         /\ m.latest \in SnapIds => tn[m.latest] = sn[m.latest]
<1> USE DEF Writes
<1>1. o.kind # "freeze" /\ o.man = m /\ m.status = "active" /\ o.pc \in Past
  BY DEF Flight, Adding, Past, Steps
<1>2. /\ o.new = m.latest + 1 /\ m.latest \in Nat /\ o.new \in SnapIds /\ o.new # m.latest
      /\ o.new - 1 = m.latest
  BY <1>1, NewNumber
<1>3. /\ tf[o.new] = "whole" /\ tn[o.new] = o.snap
      /\ \A n \in SnapIds : n # o.new => tf[n] = sf[n] /\ tn[n] = sn[n]
  OBVIOUS
<1>4. /\ q.pc = "openMan" /\ q.kind = o.kind /\ q.id = o.id /\ q.man = o.man
      /\ q.new = o.new /\ q.snap = o.snap
  BY DEF SameCommand
<1>5. Extends(o.snap, o.new, sn) /\ (o.kind \in Appends => Has(o.snap, o.id))
  BY <1>1, <1>2 DEF Flight, Built
<1>6. Extends(o.snap, o.new, tn)
  <2>1. o.new > 1 => o.new - 1 \in SnapIds /\ o.new - 1 # o.new
    BY <1>2, StoreBounds DEF SnapIds
  <2> QED BY <1>3, <1>5, <2>1 DEF Extends
<1>7. Flight(q, m, tf, tn)
  BY <1>1, <1>2, <1>3, <1>4, <1>5, <1>6 DEF Flight, Fresh, Adding, Saving, Built, Telling
<1>8. \A n \in 1..m.latest : n \in SnapIds /\ n # o.new
  BY <1>2, StoreBounds DEF SnapIds
<1>9. ASSUME NEW n \in SnapIds, tf[n] = "whole" PROVE Extends(tn[n], n, tn)
  <2>1. CASE n = o.new
    BY <1>3, <1>6, <2>1
  <2>2. CASE n # o.new
    <3>1. sf[n] = "whole" /\ tn[n] = sn[n]
      BY <1>3, <1>9, <2>2
    <3>2. n <= m.latest + 1
      BY <1>2, <3>1 DEF Chain, SnapIds
    <3>3. n > 1 => n - 1 \in SnapIds /\ n - 1 # o.new
      BY <1>2, <3>2, StoreBounds DEF SnapIds
    <3>4. Extends(sn[n], n, sn)
      BY <3>1 DEF Chain
    <3> QED BY <1>3, <3>1, <3>3, <3>4 DEF Extends
  <2> QED BY <2>1, <2>2
<1>10. \A n \in SnapIds : n > m.latest + 1 => tf[n] = "absent"
  BY <1>2, <1>3 DEF Chain, SnapIds
<1>11. \A n \in 1..m.latest : tf[n] = "whole"
  BY <1>3, <1>8 DEF Chain
<1>12. Chain(m, tf, tn)
  BY <1>9, <1>10, <1>11 DEF Chain
<1> QED BY <1>2, <1>3, <1>7, <1>12

\* A manifest that lists one version more.
LEMMA ListMore ==
  ASSUME NEW n \in Nat, NEW ids, ids = [k \in 1..n |-> k]
  PROVE  Append(ids, n + 1) = [k \in 1..n + 1 |-> k]
<1>1. ids \in Seq(Nat) /\ Len(ids) = n
  OBVIOUS
<1>2. Append(ids, n + 1) \in Seq(Nat) /\ Len(Append(ids, n + 1)) = n + 1
  BY <1>1
<1>3. \A k \in 1..n + 1 : Append(ids, n + 1)[k] = k
  BY <1>1
<1> QED BY <1>2, <1>3

\* The version after the latest one, whole and extending it, joins the chain.
LEMMA MoreChain ==
  ASSUME NEW m \in Manifest, NEW sf \in SnapFiles, NEW sn \in SnapMap, Chain(m, sf, sn),
         NEW n, n = m.latest + 1, n \in SnapIds, sf[n] = "whole",
         NEW k, k.latest = n, k.ids = Append(m.ids, n)
  PROVE  /\ Chain(k, sf, sn)
         /\ \A e : m.latest \in SnapIds /\ Has(sn[m.latest], e) => Has(sn[n], e)
<1>1. m.latest \in Nat
  BY StoreBounds DEF Manifest
<1>2. k.ids = [i \in 1..n |-> i]
  BY <1>1, ListMore DEF Chain
<1>3. \A i \in 1..n : sf[i] = "whole"
  BY <1>1 DEF Chain
<1>4. \A i \in SnapIds : i > n + 1 => sf[i] = "absent"
  BY <1>1 DEF Chain, SnapIds
<1>5. Chain(k, sf, sn)
  BY <1>2, <1>3, <1>4 DEF Chain
<1>6. ASSUME NEW e, m.latest \in SnapIds, Has(sn[m.latest], e) PROVE Has(sn[n], e)
  <2>1. m.latest \in Nat \ {0} /\ m.latest \in 1..m.latest
    BY <1>1, <1>6 DEF SnapIds
  <2>2. sf[m.latest] = "whole"
    BY <2>1 DEF Chain
  <2>3. Extends(sn[m.latest], m.latest, sn) /\ Extends(sn[n], m.latest + 1, sn)
    BY <1>6, <2>2 DEF Chain
  <2>4. sn[m.latest].events \in Seq(Nat) /\ sn[n].events \in Seq(Nat)
    BY <1>6 DEF SnapMap, Snapshot
  <2>5. Len(sn[m.latest].events) = m.latest - 1
    BY <2>3 DEF Extends
  <2> QED BY <1>6, <2>1, <2>3, <2>4, <2>5, ExtendsHas
<1> QED BY <1>5, <1>6

LEMMA SaveChain ==
  ASSUME NEW o \in Op, Numbered(o), NEW m \in Manifest, NEW sf \in SnapFiles, NEW sn \in SnapMap,
         Chain(m, sf, sn), Flight(o, m, sf, sn), o.pc = "putMan",
         NEW pc, pc \in {"entry", "dir"}, NEW q, q = [o EXCEPT !.pc = pc]
  PROVE  /\ Chain(NewManifest(o), sf, sn) /\ Flight(q, NewManifest(o), sf, sn)
         /\ m.latest <= NewManifest(o).latest
         /\ \A e : m.latest \in SnapIds /\ Has(sn[m.latest], e)
                   => NewManifest(o).latest \in SnapIds /\ Has(sn[NewManifest(o).latest], e)
         /\ o.man.latest = m.latest
<1>1. o.man = m /\ o.pc \in Past /\ m.latest \in Nat
  BY StoreBounds DEF Flight, Saving, Past, Steps, Manifest
<1>2. /\ q.pc = pc /\ q.kind = o.kind /\ q.id = o.id /\ q.man = o.man
      /\ q.new = o.new /\ q.snap = o.snap
  BY DEF Op
<1>3. CASE o.kind = "freeze"
  <2>1. NewManifest(o).latest = m.latest /\ NewManifest(o).ids = m.ids
    BY <1>1, <1>3 DEF NewManifest, Manifest
  <2>2. Chain(NewManifest(o), sf, sn)
    BY <2>1 DEF Chain
  <2>3. Flight(q, NewManifest(o), sf, sn)
    BY <1>2, <1>3 DEF Flight, Fresh, Adding, Saving, Built, Telling, Appends
  <2> QED BY <1>1, <2>1, <2>2, <2>3
<1>4. CASE o.kind # "freeze"
  <2>1. /\ o.new = m.latest + 1 /\ o.new \in SnapIds /\ o.new \in Nat
    BY <1>1, <1>4, NewNumber
  <2>2. /\ NewManifest(o).latest = o.new /\ NewManifest(o).ids = Append(m.ids, o.new)
    BY <1>1, <1>4 DEF NewManifest, Manifest
  <2>3. sf[o.new] = "whole" /\ sn[o.new] = o.snap /\ (o.kind \in Appends => Has(o.snap, o.id))
    BY <1>4 DEF Flight, Saving, Built
  <2>4. /\ Chain(NewManifest(o), sf, sn)
        /\ \A e : m.latest \in SnapIds /\ Has(sn[m.latest], e) => Has(sn[o.new], e)
    BY <2>1, <2>2, <2>3, MoreChain
  <2>5. Flight(q, NewManifest(o), sf, sn)
    BY <1>2, <2>2, <2>3 DEF Flight, Fresh, Adding, Saving, Built, Telling
  <2>6. m.latest <= o.new
    BY <1>1, <2>1
  <2> QED BY <1>1, <2>1, <2>2, <2>4, <2>5, <2>6
<1> QED BY <1>3, <1>4
-----------------------------------------------------------------------------
(* The same steps over the store.                                          *)

LEMMA SnapshotOpenKeeps ==
  ASSUME PastInv, TypeInv', ShardExclusive', NEW w \in Writers, SnapshotOpen(w)
  PROVE  PastInv'
<1>1. PICK s \in Shards : s = op[w].shard
  BY Known
<1>2. /\ op[w] \in Op /\ Numbered(op[w]) /\ InFlight(w) /\ Behind(op[w].dir) /\ ShardInv(s)
      /\ manifest[s] \in Manifest /\ manifest[s].latest \in Nat
      /\ snapFile \in [Shards -> SnapFiles] /\ snaps \in [Shards -> SnapMap]
  BY <1>1, Known DEF PastInv, TypeInv, TypeOK, SnapFiles, SnapMap
<1>3. PICK o : o = [op[w] EXCEPT !.pc = "putSnap"]
  OBVIOUS
<1>4. PICK tf : tf = [snapFile[s] EXCEPT ![op[w].new] = "empty"]
  OBVIOUS
<1>5. /\ op[w].pc = "openSnap" /\ op' = [op EXCEPT ![w] = o]
      /\ snapFile' = [snapFile EXCEPT ![s] = tf] /\ view' = view
      /\ UNCHANGED <<snaps, manifest, manFile, directory, chronicle, acked>>
  BY <1>1, <1>3, <1>4 DEF SnapshotOpen, Goto, Become, At
<1>6. Chain(manifest[s], tf, snaps[s]) /\ Flight(o, manifest[s], tf, snaps[s])
  <2>1. /\ Chain(manifest[s], snapFile[s], snaps[s])
        /\ Flight(op[w], manifest[s], snapFile[s], snaps[s])
        /\ snapFile[s] \in SnapFiles /\ snaps[s] \in SnapMap
    BY <1>1, <1>2 DEF ShardInv, InFlight
  <2> QED BY <1>2, <1>3, <1>4, <1>5, <2>1, OpenChain
<1>7. snapFile'[s] = tf /\ \A t \in Shards \ {s} : snapFile'[t] = snapFile[t]
  BY <1>2, <1>5
<1>8. ShardInv(s)' /\ Behind(directory')
  BY <1>2, <1>5, <1>6, <1>7 DEF ShardInv, PastInv, IndexBehind
<1>9. o.shard = s /\ o.dir = op[w].dir /\ ~Adds(o) /\ op[w] # Idle
  BY <1>1, <1>2, <1>3, <1>5, BusyIsNotIdle DEF Op, Adds, Telling
<1>10. \A e : manifest[s].latest \in SnapIds /\ Has(snaps[s][manifest[s].latest], e)
               => /\ manifest'[s].latest \in SnapIds
                  /\ Has(snaps'[s][manifest'[s].latest], e)
  BY <1>5
<1>11. /\ Flight(o, manifest'[s], snapFile'[s], snaps'[s])
       /\ manifest[s].latest <= manifest'[s].latest
  BY <1>2, <1>5, <1>6, <1>7
<1>12. \A t \in Shards \ {s} : /\ manifest'[t] = manifest[t] /\ manFile'[t] = manFile[t]
                              /\ snapFile'[t] = snapFile[t] /\ snaps'[t] = snaps[t]
  BY <1>5, <1>7
<1>13. Behind(o.dir)
  BY <1>2, <1>9
<1> QED BY <1>1, <1>5, <1>8, <1>9, <1>10, <1>11, <1>12, <1>13, StepKeeps

LEMMA SnapshotPutKeeps ==
  ASSUME PastInv, TypeInv', ShardExclusive', NEW w \in Writers, SnapshotPut(w)
  PROVE  PastInv'
<1>1. PICK s \in Shards : s = op[w].shard
  BY Known
<1>2. /\ op[w] \in Op /\ Numbered(op[w]) /\ InFlight(w) /\ Behind(op[w].dir) /\ ShardInv(s)
      /\ manifest[s] \in Manifest /\ manifest[s].latest \in Nat
      /\ snapFile \in [Shards -> SnapFiles] /\ snaps \in [Shards -> SnapMap]
  BY <1>1, Known DEF PastInv, TypeInv, TypeOK, SnapFiles, SnapMap
<1>3. PICK o : o = [op[w] EXCEPT !.pc = "openMan"]
  OBVIOUS
<1>4. PICK tf : tf = [snapFile[s] EXCEPT ![op[w].new] = "whole"]
  OBVIOUS
<1>5. PICK tn : tn = [snaps[s] EXCEPT ![op[w].new] = op[w].snap]
  OBVIOUS
<1>6. op[w].pc = "putSnap" /\ snapFile[s][op[w].new] = "empty"
  <2>1. op[w].pc = "putSnap"
    BY DEF SnapshotPut, At
  <2> QED BY <1>1, <1>2, <2>1 DEF InFlight, Flight
<1>7. /\ op' = [op EXCEPT ![w] = o] /\ view' = view
      /\ snapFile' = [snapFile EXCEPT ![s] = tf] /\ snaps' = [snaps EXCEPT ![s] = tn]
      /\ UNCHANGED <<manifest, manFile, directory, chronicle, acked>>
  BY <1>1, <1>3, <1>4, <1>5, <1>6 DEF SnapshotPut, Goto, Become, AfterPut
<1>8. /\ Chain(manifest[s], tf, tn) /\ Flight(o, manifest[s], tf, tn)
      /\ manifest[s].latest \in SnapIds => tn[manifest[s].latest] = snaps[s][manifest[s].latest]
  <2>1. /\ Chain(manifest[s], snapFile[s], snaps[s])
        /\ Flight(op[w], manifest[s], snapFile[s], snaps[s])
        /\ snapFile[s] \in SnapFiles /\ snaps[s] \in SnapMap
    BY <1>1, <1>2 DEF ShardInv, InFlight
  <2>2. PICK sf \in SnapFiles, sn \in SnapMap : sf = snapFile[s] /\ sn = snaps[s]
    BY <2>1
  <2>3. PICK v \in Op, m \in Manifest : v = op[w] /\ m = manifest[s]
    BY <1>2
  <2>4. /\ Numbered(v) /\ Chain(m, sf, sn) /\ Flight(v, m, sf, sn) /\ v.pc = "putSnap"
        /\ o = [v EXCEPT !.pc = "openMan"] /\ tf = [sf EXCEPT ![v.new] = "whole"]
        /\ tn = [sn EXCEPT ![v.new] = v.snap]
    BY <1>2, <1>3, <1>4, <1>5, <1>6, <2>1, <2>2, <2>3
  <2>5. o.pc = "openMan" /\ SameCommand(v, o)
    BY <2>4 DEF Op, SameCommand
  <2>6. v.new \in SnapIds
    <3>1. v.kind # "freeze" /\ v.pc \in Past
      BY <2>4 DEF Flight, Adding, Past, Steps
    <3> QED BY <2>4, <3>1 DEF Numbered
  <2>7. /\ tf[v.new] = "whole" /\ tn[v.new] = v.snap
        /\ \A n \in SnapIds : n # v.new => tf[n] = sf[n] /\ tn[n] = sn[n]
    BY <2>4, <2>6 DEF SnapFiles, SnapMap
  <2>8. /\ Chain(m, tf, tn) /\ Flight(o, m, tf, tn)
        /\ m.latest \in SnapIds => tn[m.latest] = sn[m.latest]
    <3>1. Writes(v, o, m, sf, sn, tf, tn)
      BY <2>4, <2>5, <2>7 DEF Writes
    <3> QED BY <3>1, PutChain
  <2> QED BY <2>2, <2>3, <2>8
<1>9. /\ snapFile'[s] = tf /\ \A t \in Shards \ {s} : snapFile'[t] = snapFile[t]
      /\ snaps'[s] = tn /\ \A t \in Shards \ {s} : snaps'[t] = snaps[t]
  BY <1>2, <1>7
<1>10. ShardInv(s)' /\ Behind(directory')
  BY <1>2, <1>7, <1>8, <1>9 DEF ShardInv, PastInv, IndexBehind
<1>11. o.shard = s /\ o.dir = op[w].dir /\ ~Adds(o) /\ op[w] # Idle
  BY <1>1, <1>2, <1>3, <1>6, BusyIsNotIdle DEF Op, Adds, Telling
<1>12. \A e : manifest[s].latest \in SnapIds /\ Has(snaps[s][manifest[s].latest], e)
               => /\ manifest'[s].latest \in SnapIds
                  /\ Has(snaps'[s][manifest'[s].latest], e)
  BY <1>7, <1>8, <1>9
<1>13. /\ Flight(o, manifest'[s], snapFile'[s], snaps'[s])
       /\ manifest[s].latest <= manifest'[s].latest
  BY <1>2, <1>7, <1>8, <1>9
<1>14. \A t \in Shards \ {s} : /\ manifest'[t] = manifest[t] /\ manFile'[t] = manFile[t]
                              /\ snapFile'[t] = snapFile[t] /\ snaps'[t] = snaps[t]
  BY <1>7, <1>9
<1>15. Behind(o.dir)
  BY <1>2, <1>11
<1> QED BY <1>1, <1>7, <1>10, <1>11, <1>12, <1>13, <1>14, <1>15, StepKeeps

\* manFile is written while the manifest is old, then the manifest.
LEMMA ManifestOpenKeeps ==
  ASSUME PastInv, TypeInv', ShardExclusive', NEW w \in Writers, ManifestOpen(w)
  PROVE  PastInv'
<1>1. PICK s \in Shards : s = op[w].shard
  BY Known
<1>2. /\ op[w] \in Op /\ InFlight(w) /\ Behind(op[w].dir) /\ ShardInv(s)
      /\ manifest[s].latest \in Nat /\ manFile \in [Shards -> FileStates]
  BY <1>1, Known DEF PastInv, TypeInv, TypeOK
<1>3. PICK o : o = [op[w] EXCEPT !.pc = "putMan"]
  OBVIOUS
<1>4. /\ op[w].pc = "openMan" /\ op' = [op EXCEPT ![w] = o]
      /\ manFile' = [manFile EXCEPT ![s] = "empty"] /\ view' = view
      /\ UNCHANGED <<snaps, snapFile, manifest, directory, chronicle, acked>>
  BY <1>1, <1>3 DEF ManifestOpen, Goto, Become, At
<1>5. /\ o.pc = "putMan" /\ o.kind = op[w].kind /\ o.shard = s /\ o.id = op[w].id
      /\ o.man = op[w].man /\ o.new = op[w].new /\ o.snap = op[w].snap /\ o.dir = op[w].dir
  BY <1>1, <1>2, <1>3 DEF Op
<1>6. manFile'[s] = "empty" /\ \A t \in Shards \ {s} : manFile'[t] = manFile[t]
  BY <1>2, <1>4
<1>7. Flight(op[w], manifest[s], snapFile[s], snaps[s])
  BY <1>1, <1>2 DEF InFlight
<1>8. Flight(o, manifest'[s], snapFile'[s], snaps'[s]) /\ ~Adds(o)
  <2>1. Flight(o, manifest[s], snapFile[s], snaps[s])
    BY <1>4, <1>5, <1>7 DEF Flight, Fresh, Adding, Saving, Built, Telling
  <2> QED BY <1>4, <1>5, <2>1 DEF Adds, Telling
<1>9. ShardInv(s)' /\ Behind(directory')
  BY <1>2, <1>4, <1>6 DEF ShardInv, PastInv, IndexBehind
<1>10. \A e : manifest[s].latest \in SnapIds /\ Has(snaps[s][manifest[s].latest], e)
               => /\ manifest'[s].latest \in SnapIds
                  /\ Has(snaps'[s][manifest'[s].latest], e)
  BY <1>4
<1>11. manifest[s].latest <= manifest'[s].latest /\ op[w] # Idle /\ Behind(o.dir)
  BY <1>2, <1>4, <1>5, BusyIsNotIdle
<1>12. \A t \in Shards \ {s} : /\ manifest'[t] = manifest[t] /\ manFile'[t] = manFile[t]
                              /\ snapFile'[t] = snapFile[t] /\ snaps'[t] = snaps[t]
  BY <1>4, <1>6
<1> QED BY <1>1, <1>4, <1>5, <1>8, <1>9, <1>10, <1>11, <1>12, StepKeeps

LEMMA ManifestPutKeeps ==
  ASSUME PastInv, TypeInv', ShardExclusive', NEW w \in Writers, ManifestPut(w)
  PROVE  PastInv'
<1>1. PICK s \in Shards : s = op[w].shard
  BY Known
<1>2. /\ op[w] \in Op /\ Numbered(op[w]) /\ InFlight(w) /\ Behind(op[w].dir) /\ ShardInv(s)
      /\ manifest[s] \in Manifest /\ manifest[s].latest \in Nat
      /\ snapFile[s] \in SnapFiles /\ snaps[s] \in SnapMap
      /\ manifest \in [Shards -> Manifest] /\ manFile \in [Shards -> FileStates]
  BY <1>1, Known DEF PastInv, TypeInv, TypeOK, SnapFiles, SnapMap
<1>3. PICK pc : pc = IF op[w].kind \in Appends THEN "entry" ELSE "dir"
  OBVIOUS
<1>4. PICK o : o = [op[w] EXCEPT !.pc = pc]
  OBVIOUS
<1>5. PICK m : m = NewManifest(op[w])
  OBVIOUS
<1>6. /\ op[w].pc = "putMan" /\ op' = [op EXCEPT ![w] = o]
      /\ manifest' = [manifest EXCEPT ![s] = m] /\ view' = view
      /\ \E f \in {"whole", "garbled"} : manFile' = [manFile EXCEPT ![s] = f]
      /\ UNCHANGED <<snaps, snapFile, directory, chronicle, acked>>
  BY <1>1, <1>3, <1>4, <1>5 DEF ManifestPut, Goto, Become, At, AfterPut
<1>7. pc \in {"entry", "dir"}
  BY <1>3
<1>8. /\ Chain(m, snapFile[s], snaps[s]) /\ Flight(o, m, snapFile[s], snaps[s])
      /\ manifest[s].latest <= m.latest /\ op[w].man.latest = manifest[s].latest
      /\ \A e : manifest[s].latest \in SnapIds /\ Has(snaps[s][manifest[s].latest], e)
                => m.latest \in SnapIds /\ Has(snaps[s][m.latest], e)
  <2>1. /\ Chain(manifest[s], snapFile[s], snaps[s])
        /\ Flight(op[w], manifest[s], snapFile[s], snaps[s])
    BY <1>1, <1>2 DEF ShardInv, InFlight
  <2>2. PICK sf \in SnapFiles, sn \in SnapMap : sf = snapFile[s] /\ sn = snaps[s]
    BY <1>2
  <2>3. PICK v \in Op, k \in Manifest : v = op[w] /\ k = manifest[s]
    BY <1>2
  <2>4. /\ Numbered(v) /\ Chain(k, sf, sn) /\ Flight(v, k, sf, sn) /\ v.pc = "putMan"
        /\ o = [v EXCEPT !.pc = pc] /\ m = NewManifest(v)
    BY <1>2, <1>4, <1>5, <1>6, <2>1, <2>2, <2>3
  <2>5. /\ Chain(m, sf, sn) /\ Flight(o, m, sf, sn)
        /\ k.latest <= m.latest /\ v.man.latest = k.latest
        /\ \A e : k.latest \in SnapIds /\ Has(sn[k.latest], e)
                  => m.latest \in SnapIds /\ Has(sn[m.latest], e)
    BY <1>7, <2>4, SaveChain
  <2> QED BY <2>2, <2>3, <2>5
<1>9. /\ manifest'[s] = m /\ \A t \in Shards \ {s} : manifest'[t] = manifest[t]
      /\ manFile'[s] # "absent" /\ \A t \in Shards \ {s} : manFile'[t] = manFile[t]
  BY <1>2, <1>6
<1>10. ShardInv(s)' /\ Behind(directory')
  <2>1. ShardInv(s)'
    BY <1>6, <1>8, <1>9 DEF ShardInv
  <2>2. directory' = directory /\ Behind(directory)
    BY <1>6 DEF PastInv, IndexBehind
  <2> QED BY <2>1, <2>2
<1>11. o.shard = s /\ o.man = op[w].man /\ o.dir = op[w].dir /\ op[w] # Idle
  BY <1>1, <1>2, <1>4, <1>6, BusyIsNotIdle DEF Op
<1>12. Behind(o.dir)
  BY <1>2, <1>11
<1>13. Flight(o, manifest'[s], snapFile'[s], snaps'[s]) /\ manifest[s].latest <= manifest'[s].latest
  BY <1>6, <1>8, <1>9
<1>14. \A e : manifest[s].latest \in SnapIds /\ Has(snaps[s][manifest[s].latest], e)
               => /\ manifest'[s].latest \in SnapIds
                  /\ Has(snaps'[s][manifest'[s].latest], e)
  BY <1>6, <1>8, <1>9
<1>15. o.man.latest = manifest[s].latest
  BY <1>8, <1>11
<1>16. \A t \in Shards \ {s} : /\ manifest'[t] = manifest[t] /\ manFile'[t] = manFile[t]
                              /\ snapFile'[t] = snapFile[t] /\ snaps'[t] = snaps[t]
  BY <1>6, <1>9
<1> QED BY <1>1, <1>6, <1>10, <1>11, <1>12, <1>13, <1>14, <1>15, <1>16, StepKeeps
-----------------------------------------------------------------------------
(* The directory, the chronicle and the report.                            *)

LEMMA DirectoryLoadKeeps ==
  ASSUME PastInv, TypeInv', ShardExclusive', NEW w \in Writers, DirectoryLoad(w)
  PROVE  PastInv'
<1>1. PICK s \in Shards : s = op[w].shard
  BY Known
<1>2. /\ op[w] \in Op /\ Numbered(op[w]) /\ InFlight(w) /\ Behind(op[w].dir)
      /\ manifest[s].latest \in Nat /\ op[w].pc = "dir"
  BY <1>1, Known DEF DirectoryLoad, At
<1>3. Flight(op[w], manifest[s], snapFile[s], snaps[s])
  BY <1>1, <1>2 DEF InFlight
<1>4. directory \in Directory /\ Behind(directory)
  BY DEF PastInv, TypeInv, TypeOK, IndexBehind
<1>5. CASE Stop(w)
  BY <1>5, StopKeeps DEF Stop, Become
<1>6. CASE Become(w, [op[w] EXCEPT !.pc = "log"]) /\ UNCHANGED <<disk, acked>>
  <2>1. PICK o : o = [op[w] EXCEPT !.pc = "log"]
    OBVIOUS
  <2>2. /\ o.pc = "log" /\ o.kind = op[w].kind /\ o.shard = s /\ o.id = op[w].id
        /\ o.man = op[w].man /\ o.new = op[w].new /\ o.snap = op[w].snap /\ o.dir = op[w].dir
    BY <1>1, <1>2, <2>1 DEF Op
  <2>3. Flight(o, manifest[s], snapFile[s], snaps[s]) /\ (Adds(o) => Adds(op[w]))
    BY <1>2, <1>3, <2>2 DEF Flight, Fresh, Adding, Saving, Built, Telling, Adds
  <2>4. op' = [op EXCEPT ![w] = o] /\ UNCHANGED <<disk, view, acked>>
    BY <1>6, <2>1 DEF Become
  <2> QED BY <1>1, <1>2, <2>2, <2>3, <2>4, MoveKeeps
<1>7. ASSUME NEW e \in Entry, e.snap <= manifest[s].latest,
             Become(w, [op[w] EXCEPT !.pc = "openDir", !.dir = [directory EXCEPT ![s] = e]]),
             UNCHANGED <<disk, acked>>
      PROVE  PastInv'
  <2>1. PICK d : d = [directory EXCEPT ![s] = e]
    OBVIOUS
  <2>2. PICK o : o = [op[w] EXCEPT !.pc = "openDir", !.dir = d]
    OBVIOUS
  <2>3. /\ o.pc = "openDir" /\ o.kind = op[w].kind /\ o.shard = s /\ o.id = op[w].id
        /\ o.man = op[w].man /\ o.new = op[w].new /\ o.snap = op[w].snap /\ o.dir = d
    BY <1>1, <1>2, <2>2 DEF Op
  <2>4. Flight(o, manifest[s], snapFile[s], snaps[s]) /\ (Adds(o) => Adds(op[w]))
    BY <1>2, <1>3, <2>3 DEF Flight, Fresh, Adding, Saving, Built, Telling, Adds
  <2>5. op' = [op EXCEPT ![w] = o] /\ UNCHANGED <<disk, view, acked>>
    BY <1>7, <2>1, <2>2 DEF Become
  <2>6. Behind(d)
    BY <1>4, <1>7, <2>1 DEF Behind, Directory
  <2> QED BY <1>1, <1>2, <2>3, <2>4, <2>5, <2>6, MoveKeeps
<1>8. directory[s] \in Entry /\ directory[s].snap <= manifest[s].latest
  BY <1>4 DEF Directory, Behind
<1>9. [directory[s] EXCEPT !.status = "frozen"] \in Entry
      /\ [directory[s] EXCEPT !.status = "frozen"].snap <= manifest[s].latest
  BY <1>8 DEF Entry
<1>10. op[w].kind # "freeze" => /\ [snap |-> op[w].new, status |-> op[w].man.status] \in Entry
                               /\ op[w].new <= manifest[s].latest
  <2>1. op[w].kind # "freeze" => manifest[s].latest = op[w].new
    BY <1>2, <1>3 DEF Flight, Telling
  <2> QED BY <1>2, <2>1 DEF Op, Entry, Manifest
<1>11. \/ Stop(w)
       \/ Become(w, [op[w] EXCEPT !.pc = "log"]) /\ UNCHANGED <<disk, acked>>
       \/ /\ Become(w, [op[w] EXCEPT !.pc = "openDir",
              !.dir = [directory EXCEPT ![s] = [directory[s] EXCEPT !.status = "frozen"]]])
          /\ UNCHANGED <<disk, acked>>
       \/ /\ op[w].kind # "freeze"
          /\ Become(w, [op[w] EXCEPT !.pc = "openDir",
              !.dir = [directory EXCEPT ![s] = [snap |-> op[w].new, status |-> op[w].man.status]]])
          /\ UNCHANGED <<disk, acked>>
  BY <1>1 DEF DirectoryLoad
<1>12. ASSUME op[w].kind # "freeze",
              Become(w, [op[w] EXCEPT !.pc = "openDir",
              !.dir = [directory EXCEPT ![s] = [snap |-> op[w].new, status |-> op[w].man.status]]]),
              UNCHANGED <<disk, acked>>
       PROVE  PastInv'
  <2>1. PICK e \in Entry : e = [snap |-> op[w].new, status |-> op[w].man.status]
    BY <1>10, <1>12
  <2>2. e.snap <= manifest[s].latest
    BY <1>10, <1>12, <2>1
  <2>3. Become(w, [op[w] EXCEPT !.pc = "openDir", !.dir = [directory EXCEPT ![s] = e]])
    BY <1>12, <2>1
  <2> QED BY <1>7, <1>12, <2>2, <2>3
<1> QED BY <1>5, <1>6, <1>7, <1>9, <1>11, <1>12

LEMMA DirectoryWritesKeep ==
  ASSUME PastInv, TypeInv', ShardExclusive', NEW w \in Writers,
         DirectoryOpen(w) \/ DirectoryPut(w)
  PROVE  PastInv'
<1>1. PICK s \in Shards : s = op[w].shard
  BY Known
<1>2. op[w] \in Op /\ InFlight(w) /\ Behind(op[w].dir)
  BY <1>1, Known
<1>3. PICK pc \in {"putDir", "log"} :
         /\ op[w].pc \in Telling
         /\ op' = [op EXCEPT ![w] = [op[w] EXCEPT !.pc = pc]]
         /\ directory' \in {directory, op[w].dir}
         /\ UNCHANGED <<manifest, manFile, snapFile, snaps, chronicle, view, acked>>
  BY DEF DirectoryOpen, DirectoryPut, Goto, Become, At, Telling
<1>4. PICK o : o = [op[w] EXCEPT !.pc = pc]
  OBVIOUS
<1>5. /\ o.pc = pc /\ o.kind = op[w].kind /\ o.shard = s /\ o.id = op[w].id
      /\ o.man = op[w].man /\ o.new = op[w].new /\ o.snap = op[w].snap /\ o.dir = op[w].dir
  BY <1>1, <1>2, <1>4 DEF Op
<1>6. Flight(op[w], manifest[s], snapFile[s], snaps[s])
  BY <1>1, <1>2 DEF InFlight
<1>7. Flight(o, manifest[s], snapFile[s], snaps[s]) /\ (Adds(o) => Adds(op[w]))
  BY <1>3, <1>5, <1>6 DEF Flight, Fresh, Adding, Saving, Built, Telling, Adds
<1>8. Behind(directory') /\ Behind(o.dir)
  BY <1>2, <1>3, <1>5 DEF PastInv, IndexBehind
<1> QED BY <1>1, <1>3, <1>4, <1>5, <1>7, <1>8, IndexStepKeeps

\* The line the command adds is of its shard's latest version, or of none.
LEMMA LineFacts ==
  ASSUME PastInv, NEW w \in Writers, op[w].pc = "log"
  PROVE  /\ LogRecord(op[w]).shard = op[w].shard
         /\ LogRecord(op[w]).new <= manifest[op[w].shard].latest
         /\ LogRecord(op[w]).new # 0 => Adds(op[w]) /\ LogRecord(op[w]).old = op[w].man.latest
<1>1. /\ op[w] \in Op /\ Numbered(op[w]) /\ manifest[op[w].shard].latest \in Nat
      /\ Flight(op[w], manifest[op[w].shard], snapFile[op[w].shard], snaps[op[w].shard])
  BY Known DEF InFlight
<1>2. CASE op[w].kind = "freeze"
  <2>1. op[w].new = 0
    BY <1>1, <1>2 DEF Numbered
  <2> QED BY <1>1, <2>1 DEF LogRecord
<1>3. CASE op[w].kind # "freeze"
  <2>1. op[w].new = manifest[op[w].shard].latest /\ Adds(op[w])
    BY <1>1, <1>3 DEF Flight, Telling, Adds
  <2>2. op[w].kind = "create" => op[w].man.latest = 0
    BY <1>1 DEF Flight, BlankMan
  <2>3. op[w].kind \in Appends \/ op[w].kind = "create"
    BY <1>1, <1>3 DEF Op, Kinds, Appends
  <2> QED BY <1>1, <2>1, <2>2, <2>3 DEF LogRecord, Appends
<1> QED BY <1>2, <1>3

LEMMA ChronicleKeeps ==
  ASSUME PastInv, TypeInv', ShardExclusive', NEW w \in Writers, ChronicleAppend(w)
  PROVE  PastInv'
<1>1. PICK s \in Shards : s = op[w].shard
  BY Known
<1>2. /\ op[w] \in Op /\ Numbered(op[w]) /\ manifest[s].latest \in Nat
      /\ Flight(op[w], manifest[s], snapFile[s], snaps[s])
  BY <1>1, Known DEF InFlight
<1>3. PICK r : r = LogRecord(op[w])
  OBVIOUS
<1>4. /\ op[w].pc = "log" /\ chronicle' = Append(chronicle, r)
      /\ acked' = IF op[w].kind \in Appends THEN acked \cup {<<s, op[w].id>>} ELSE acked
      /\ op' = [op EXCEPT ![w] = Idle]
      /\ UNCHANGED <<snaps, snapFile, manifest, manFile, directory, view>>
  BY <1>1, <1>3 DEF ChronicleAppend, Become, At
<1>5. /\ op'[w] = Idle /\ \A v \in Writers \ {w} : op'[v] = op[v]
      /\ \A v \in Writers : op[v].shard \in Shards
      /\ chronicle \in Seq(Record) /\ op[w] # Idle
  <2>1. op \in [Writers -> Op] /\ chronicle \in Seq(Record)
    BY DEF PastInv, TypeInv, TypeOK
  <2> QED BY <1>4, <2>1, BusyIsNotIdle DEF Op
<1>6. r.shard = s /\ r.new <= manifest[s].latest /\ (r.new # 0 => Adds(op[w]) /\ r.old = op[w].man.latest)
  BY <1>1, <1>3, <1>4, LineFacts
<1>7. (\A t \in Shards : ShardInv(t))'
  BY <1>4 DEF PastInv, ShardInv
<1>8. (\A v \in Writers : InFlight(v))'
  <2>1. InFlight(w)'
    BY <1>5, IdleFlight DEF InFlight
  <2>2. \A v \in Writers \ {w} : InFlight(v)'
    BY <1>4, <1>5 DEF PastInv, InFlight
  <2> QED BY <2>1, <2>2
<1>9. (\A a \in acked : Holds(a))'
  <2>1. op[w].kind \in Appends => Holds(<<s, op[w].id>>)
    BY <1>2, <1>4 DEF Flight, Telling, Holds, Numbered, Past, Steps, Appends
  <2>2. \A a \in acked' : Holds(a)
    BY <1>4, <2>1 DEF PastInv
  <2> QED BY <1>4, <2>2 DEF Holds
<1>10. ToldInOrder'
  <2> DEFINE n == Len(chronicle)
  <2>1. /\ n \in Nat /\ Len(chronicle') = n + 1 /\ chronicle'[n + 1] = r
        /\ \A i \in 1..n : chronicle'[i] = chronicle[i]
    BY <1>4, <1>5
  <2>2. \A i \in 1..n + 1 : i \in 1..n \/ i = n + 1
    BY <2>1
  <2> HIDE DEF n
  <2>3. /\ \A i \in 1..n : /\ chronicle[i].new <= manifest[chronicle[i].shard].latest
                          /\ \A v \in Writers : Adds(op[v]) /\ chronicle[i].shard = op[v].shard
                                                 => chronicle[i].new <= op[v].man.latest
        /\ \A i, j \in 1..n : i < j /\ chronicle[i].shard = chronicle[j].shard /\ chronicle[j].new # 0
                               => chronicle[i].new <= chronicle[j].old
    BY DEF PastInv, ToldInOrder, ChronicleInOrder, n
  <2>4. ASSUME NEW i \in 1..n + 1
        PROVE  /\ chronicle'[i].new <= manifest'[chronicle'[i].shard].latest
               /\ \A v \in Writers : Adds(op'[v]) /\ chronicle'[i].shard = op'[v].shard
                                      => chronicle'[i].new <= op'[v].man.latest
    <3>1. chronicle'[i].new <= manifest'[chronicle'[i].shard].latest
      BY <1>4, <1>6, <2>1, <2>2, <2>3
    <3>2. ASSUME NEW v \in Writers, Adds(op'[v]), chronicle'[i].shard = op'[v].shard
          PROVE  chronicle'[i].new <= op'[v].man.latest
      <4>1. v # w /\ op'[v] = op[v] /\ op[v] # Idle
        BY <1>5, <3>2 DEF Adds, Idle, Telling
      <4>2. op[v].shard # s
        BY <1>1, <1>5, <4>1, OneAtATime DEF PastInv
      <4>3. i \in 1..n
        BY <1>6, <2>1, <2>2, <3>2, <4>1, <4>2
      <4> QED BY <2>1, <2>3, <3>2, <4>1, <4>3
    <3> QED BY <3>1, <3>2
  <2>5. ASSUME NEW i \in 1..n + 1, NEW j \in 1..n + 1, i < j,
               chronicle'[i].shard = chronicle'[j].shard, chronicle'[j].new # 0
        PROVE  chronicle'[i].new <= chronicle'[j].old
    <3>1. i \in 1..n
      BY <2>1, <2>5
    <3>2. CASE j \in 1..n
      BY <2>1, <2>3, <2>5, <3>1, <3>2
    <3>3. CASE j = n + 1
      BY <1>1, <1>6, <2>1, <2>3, <2>5, <3>1, <3>3
    <3> QED BY <2>2, <3>2, <3>3
  <2> QED BY <2>1, <2>4, <2>5 DEF ToldInOrder, ChronicleInOrder
<1>11. IndexBehind'
  <2>1. Behind(BlankDir)
    BY Types DEF Behind, BlankDir, BlankEntry, PastInv
  <2>2. \A v \in Writers : Behind(op'[v].dir)
    BY <1>5, <2>1 DEF PastInv, IndexBehind, Idle
  <2> QED BY <1>4, <2>2 DEF PastInv, IndexBehind, Behind
<1> QED BY <1>7, <1>8, <1>9, <1>10, <1>11 DEF PastInv
-----------------------------------------------------------------------------
(* Queries and the operator.                                               *)

LEMMA QueryKeeps ==
  ASSUME PastInv, TypeInv', ShardExclusive', Query
  PROVE  PastInv'
<1>1. /\ UNCHANGED <<disk, op, acked>>
      /\ \E r \in Readers : \/ view' = [view EXCEPT ![r] = directory]
                            \/ view' = [view EXCEPT ![r] = BlankDir]
  BY DEF Query, AskLoadDirectory, AskFinish
<1>2. UNCHANGED <<snaps, snapFile, manifest, manFile, directory, chronicle, op, acked>>
  BY <1>1 DEF disk
<1>3. Behind(BlankDir)
  BY Types DEF Behind, BlankDir, BlankEntry, PastInv
<1>4. \A r \in Readers : Behind(view'[r])
  BY <1>1, <1>3 DEF PastInv, IndexBehind, TypeInv, TypeOK
<1>5. IndexBehind'
  BY <1>2, <1>4 DEF PastInv, IndexBehind, Behind
<1>6. (\A s \in Shards : ShardInv(s))' /\ (\A w \in Writers : InFlight(w))'
  BY <1>2 DEF PastInv, ShardInv, InFlight
<1>7. (\A a \in acked : Holds(a))' /\ ToldInOrder'
  BY <1>2 DEF PastInv, Holds, ToldInOrder, ChronicleInOrder, Adds
<1> QED BY <1>5, <1>6, <1>7 DEF PastInv

\* Nothing runs, and shard s keeps or gains versions and what they hold.
LEMMA RepairKeeps ==
  ASSUME PastInv, TypeInv', ShardExclusive', AllIdle, NEW s \in Shards,
         UNCHANGED <<manFile, directory, chronicle, op, view, acked>>,
         \A t \in Shards \ {s} : /\ manifest'[t] = manifest[t] /\ snapFile'[t] = snapFile[t]
                                 /\ snaps'[t] = snaps[t],
         ShardInv(s)', manifest[s].latest <= manifest'[s].latest,
         \A e : manifest[s].latest \in SnapIds /\ Has(snaps[s][manifest[s].latest], e)
                  => /\ manifest'[s].latest \in SnapIds
                     /\ Has(snaps'[s][manifest'[s].latest], e)
  PROVE  PastInv'
<1>1. \A t \in Shards : manifest[t].latest \in Nat /\ manifest'[t].latest \in Nat
  <2>1. \A t \in Shards : manifest[t].latest \in Nat
    BY Types DEF PastInv
  <2>2. \A t \in Shards : manifest'[t].latest \in Nat
    BY StoreBounds DEF TypeInv, TypeOK, Manifest
  <2> QED BY <2>1, <2>2
<1>2. \A t \in Shards : manifest[t].latest <= manifest'[t].latest
  BY <1>1
<1>3. (\A t \in Shards : ShardInv(t))'
  BY DEF PastInv, ShardInv
<1>4. (\A v \in Writers : InFlight(v))'
  BY IdleFlight DEF InFlight, AllIdle
<1>5. (\A a \in acked : Holds(a))'
  <2> SUFFICES ASSUME NEW a \in acked PROVE Holds(a)'
    OBVIOUS
  <2>1. a[1] \in Shards /\ Holds(a)
    BY DEF PastInv, TypeInv, TypeOK
  <2>2. CASE a[1] = s
    BY <2>1, <2>2 DEF Holds
  <2>3. CASE a[1] # s
    BY <2>1, <2>3 DEF Holds
  <2> QED BY <2>2, <2>3
<1>6. ToldInOrder'
  <2>1. ChronicleInOrder'
    BY DEF PastInv, ToldInOrder, ChronicleInOrder
  <2>2. \A v \in Writers : ~Adds(op'[v])
    <3>1. \A v \in Writers : op'[v] = Idle
      BY DEF AllIdle
    <3>2. ~Adds(Idle)
      BY DEF Adds, Idle, Telling
    <3> QED BY <3>1, <3>2
  <2>3. \A i \in 1..Len(chronicle) :
          /\ chronicle[i].shard \in Shards /\ chronicle[i].new \in Nat
          /\ chronicle[i].new <= manifest[chronicle[i].shard].latest
    <3>1. \A i \in 1..Len(chronicle) : chronicle[i] \in Record
      BY DEF PastInv, TypeInv, TypeOK
    <3> QED BY <3>1, StoreBounds DEF Record, PastInv, ToldInOrder
  <2>4. \A i \in 1..Len(chronicle) : chronicle[i].new <= manifest'[chronicle[i].shard].latest
    BY <1>1, <1>2, <2>3
  <2> QED BY <2>1, <2>2, <2>4 DEF ToldInOrder, Adds
<1>7. IndexBehind'
  <2>1. ASSUME NEW d \in Directory, Behind(d)
        PROVE  \A t \in Shards : d[t].snap <= manifest'[t].latest
    <3>1. \A t \in Shards : d[t].snap \in Nat
      BY StoreBounds DEF Directory, Entry
    <3> QED BY <1>1, <1>2, <2>1, <3>1 DEF Behind
  <2>2. /\ directory \in Directory /\ (\A r \in Readers : view[r] \in Directory)
        /\ \A v \in Writers : op[v].dir \in Directory
    BY DEF PastInv, TypeInv, TypeOK, Op
  <2> QED BY <2>1, <2>2 DEF PastInv, IndexBehind, Behind
<1> QED BY <1>3, <1>4, <1>5, <1>6, <1>7 DEF PastInv

LEMMA AdoptKeeps ==
  ASSUME PastInv, TypeInv', ShardExclusive', NEW s \in Shards, RecoverAdopt(s)
  PROVE  PastInv'
<1>1. PICK n : n = manifest[s].latest + 1
  OBVIOUS
<1>2. /\ manifest \in [Shards -> Manifest] /\ manifest[s] \in Manifest /\ manifest[s].latest \in Nat
      /\ snapFile[s] \in SnapFiles /\ snaps[s] \in SnapMap /\ ShardInv(s)
  BY Types DEF PastInv, TypeInv, TypeOK, SnapFiles, SnapMap
<1>3. /\ AllIdle /\ manFile[s] = "whole" /\ manifest[s].latest < MaxSnap /\ snapFile[s][n] = "whole"
      /\ manifest' = [manifest EXCEPT ![s].latest = n, ![s].ids = Append(@, n)]
      /\ UNCHANGED <<snaps, snapFile, manFile, directory, chronicle, op, view, acked>>
  BY <1>1 DEF RecoverAdopt, Orphan
<1>4. /\ manifest'[s].latest = n /\ manifest'[s].ids = Append(manifest[s].ids, n)
      /\ \A t \in Shards \ {s} : manifest'[t] = manifest[t]
  BY <1>2, <1>3 DEF Manifest
<1>5. n \in SnapIds
  BY <1>1, <1>2, <1>3, StoreBounds DEF SnapIds
<1>6. /\ Chain(manifest'[s], snapFile[s], snaps[s])
      /\ \A e : manifest[s].latest \in SnapIds /\ Has(snaps[s][manifest[s].latest], e)
                => Has(snaps[s][n], e)
  <2>1. Chain(manifest[s], snapFile[s], snaps[s])
    BY <1>2 DEF ShardInv
  <2>2. PICK m \in Manifest, sf \in SnapFiles, sn \in SnapMap :
           m = manifest[s] /\ sf = snapFile[s] /\ sn = snaps[s]
    BY <1>2
  <2> PICK k : k = manifest'[s]
    OBVIOUS
  <2>3. /\ Chain(k, sf, sn)
        /\ \A e : m.latest \in SnapIds /\ Has(sn[m.latest], e) => Has(sn[n], e)
    <3>1. /\ Chain(m, sf, sn) /\ n = m.latest + 1 /\ n \in SnapIds /\ sf[n] = "whole"
          /\ k.latest = n /\ k.ids = Append(m.ids, n)
      BY <1>1, <1>3, <1>4, <1>5, <2>1, <2>2
    <3> QED BY <3>1, MoreChain
  <2> QED BY <2>2, <2>3
<1>7. ShardInv(s)'
  BY <1>3, <1>6 DEF ShardInv
<1>8. manifest[s].latest <= manifest'[s].latest
  BY <1>1, <1>2, <1>4
<1>9. \A e : manifest[s].latest \in SnapIds /\ Has(snaps[s][manifest[s].latest], e)
                  => /\ manifest'[s].latest \in SnapIds
                     /\ Has(snaps'[s][manifest'[s].latest], e)
  BY <1>3, <1>4, <1>5, <1>6
<1>10. \A t \in Shards \ {s} : /\ manifest'[t] = manifest[t] /\ snapFile'[t] = snapFile[t]
                               /\ snaps'[t] = snaps[t]
  BY <1>3, <1>4
<1> QED BY <1>3, <1>7, <1>8, <1>9, <1>10, RepairKeeps

LEMMA DeleteKeeps ==
  ASSUME PastInv, TypeInv', ShardExclusive', NEW s \in Shards, RecoverDelete(s)
  PROVE  PastInv'
<1>1. PICK n : n = manifest[s].latest + 1
  OBVIOUS
<1>2. /\ manifest[s].latest \in Nat /\ ShardInv(s)
      /\ snapFile \in [Shards -> SnapFiles] /\ snaps \in [Shards -> SnapMap]
  BY Types DEF PastInv, TypeInv, TypeOK, SnapFiles, SnapMap
<1>3. PICK sf : sf = [snapFile[s] EXCEPT ![n] = "absent"]
  OBVIOUS
<1>4. PICK sn : sn = [snaps[s] EXCEPT ![n] = BlankSnap]
  OBVIOUS
<1>5. /\ AllIdle /\ manifest[s].latest < MaxSnap
      /\ snapFile' = [snapFile EXCEPT ![s] = sf] /\ snaps' = [snaps EXCEPT ![s] = sn]
      /\ UNCHANGED <<manifest, manFile, directory, chronicle, op, view, acked>>
  BY <1>1, <1>3, <1>4 DEF RecoverDelete, Orphan
<1>6. n \in SnapIds /\ n # manifest[s].latest
  BY <1>1, <1>2, <1>5, StoreBounds DEF SnapIds
<1>7. /\ sf[n] = "absent"
      /\ \A k \in SnapIds : k # n => sf[k] = snapFile[s][k] /\ sn[k] = snaps[s][k]
  BY <1>2, <1>3, <1>4, <1>6 DEF SnapFiles, SnapMap
<1>8. Chain(manifest[s], snapFile[s], snaps[s])
  BY <1>2 DEF ShardInv
<1>9. Chain(manifest[s], sf, sn)
  <2>1. \A k \in 1..manifest[s].latest : k \in SnapIds /\ k # n
    BY <1>1, <1>2, <1>5, StoreBounds DEF SnapIds
  <2>2. \A k \in 1..manifest[s].latest : sf[k] = "whole"
    BY <1>7, <1>8, <2>1 DEF Chain
  <2>3. \A k \in SnapIds : k > manifest[s].latest + 1 => sf[k] = "absent"
    BY <1>1, <1>2, <1>7, <1>8 DEF Chain, SnapIds
  <2>4. ASSUME NEW k \in SnapIds, sf[k] = "whole" PROVE Extends(sn[k], k, sn)
    <3>1. k # n /\ snapFile[s][k] = "whole" /\ sn[k] = snaps[s][k]
      BY <1>7, <2>4
    <3>2. k <= manifest[s].latest
      BY <1>1, <1>2, <1>8, <3>1 DEF Chain, SnapIds
    <3>3. k > 1 => k - 1 \in SnapIds /\ k - 1 # n
      BY <1>1, <1>2, <3>2, StoreBounds DEF SnapIds
    <3> QED BY <1>7, <1>8, <3>1, <3>3 DEF Chain, Extends
  <2> QED BY <1>8, <2>2, <2>3, <2>4 DEF Chain
<1>10. /\ snapFile'[s] = sf /\ snaps'[s] = sn
       /\ \A t \in Shards \ {s} : /\ manifest'[t] = manifest[t] /\ snapFile'[t] = snapFile[t]
                                /\ snaps'[t] = snaps[t]
  BY <1>2, <1>5
<1>11. ShardInv(s)' /\ manifest[s].latest <= manifest'[s].latest
  BY <1>2, <1>5, <1>9, <1>10 DEF ShardInv
<1>12. \A e : manifest[s].latest \in SnapIds /\ Has(snaps[s][manifest[s].latest], e)
                  => /\ manifest'[s].latest \in SnapIds
                     /\ Has(snaps'[s][manifest'[s].latest], e)
  BY <1>5, <1>6, <1>7, <1>10
<1> QED BY <1>5, <1>10, <1>11, <1>12, RepairKeeps

-----------------------------------------------------------------------------
(* The invariant.                                                          *)

LEMMA InitPast == Init => PastInv
<1> SUFFICES ASSUME Init PROVE PastInv
  OBVIOUS
<1>1. TypeInv
  BY InitType
<1>2. ShardExclusive /\ \A w \in Writers : InFlight(w)
  BY IdleFlight DEF Init, ShardExclusive, InFlight
<1>3. \A s \in Shards : ShardInv(s)
  <2> SUFFICES ASSUME NEW s \in Shards PROVE Chain(BlankMan, snapFile[s], snaps[s])
    BY DEF Init, ShardInv
  <2>1. << >> = [n \in 1..0 |-> n]
    OBVIOUS
  <2> QED BY <2>1 DEF Init, Chain, BlankMan
<1>4. \A a \in acked : Holds(a)
  BY DEF Init
<1>5. ToldInOrder
  BY DEF Init, ToldInOrder, ChronicleInOrder
<1>6. IndexBehind
  <2>1. Behind(BlankDir)
    BY <1>1, Types DEF Behind, BlankDir, BlankEntry
  <2> QED BY <2>1 DEF Init, IndexBehind, Idle
<1> QED BY <1>1, <1>2, <1>3, <1>4, <1>5, <1>6 DEF PastInv

LEMMA StillKeeps ==
  ASSUME PastInv, TypeInv', UNCHANGED vars
  PROVE  PastInv'
<1>1. UNCHANGED <<snaps, snapFile, manifest, manFile, directory, chronicle, op, view, acked>>
  BY DEF vars, disk
<1>2. ShardExclusive' /\ IndexBehind'
  BY <1>1 DEF PastInv, ShardExclusive, IndexBehind, Behind
<1>3. (\A s \in Shards : ShardInv(s))' /\ (\A w \in Writers : InFlight(w))'
  BY <1>1 DEF PastInv, ShardInv, InFlight
<1>4. (\A a \in acked : Holds(a))' /\ ToldInOrder'
  BY <1>1 DEF PastInv, Holds, ToldInOrder, ChronicleInOrder, Adds
<1> QED BY <1>2, <1>3, <1>4 DEF PastInv

LEMMA CommandKeeps ==
  ASSUME PastInv, TypeInv', ShardExclusive', NEW w \in Writers, WriterStep(w)
  PROVE  PastInv'
<1>1. ASSUME NEW k \in Kinds, NEW s \in Shards, Begin(w, k, s) PROVE PastInv'
  BY <1>1, BeginKeeps
<1>2. CASE Crash(w)
  BY <1>2, StopKeeps DEF Crash
<1>3. CASE DryRun(w) \/ AppendCheckOrphan(w) \/ SnapshotRefuse(w) \/ AppendLoadEntry(w)
  BY <1>3, PassesKeep
<1>4. CASE CreateLoadManifest(w) \/ AppendLoadManifest(w) \/ FreezeLoadManifest(w)
  BY <1>4, LoadsKeep
<1>5. CASE AppendLoadPrevious(w)
  BY <1>5, LoadPreviousKeeps
<1>6. CASE SnapshotOpen(w)
  BY <1>6, SnapshotOpenKeeps
<1>7. CASE SnapshotPut(w)
  BY <1>7, SnapshotPutKeeps
<1>8. CASE ManifestOpen(w)
  BY <1>8, ManifestOpenKeeps
<1>9. CASE ManifestPut(w)
  BY <1>9, ManifestPutKeeps
<1>10. CASE DirectoryLoad(w)
  BY <1>10, DirectoryLoadKeeps
<1>11. CASE DirectoryOpen(w) \/ DirectoryPut(w)
  BY <1>11, DirectoryWritesKeep
<1>12. CASE ChronicleAppend(w)
  BY <1>12, ChronicleKeeps
<1> QED BY <1>1, <1>2, <1>3, <1>4, <1>5, <1>6, <1>7, <1>8, <1>9, <1>10, <1>11, <1>12 DEF WriterStep

LEMMA NextPast ==
  ASSUME PastInv, [Next \/ Operator]_vars, UNCHANGED vars \/ ShardExclusive'
  PROVE  PastInv'
<1>1. TypeInv'
  BY NextType DEF PastInv
<1>2. CASE UNCHANGED vars
  BY <1>1, <1>2, StillKeeps
<1>3. CASE ShardExclusive' /\ \E w \in Writers : WriterStep(w)
  BY <1>1, <1>3, CommandKeeps
<1>4. CASE ShardExclusive' /\ Query
  BY <1>1, <1>4, QueryKeeps
<1>5. CASE ShardExclusive' /\ Operator
  BY <1>1, <1>5, AdoptKeeps, DeleteKeeps DEF Operator
<1>6. CASE Finished
  BY <1>1, <1>6, StillKeeps DEF Finished
<1> QED BY <1>2, <1>3, <1>4, <1>5, <1>6 DEF Next

\* What holds of the store however it is used, and more of a disciplined one.
StoreInv == TypeInv /\ discipline \in Disciplines /\ (Disciplined => PastInv)

LEMMA InitStore == MCInit => StoreInv
BY InitPast DEF MCInit, StoreInv, PastInv

LEMMA NextStore == StoreInv /\ [MCNext]_allVars => StoreInv'
<1> SUFFICES ASSUME StoreInv, [MCNext]_allVars PROVE StoreInv'
  OBVIOUS
<1>1. [Next \/ Operator]_vars /\ discipline' = discipline
  BY DEF MCNext, allVars
<1>2. TypeInv' /\ discipline' \in Disciplines
  BY <1>1, NextType DEF StoreInv
<1>3. ASSUME Disciplined' PROVE PastInv'
  <2>1. Disciplined /\ PastInv
    BY <1>1, <1>3 DEF Disciplined, StoreInv
  <2>2. UNCHANGED vars \/ Respected'
    BY DEF MCNext, allVars
  <2>3. Respected' => ShardExclusive'
    <3>1. discipline' = "alone" \/ discipline' = "perShard"
      BY <1>2, <1>3 DEF Disciplines, Disciplined
    <3> QED BY <3>1 DEF Respected, ShardExclusive
  <2> QED BY <1>1, <2>1, <2>2, <2>3, NextPast
<1> QED BY <1>2, <1>3 DEF StoreInv

\* Under one command at a time per shard every version a manifest lists is a
\* readable file that extends its parent by one event, a write that was
\* reported is in the latest version from then on, and the chronicle tells each
\* shard's versions in order: whatever crashes, is repaired or runs on other
\* shards (appendEventAndSnapshot's write order in commit.ts).
THEOREM HistoryIsKept == MCSpec => []HistoryKept
<1>1. StoreInv => HistoryKept
  <2> SUFFICES ASSUME StoreInv, Disciplined PROVE VersionChain /\ AckedWritesSurvive /\ ChronicleInOrder
    BY DEF HistoryKept, ChainKept, AckedKept, ChronicleOrdered
  <2>1. PastInv /\ \A s \in Shards : manifest[s].latest \in Nat /\ manifest[s].latest <= MaxSnap
    BY StoreBounds DEF StoreInv, PastInv, TypeInv, TypeOK, Manifest
  <2>2. VersionChain
    <3> SUFFICES ASSUME NEW s \in Shards
                 PROVE  LET latest == manifest[s].latest IN
                        /\ manifest[s].ids = [n \in 1..latest |-> n]
                        /\ \A n \in 1..latest :
                              /\ Whole(s, n)
                              /\ snaps[s][n].parent = n - 1
                              /\ Len(snaps[s][n].events) = n - 1
                              /\ n > 1 => SubSeq(snaps[s][n].events, 1, n - 2) = snaps[s][n-1].events
                        /\ \A n \in SnapIds : n > latest + 1 => ~Exists(s, n)
      BY DEF VersionChain
    <3>1. Chain(manifest[s], snapFile[s], snaps[s])
      BY <2>1 DEF PastInv, ShardInv
    <3>2. \A n \in 1..manifest[s].latest : n \in SnapIds
      BY <2>1, StoreBounds DEF SnapIds
    <3> QED BY <3>1, <3>2 DEF Chain, Extends, Whole, Exists
  <2>3. AckedWritesSurvive
    <3> SUFFICES ASSUME NEW a \in acked
                 PROVE  /\ manifest[a[1]].latest \in SnapIds
                        /\ Whole(a[1], manifest[a[1]].latest)
                        /\ \E i \in 1..Len(snaps[a[1]][manifest[a[1]].latest].events) :
                              snaps[a[1]][manifest[a[1]].latest].events[i] = a[2]
      BY DEF AckedWritesSurvive
    <3>1. a[1] \in Shards /\ Holds(a)
      BY <2>1 DEF PastInv, TypeInv, TypeOK
    <3>2. Whole(a[1], manifest[a[1]].latest)
      <4>1. Chain(manifest[a[1]], snapFile[a[1]], snaps[a[1]])
        BY <2>1, <3>1 DEF PastInv, ShardInv
      <4>2. manifest[a[1]].latest \in 1..manifest[a[1]].latest
        BY <3>1, StoreBounds DEF Holds, SnapIds
      <4> QED BY <4>1, <4>2 DEF Chain, Whole
    <3> QED BY <3>1, <3>2 DEF Holds, Has
  <2> QED BY <2>1, <2>2, <2>3 DEF PastInv, ToldInOrder
<1> QED BY <1>1, InitStore, NextStore, PTL DEF MCSpec

\* The routing index, and every copy of it a query holds, may lag behind a shard
\* but never names a version its manifest does not list, and what it names can
\* be read (upsertDirectoryEntry after saveManifest in commit.ts).
THEOREM RoutingIsNeverAhead == MCSpec => []RoutingNeverAhead
<1>1. StoreInv => RoutingNeverAhead
  <2> SUFFICES ASSUME StoreInv, Disciplined, NEW s \in Shards,
                      NEW e \in {directory[s]} \cup {view[r][s] : r \in Readers}, e.snap # 0
               PROVE  e.snap <= manifest[s].latest /\ Whole(s, e.snap)
    BY DEF RoutingNeverAhead, DirectoryNeverAhead
  <2>1. PastInv
    BY DEF StoreInv
  <2>2. e.snap <= manifest[s].latest
    BY <2>1 DEF PastInv, IndexBehind, Behind
  <2>3. e.snap \in Nat /\ manifest[s].latest \in Nat
    BY <2>1, StoreBounds DEF PastInv, TypeInv, TypeOK, Directory, Entry, Manifest
  <2>4. e.snap \in 1..manifest[s].latest
    BY <2>2, <2>3
  <2> QED BY <2>1, <2>2, <2>4 DEF PastInv, ShardInv, Chain, Whole
<1> QED BY <1>1, InitStore, NextStore, PTL DEF MCSpec
-----------------------------------------------------------------------------
(* What no step may change.                                                *)

\* The steps that write a snapshot file write one that was not whole.
LEMMA FilesStay ==
  ASSUME PastInv, [Next \/ Operator]_vars, NEW s \in Shards, NEW n \in SnapIds,
         Whole(s, n), Exists(s, n)'
  PROVE  Whole(s, n)' /\ snaps'[s][n] = snaps[s][n]
<1>1. /\ snapFile \in [Shards -> SnapFiles] /\ snaps \in [Shards -> SnapMap]
      /\ snapFile[s] \in SnapFiles /\ snaps[s] \in SnapMap
  BY DEF PastInv, TypeInv, TypeOK, SnapFiles, SnapMap
<1>2. CASE UNCHANGED <<snaps, snapFile>>
  BY <1>2 DEF Whole
<1>3. ASSUME NEW w \in Writers, SnapshotOpen(w) \/ SnapshotPut(w)
      PROVE  Whole(s, n)' /\ snaps'[s][n] = snaps[s][n]
  <2>1. PICK t \in Shards, k \in 0..MaxSnap : t = op[w].shard /\ k = op[w].new
    BY Known DEF Op
  <2>2. snapFile[t][k] # "whole"
    <3>1. Flight(op[w], manifest[t], snapFile[t], snaps[t]) /\ op[w].pc \in {"openSnap", "putSnap"}
      BY <1>3, <2>1, Known DEF InFlight, SnapshotOpen, SnapshotPut, At
    <3> QED BY <2>1, <3>1 DEF Flight
  <2>3. t # s \/ k # n
    BY <2>2 DEF Whole
  <2>4. CASE SnapshotOpen(w)
    <3>1. snapFile' = [snapFile EXCEPT ![t][k] = "empty"] /\ snaps' = snaps
      BY <2>1, <2>4 DEF SnapshotOpen
    <3> QED BY <1>1, <2>3, <3>1 DEF Whole, SnapFiles
  <2>5. CASE SnapshotPut(w)
    <3>1. PICK f : /\ snapFile' = [snapFile EXCEPT ![t][k] = f]
                   /\ snaps' = [snaps EXCEPT ![t][k] = op[w].snap]
      BY <2>1, <2>5 DEF SnapshotPut
    <3> QED BY <1>1, <2>3, <3>1 DEF Whole, SnapFiles, SnapMap
  <2> QED BY <1>3, <2>4, <2>5
<1>4. ASSUME NEW t \in Shards, RecoverDelete(t)
      PROVE  Whole(s, n)' /\ snaps'[s][n] = snaps[s][n]
  <2>1. PICK k : /\ snapFile' = [snapFile EXCEPT ![t][k] = "absent"]
                 /\ snaps' = [snaps EXCEPT ![t][k] = BlankSnap]
    BY <1>4 DEF RecoverDelete
  <2>2. t # s \/ k # n
    BY <1>1, <2>1 DEF Exists, SnapFiles
  <2> QED BY <1>1, <2>1, <2>2 DEF Whole, SnapFiles, SnapMap
<1>5. ASSUME NEW w \in Writers, WriterStep(w)
      PROVE  SnapshotOpen(w) \/ SnapshotPut(w) \/ UNCHANGED <<snaps, snapFile>>
  BY <1>5 DEF WriterStep, Begin, DryRun, CreateLoadManifest, AppendLoadManifest, AppendLoadPrevious,
     AppendCheckOrphan, FreezeLoadManifest, SnapshotRefuse, ManifestOpen, ManifestPut,
     AppendLoadEntry, DirectoryLoad, DirectoryOpen, DirectoryPut, ChronicleAppend, Crash, Stop, disk
<1>6. Query \/ Finished \/ UNCHANGED vars => UNCHANGED <<snaps, snapFile>>
  BY DEF Query, AskLoadDirectory, AskFinish, Finished, vars, disk
<1>7. ASSUME NEW t \in Shards, RecoverAdopt(t) PROVE UNCHANGED <<snaps, snapFile>>
  BY <1>7 DEF RecoverAdopt
<1> QED BY <1>2, <1>3, <1>4, <1>5, <1>6, <1>7 DEF Next, Operator

\* The steps that write a manifest write an active one, or freeze it again.
LEMMA FrozenStays ==
  ASSUME PastInv, [Next \/ Operator]_vars, NEW s \in Shards, manifest[s].status = "frozen"
  PROVE  manifest'[s] = manifest[s]
<1>1. manifest \in [Shards -> Manifest] /\ manifest[s] \in Manifest
  BY Types DEF PastInv
<1>2. CASE UNCHANGED manifest
  BY <1>2
<1>3. ASSUME NEW w \in Writers, ManifestPut(w) PROVE manifest'[s] = manifest[s]
  <2>1. PICK t \in Shards : t = op[w].shard
    BY Known
  <2>2. manifest' = [manifest EXCEPT ![t] = NewManifest(op[w])]
    BY <1>3, <2>1 DEF ManifestPut
  <2>3. CASE t # s
    BY <1>1, <2>2, <2>3
  <2>4. CASE t = s
    <3>1. Flight(op[w], manifest[s], snapFile[s], snaps[s]) /\ op[w].pc = "putMan"
      BY <1>3, <2>1, <2>4, Known DEF InFlight, ManifestPut, At
    <3>2. op[w].man = manifest[s] /\ op[w].kind = "freeze"
      BY <3>1 DEF Flight, Saving
    <3>3. NewManifest(op[w]) = manifest[s]
      BY <1>1, <3>2 DEF NewManifest, Manifest
    <3> QED BY <1>1, <2>2, <2>4, <3>3
  <2> QED BY <2>3, <2>4
<1>4. ASSUME NEW t \in Shards, RecoverAdopt(t) PROVE manifest'[s] = manifest[s]
  <2>1. t # s
    BY <1>4 DEF RecoverAdopt, Orphan
  <2> QED BY <1>1, <1>4, <2>1 DEF RecoverAdopt
<1>5. ASSUME NEW w \in Writers, WriterStep(w) PROVE ManifestPut(w) \/ UNCHANGED manifest
  BY <1>5 DEF WriterStep, Begin, DryRun, CreateLoadManifest, AppendLoadManifest, AppendLoadPrevious,
     AppendCheckOrphan, FreezeLoadManifest, SnapshotRefuse, SnapshotOpen, SnapshotPut, ManifestOpen,
     AppendLoadEntry, DirectoryLoad, DirectoryOpen, DirectoryPut, ChronicleAppend, Crash, Stop, disk
<1>6. Query \/ Finished \/ UNCHANGED vars => UNCHANGED manifest
  BY DEF Query, AskLoadDirectory, AskFinish, Finished, vars, disk
<1>7. ASSUME NEW t \in Shards, RecoverDelete(t) PROVE UNCHANGED manifest
  BY <1>7 DEF RecoverDelete
<1> QED BY <1>2, <1>3, <1>4, <1>5, <1>6, <1>7 DEF Next, Operator

\* Under one command at a time per shard no step overwrites a snapshot file
\* that was written whole, and none changes the manifest of a frozen shard
\* (writeSnapshot's refusal to overwrite, the status check of the append).
THEOREM HistoryIsFinal == MCSpec => HistoryFinal
<1>1. ASSUME StoreInv, [MCNext]_allVars
      PROVE  [Disciplined => \A s \in Shards : \A n \in SnapIds :
                Whole(s, n) /\ Exists(s, n)' =>
                    Whole(s, n)' /\ snaps'[s][n] = snaps[s][n]]_allVars
  <2>1. [Next \/ Operator]_vars
    BY <1>1 DEF MCNext, allVars
  <2> QED BY <1>1, <2>1, FilesStay DEF StoreInv
<1>2. ASSUME StoreInv, [MCNext]_allVars
      PROVE  [Disciplined => \A s \in Shards :
                manifest[s].status = "frozen" => manifest'[s] = manifest[s]]_allVars
  <2>1. [Next \/ Operator]_vars
    BY <1>2 DEF MCNext, allVars
  <2> QED BY <1>2, <2>1, FrozenStays DEF StoreInv
<1>3. MCSpec => FilesImmutable
  BY <1>1, InitStore, NextStore, PTL DEF MCSpec, FilesImmutable
<1>4. MCSpec => FreezeFinal
  BY <1>2, InitStore, NextStore, PTL DEF MCSpec, FreezeFinal
<1> QED BY <1>3, <1>4 DEF HistoryFinal

-----------------------------------------------------------------------------
(* The files of the disciplined store implement the append-only logs of    *)
(* ShardLog.  What PastInv lacks for that is that no event is added twice: *)
(* every version's newest event is of a command of its own, and an event   *)
(* of an older version stays at its place.                                 *)

\* The event that version n added to shard s, when it added one.
Newest(s, n) == snaps[s][n].events[n - 1]
Gains(s, n) == n > 1 /\ snapFile[s][n] = "whole"

\* Command o has not put its version on disk, or already holds its content.
Unwritten == {"dry", "man", "prev", "orphan", "refuse", "openSnap", "putSnap"}
Unput == {"orphan", "refuse", "openSnap", "putSnap"}

Threaded == \A s \in Shards : \A n \in SnapIds : snapFile[s][n] = "whole" =>
              \A i \in 1..n - 1 : snaps[s][n].events[i] = snaps[s][i + 1].events[i]
AddedOnce == \A s, t \in Shards : \A n, k \in SnapIds :
              Gains(s, n) /\ Gains(t, k) /\ Newest(s, n) = Newest(t, k) => s = t /\ n = k
AddedIssued == \A s \in Shards : \A n \in SnapIds : Gains(s, n) => Newest(s, n) \in 1..issued
OwnIds == \A v, w \in Writers : op[v] # Idle /\ op[w] # Idle /\ op[v].id = op[w].id => v = w

NotAdded(e) == \A s \in Shards : \A n \in SnapIds : Gains(s, n) => Newest(s, n) # e
EndsWithOwn(o) == o.pc \in Unput /\ o.kind \in Appends => o.snap.events[o.man.latest] = o.id
OwnEvent(w) == /\ op[w] # Idle => op[w].id \in 1..issued
               /\ op[w].pc \in Unwritten => NotAdded(op[w].id)
               /\ EndsWithOwn(op[w])

OnceInv == /\ Threaded /\ AddedOnce /\ AddedIssued /\ OwnIds
           /\ \A w \in Writers : OwnEvent(w)

-----------------------------------------------------------------------------
(* Steps that put no new version on disk.                                  *)

LEMMA IdleOnce == Idle.pc \notin Unwritten /\ EndsWithOwn(Idle)
BY DEF EndsWithOwn, Idle, Unwritten, Unput

\* The files may lose a version; command w ends, or goes on as itself.
LEMMA StepOnce ==
  ASSUME TypeInv, OnceInv, NEW w \in Writers, NEW o, op' = [op EXCEPT ![w] = o],
         \A s \in Shards : \A n \in SnapIds :
            snapFile'[s][n] = "whole" => snapFile[s][n] = "whole",
         snaps' = snaps, issued' = issued,
         \/ o = Idle
         \/ /\ op[w] # Idle /\ o.id = op[w].id
            /\ o.pc \in Unwritten => op[w].pc \in Unwritten
            /\ EndsWithOwn(o)
  PROVE  OnceInv'
<1>1. op'[w] = o /\ \A v \in Writers \ {w} : op'[v] = op[v]
  BY DEF TypeInv, TypeOK
<1>2. \A s \in Shards : \A n \in SnapIds : /\ Gains(s, n)' => Gains(s, n)
                                          /\ Newest(s, n)' = Newest(s, n)
  BY DEF Gains, Newest
<1>3. Threaded'
  BY DEF OnceInv, Threaded
<1>4. AddedOnce' /\ AddedIssued'
  BY <1>2 DEF OnceInv, AddedOnce, AddedIssued
<1>5. OwnIds'
  BY <1>1 DEF OnceInv, OwnIds
<1>6. ASSUME NEW e, NotAdded(e) PROVE NotAdded(e)'
  BY <1>2, <1>6 DEF NotAdded
<1>7. ASSUME NEW v \in Writers PROVE OwnEvent(v)'
  <2>1. CASE v # w
    <3>1. op'[v] = op[v] /\ OwnEvent(v)
      BY <1>1, <2>1 DEF OnceInv
    <3> QED BY <1>6, <3>1 DEF OwnEvent
  <2>2. CASE v = w /\ o = Idle
    BY <1>1, <2>2, IdleOnce DEF OwnEvent
  <2>3. CASE v = w /\ o # Idle
    <3>1. op'[v] = o /\ OwnEvent(w)
      BY <1>1, <2>3 DEF OnceInv
    <3> QED BY <1>6, <2>3, <3>1 DEF OwnEvent
  <2> QED BY <2>1, <2>2, <2>3
<1> QED BY <1>3, <1>4, <1>5, <1>7 DEF OnceInv

LEMMA BeginOnce ==
  ASSUME TypeInv, OnceInv, NEW w \in Writers, NEW k \in Kinds, NEW s \in Shards, Begin(w, k, s)
  PROVE  OnceInv'
<1>1. PICK o : o = [Idle EXCEPT !.kind = k, !.shard = s, !.id = issued + 1,
                     !.pc = IF k \in {"commit", "freeze"} THEN "dry" ELSE "man"]
  OBVIOUS
<1>2. /\ op' = [op EXCEPT ![w] = o] /\ op[w] = Idle /\ issued' = issued + 1
      /\ UNCHANGED <<snaps, snapFile>> /\ issued \in Nat
  BY <1>1, StoreBounds DEF Begin, disk, TypeInv, TypeOK
<1>3. o.id = issued + 1 /\ o.pc \in {"dry", "man"}
  BY <1>1 DEF Idle
<1>4. op'[w] = o /\ \A v \in Writers \ {w} : op'[v] = op[v]
  BY <1>2 DEF TypeInv, TypeOK
<1>5. \A t \in Shards : \A n \in SnapIds : /\ Gains(t, n)' = Gains(t, n)
                                          /\ Newest(t, n)' = Newest(t, n)
  BY <1>2 DEF Gains, Newest
<1>6. Threaded'
  BY <1>2 DEF OnceInv, Threaded
<1>7. AddedOnce'
  BY <1>5 DEF OnceInv, AddedOnce
<1>8. AddedIssued'
  <2>1. \A e \in 1..issued : e \in 1..issued'
    BY <1>2
  <2> QED BY <1>5, <2>1 DEF OnceInv, AddedIssued
<1>9. \A v \in Writers : op[v] # Idle => op[v].id \in 1..issued /\ op[v].id \in 1..issued'
                                        /\ op[v].id # issued + 1
  BY <1>2 DEF OnceInv, OwnEvent
<1>10. OwnIds'
  BY <1>2, <1>3, <1>4, <1>9 DEF OnceInv, OwnIds
<1>11. ASSUME NEW v \in Writers PROVE OwnEvent(v)'
  <2>1. \A e : NotAdded(e) => NotAdded(e)'
    BY <1>5 DEF NotAdded
  <2>2. CASE v # w
    <3>1. op'[v] = op[v] /\ OwnEvent(v)
      BY <1>4, <2>2 DEF OnceInv
    <3> QED BY <1>9, <2>1, <3>1 DEF OwnEvent
  <2>3. CASE v = w
    <3>1. o.id \in 1..issued' /\ EndsWithOwn(o)
      BY <1>2, <1>3 DEF EndsWithOwn, Unput
    <3>2. NotAdded(issued + 1)
      BY <1>2 DEF OnceInv, AddedIssued, NotAdded
    <3>3. NotAdded(o.id)'
      BY <1>3, <2>1, <3>2
    <3> QED BY <1>4, <2>3, <3>1, <3>3 DEF OwnEvent
  <2> QED BY <2>2, <2>3
<1> QED BY <1>6, <1>7, <1>8, <1>10, <1>11 DEF OnceInv

\* A command that goes on to another step, is stopped or dies.
LEMMA GotoOnce ==
  ASSUME PastInv, OnceInv, NEW w \in Writers, NEW pc, Goto(w, pc), op[w] # Idle,
         \A s \in Shards : \A n \in SnapIds :
            snapFile'[s][n] = "whole" => snapFile[s][n] = "whole",
         snaps' = snaps,
         pc \in Unwritten => op[w].pc \in Unwritten,
         pc \in Unput => op[w].pc \in Unput
  PROVE  OnceInv'
<1>1. PICK o : o = [op[w] EXCEPT !.pc = pc]
  OBVIOUS
<1>2. op' = [op EXCEPT ![w] = o] /\ issued' = issued /\ TypeInv
  BY <1>1 DEF Goto, Become, PastInv
<1>3. /\ o.pc = pc /\ o.kind = op[w].kind /\ o.id = op[w].id /\ o.snap = op[w].snap
      /\ o.man = op[w].man
  BY <1>1, Known DEF Op
<1>4. EndsWithOwn(o)
  BY <1>3 DEF OnceInv, OwnEvent, EndsWithOwn
<1> QED BY <1>2, <1>3, <1>4, StepOnce

LEMMA StopOnce ==
  ASSUME PastInv, OnceInv, NEW w \in Writers, op' = [op EXCEPT ![w] = Idle],
         UNCHANGED <<snaps, snapFile, issued>>
  PROVE  OnceInv'
BY StepOnce DEF PastInv

LEMMA QuietOnce ==
  ASSUME PastInv, OnceInv, NEW w \in Writers,
         \/ DryRun(w) \/ AppendCheckOrphan(w) \/ SnapshotRefuse(w)
         \/ ManifestOpen(w) \/ ManifestPut(w)
         \/ AppendLoadEntry(w) \/ DirectoryOpen(w) \/ DirectoryPut(w)
         \/ ChronicleAppend(w) \/ Crash(w) \/ SnapshotOpen(w)
  PROVE  OnceInv'
<1>1. ASSUME Stop(w) \/ Crash(w) \/ ChronicleAppend(w) PROVE OnceInv'
  BY <1>1, StopOnce DEF Stop, Become, disk, Crash, ChronicleAppend
<1>2. op[w].pc # "idle" => op[w] # Idle
  BY BusyIsNotIdle
<1>3. ASSUME SnapshotOpen(w) PROVE OnceInv'
  <2>1. \A s \in Shards : \A n \in SnapIds :
            snapFile'[s][n] = "whole" => snapFile[s][n] = "whole"
    <3>1. snapFile \in [Shards -> [SnapIds -> FileStates]]
      BY DEF PastInv, TypeInv, TypeOK
    <3> QED BY <1>3, <3>1 DEF SnapshotOpen
  <2> QED BY <1>2, <1>3, <2>1, GotoOnce DEF SnapshotOpen, At, Unwritten, Unput
<1>4. ASSUME NEW pc, Goto(w, pc), UNCHANGED <<snaps, snapFile>>, op[w].pc # "idle",
             pc \in Unwritten => op[w].pc \in Unwritten, pc \in Unput => op[w].pc \in Unput
      PROVE  OnceInv'
  BY <1>2, <1>4, GotoOnce
<1>5. CASE DryRun(w) \/ AppendCheckOrphan(w) \/ SnapshotRefuse(w) \/ AppendLoadEntry(w)
  BY <1>1, <1>4, <1>5 DEF DryRun, AppendCheckOrphan, SnapshotRefuse, AppendLoadEntry, At, disk,
     Unwritten, Unput
<1>6. CASE ManifestOpen(w) \/ ManifestPut(w) \/ DirectoryOpen(w) \/ DirectoryPut(w)
  BY <1>4, <1>6 DEF ManifestOpen, ManifestPut, DirectoryOpen, DirectoryPut, At, Unwritten, Unput
<1> QED BY <1>1, <1>3, <1>5, <1>6

\* A command that reads a manifest, the version before or the directory.
LEMMA ReadsOnce ==
  ASSUME PastInv, OnceInv, NEW w \in Writers,
         \/ CreateLoadManifest(w) \/ AppendLoadManifest(w) \/ FreezeLoadManifest(w)
         \/ AppendLoadPrevious(w) \/ DirectoryLoad(w)
  PROVE  OnceInv'
<1>1. ASSUME Stop(w) PROVE OnceInv'
  BY <1>1, StopOnce DEF Stop, Become, disk
<1>2. ASSUME NEW o, Become(w, o), UNCHANGED disk, op[w].pc # "idle", o.id = op[w].id,
             o.pc \in Unwritten => op[w].pc \in Unwritten, EndsWithOwn(o)
      PROVE  OnceInv'
  <2>1. UNCHANGED <<snaps, snapFile, issued>> /\ op' = [op EXCEPT ![w] = o] /\ TypeInv
    BY <1>2 DEF disk, Become, PastInv
  <2> QED BY <1>2, <2>1, BusyIsNotIdle, StepOnce
<1>3. op[w] \in Op /\ InFlight(w)
  BY Known
<1>4. CASE CreateLoadManifest(w)
  <2>1. PICK o : o = [op[w] EXCEPT !.pc = "refuse", !.new = 1]
    OBVIOUS
  <2>2. o.pc = "refuse" /\ o.id = op[w].id /\ o.kind = op[w].kind
    BY <1>3, <2>1 DEF Op
  <2>3. op[w].pc = "man" /\ op[w].kind = "create" /\ (Stop(w) \/ (Become(w, o) /\ UNCHANGED disk))
    BY <1>4, <2>1 DEF CreateLoadManifest, At
  <2>4. EndsWithOwn(o)
    BY <2>2, <2>3 DEF EndsWithOwn, Appends
  <2> QED BY <1>1, <1>2, <2>2, <2>3, <2>4 DEF Unwritten
<1>5. CASE AppendLoadManifest(w)
  <2>1. PICK o : o = [op[w] EXCEPT !.pc = "prev", !.man = manifest[op[w].shard],
                                   !.new = manifest[op[w].shard].latest + 1]
    OBVIOUS
  <2>2. o.pc = "prev" /\ o.id = op[w].id
    BY <1>3, <2>1 DEF Op
  <2>3. op[w].pc = "man" /\ (Stop(w) \/ (Become(w, o) /\ UNCHANGED disk))
    BY <1>5, <2>1 DEF AppendLoadManifest, At
  <2>4. EndsWithOwn(o)
    BY <2>2 DEF EndsWithOwn, Unput
  <2> QED BY <1>1, <1>2, <2>2, <2>3, <2>4 DEF Unwritten
<1>6. CASE FreezeLoadManifest(w)
  <2>1. PICK o : o = [op[w] EXCEPT !.pc = "openMan", !.man = manifest[op[w].shard]]
    OBVIOUS
  <2>2. o.pc = "openMan" /\ o.id = op[w].id
    BY <1>3, <2>1 DEF Op
  <2>3. op[w].pc = "man" /\ (Stop(w) \/ (Become(w, o) /\ UNCHANGED disk))
    BY <1>6, <2>1 DEF FreezeLoadManifest, At
  <2>4. EndsWithOwn(o)
    BY <2>2 DEF EndsWithOwn, Unput
  <2> QED BY <1>1, <1>2, <2>2, <2>3, <2>4 DEF Unwritten
<1>7. CASE AppendLoadPrevious(w)
  <2>1. PICK n : n = op[w].man.latest
    OBVIOUS
  <2>2. PICK c : c = [events |-> Append(snaps[op[w].shard][n].events, op[w].id), parent |-> n]
    OBVIOUS
  <2>3. PICK o : o = [op[w] EXCEPT !.pc = "orphan", !.snap = c]
    OBVIOUS
  <2>4. /\ op[w].pc = "prev"
        /\ \/ Stop(w)
           \/ /\ n \in SnapIds /\ snapFile[op[w].shard][n] = "whole"
              /\ Become(w, o) /\ UNCHANGED disk
    BY <1>7, <2>1, <2>2, <2>3 DEF AppendLoadPrevious, At
  <2>5. o.pc = "orphan" /\ o.id = op[w].id /\ o.snap = c /\ o.man.latest = n
    BY <1>3, <2>1, <2>3 DEF Op
  <2>6. ASSUME n \in SnapIds, snapFile[op[w].shard][n] = "whole" PROVE EndsWithOwn(o)
    <3>1. PICK old : old = snaps[op[w].shard][n].events
      OBVIOUS
    <3>2. old \in Seq(Nat) /\ n \in Nat
      BY <2>6, <3>1, Known, StoreBounds DEF Snapshot, SnapIds
    <3>3. Extends(snaps[op[w].shard][n], n, snaps[op[w].shard])
      BY <2>6, Known DEF ShardInv, Chain
    <3>4. Len(old) = n - 1
      BY <3>1, <3>3 DEF Extends
    <3>5. Append(old, op[w].id)[n] = op[w].id
      BY <3>2, <3>4
    <3>6. o.snap.events = Append(old, op[w].id)
      <4>1. c = [events |-> Append(old, op[w].id), parent |-> n]
        BY <2>2, <3>1
      <4>2. c.events = Append(old, op[w].id)
        BY <4>1
      <4> QED BY <2>5, <4>2
    <3> QED BY <2>5, <3>5, <3>6 DEF EndsWithOwn
  <2> QED BY <1>1, <1>2, <2>4, <2>5, <2>6 DEF Unwritten
<1>8. CASE DirectoryLoad(w)
  <2>1. \/ Stop(w)
        \/ Become(w, [op[w] EXCEPT !.pc = "log"]) /\ UNCHANGED disk
        \/ \E d : Become(w, [op[w] EXCEPT !.pc = "openDir", !.dir = d]) /\ UNCHANGED disk
    BY <1>8 DEF DirectoryLoad
  <2>2. op[w].pc = "dir"
    BY <1>8 DEF DirectoryLoad, At
  <2>3. CASE Become(w, [op[w] EXCEPT !.pc = "log"]) /\ UNCHANGED disk
    <3>1. PICK o : o = [op[w] EXCEPT !.pc = "log"]
      OBVIOUS
    <3>2. o.pc = "log" /\ o.id = op[w].id
      BY <1>3, <3>1 DEF Op
    <3> QED BY <1>2, <2>2, <2>3, <3>1, <3>2 DEF EndsWithOwn, Unput, Unwritten
  <2>4. ASSUME NEW d, Become(w, [op[w] EXCEPT !.pc = "openDir", !.dir = d]), UNCHANGED disk
        PROVE  OnceInv'
    <3>1. PICK o : o = [op[w] EXCEPT !.pc = "openDir", !.dir = d]
      OBVIOUS
    <3>2. o.pc = "openDir" /\ o.id = op[w].id
      BY <1>3, <3>1 DEF Op
    <3> QED BY <1>2, <2>2, <2>4, <3>1, <3>2 DEF EndsWithOwn, Unput, Unwritten
  <2> QED BY <1>1, <2>1, <2>3, <2>4
<1> QED BY <1>4, <1>5, <1>6, <1>7, <1>8
-----------------------------------------------------------------------------
(* The steps that change the snapshot files.                               *)

\* A version that a command wrote ends with the command's own event.
LEMMA SnapshotPutOnce ==
  ASSUME PastInv, OnceInv, NEW w \in Writers, SnapshotPut(w)
  PROVE  OnceInv'
<1>1. PICK s \in Shards, k \in 0..MaxSnap : s = op[w].shard /\ k = op[w].new
  BY Known DEF Op
<1>2. /\ op[w] \in Op /\ manifest[s] \in Manifest /\ Numbered(op[w])
      /\ Flight(op[w], manifest[s], snapFile[s], snaps[s]) /\ ShardInv(s)
      /\ snapFile \in [Shards -> SnapFiles] /\ snaps \in [Shards -> SnapMap]
  BY <1>1, Known DEF InFlight, PastInv, TypeInv, TypeOK, SnapFiles, SnapMap
<1>3. /\ op[w].pc = "putSnap" /\ op[w].kind # "freeze" /\ op[w].man = manifest[s]
      /\ Extends(op[w].snap, manifest[s].latest + 1, snaps[s])
  <2>1. op[w].pc = "putSnap"
    BY DEF SnapshotPut, At
  <2> QED BY <1>2, <2>1 DEF Flight, Adding, Built
<1>4. /\ k = manifest[s].latest + 1 /\ manifest[s].latest \in Nat /\ k \in Nat /\ k \in SnapIds
      /\ k - 1 = manifest[s].latest
  BY <1>1, <1>2, <1>3, NewNumber DEF Past, Steps
<1>5. PICK f : /\ snapFile' = [snapFile EXCEPT ![s][k] = f]
               /\ snaps' = [snaps EXCEPT ![s][k] = op[w].snap]
               /\ op' = [op EXCEPT ![w] = [op[w] EXCEPT !.pc = "openMan"]] /\ issued' = issued
  BY <1>1 DEF SnapshotPut, Goto, Become
<1>6. PICK o : o = [op[w] EXCEPT !.pc = "openMan"]
  OBVIOUS
<1>7. /\ op'[w] = o /\ (\A v \in Writers \ {w} : op'[v] = op[v])
      /\ o.pc = "openMan" /\ o.id = op[w].id
  BY <1>2, <1>5, <1>6 DEF PastInv, TypeInv, TypeOK, Op
<1>8. /\ snaps'[s][k] = op[w].snap
      /\ \A t \in Shards : \A n \in SnapIds : t # s \/ n # k =>
             /\ snapFile'[t][n] = snapFile[t][n] /\ snaps'[t][n] = snaps[t][n]
             /\ Gains(t, n)' = Gains(t, n) /\ Newest(t, n)' = Newest(t, n)
  BY <1>2, <1>4, <1>5 DEF Gains, Newest, SnapFiles, SnapMap
<1>9. snapFile[s][k] = "empty" /\ ~Gains(s, k)
  BY <1>1, <1>2, <1>3 DEF Flight, Gains
<1>10. k > 1 => op[w].kind \in Appends
  <2>1. op[w].kind = "create" => manifest[s].latest = 0
    BY <1>2, <1>3 DEF Flight, BlankMan
  <2> QED BY <1>2, <1>3, <1>4, <2>1 DEF Op, Kinds, Appends
<1>11. Gains(s, k)' => Newest(s, k)' = op[w].id
  <2>1. k > 1 => op[w].snap.events[manifest[s].latest] = op[w].id
    BY <1>3, <1>10 DEF OnceInv, OwnEvent, EndsWithOwn, Unput
  <2> QED BY <1>4, <1>8, <2>1 DEF Gains, Newest
<1>12. op[w] # Idle /\ NotAdded(op[w].id) /\ op[w].id \in 1..issued
  BY <1>3, BusyIsNotIdle DEF OnceInv, OwnEvent, Unwritten
<1>13. AddedIssued'
  <2> SUFFICES ASSUME NEW t \in Shards, NEW n \in SnapIds, Gains(t, n)'
               PROVE  Newest(t, n)' \in 1..issued
    BY <1>5 DEF AddedIssued
  <2> QED BY <1>8, <1>11, <1>12 DEF OnceInv, AddedIssued
<1>14. AddedOnce'
  <2> SUFFICES ASSUME NEW t \in Shards, NEW u \in Shards, NEW n \in SnapIds, NEW m \in SnapIds,
                      Gains(t, n)', Gains(u, m)', Newest(t, n)' = Newest(u, m)'
               PROVE  t = u /\ n = m
    BY DEF AddedOnce
  <2>1. CASE (t # s \/ n # k) /\ (u # s \/ m # k)
    BY <1>8, <2>1 DEF OnceInv, AddedOnce
  <2>2. CASE (t # s \/ n # k) /\ u = s /\ m = k
    BY <1>8, <1>11, <1>12, <2>2 DEF NotAdded
  <2>3. CASE t = s /\ n = k /\ (u # s \/ m # k)
    BY <1>8, <1>11, <1>12, <2>3 DEF NotAdded
  <2> QED BY <2>1, <2>2, <2>3
<1>15. OwnIds'
  BY <1>7, <1>12 DEF OnceInv, OwnIds
<1>16. ASSUME NEW v \in Writers PROVE OwnEvent(v)'
  <2>1. CASE v = w
    BY <1>5, <1>7, <1>12, <2>1 DEF OwnEvent, EndsWithOwn, Unwritten, Unput
  <2>2. CASE v # w
    <3>1. op'[v] = op[v] /\ OwnEvent(v)
      BY <1>7, <2>2 DEF OnceInv
    <3>2. ASSUME op[v].pc \in Unwritten PROVE NotAdded(op[v].id)'
      <4>1. op[v] # Idle /\ NotAdded(op[v].id)
        BY <3>1, <3>2, IdleOnce DEF OwnEvent
      <4>2. op[v].id # op[w].id
        BY <1>12, <2>2, <4>1 DEF OnceInv, OwnIds
      <4> SUFFICES ASSUME NEW t \in Shards, NEW n \in SnapIds, Gains(t, n)'
                   PROVE  Newest(t, n)' # op[v].id
        BY <3>1 DEF NotAdded
      <4>3. CASE t = s /\ n = k
        BY <1>11, <4>2, <4>3
      <4>4. CASE t # s \/ n # k
        BY <1>8, <4>1, <4>4 DEF NotAdded
      <4> QED BY <4>3, <4>4
    <3> QED BY <1>5, <3>1, <3>2 DEF OwnEvent
  <2> QED BY <2>1, <2>2
<1>17. Threaded'
  <2> SUFFICES ASSUME NEW t \in Shards, NEW n \in SnapIds, snapFile'[t][n] = "whole",
                      NEW i \in 1..n - 1
               PROVE  snaps'[t][n].events[i] = snaps'[t][i + 1].events[i]
    BY DEF Threaded
  <2>1. n \in Nat /\ i \in Nat /\ i + 1 \in SnapIds /\ i + 1 <= n
    BY StoreBounds DEF SnapIds
  <2>2. CASE t # s
    BY <1>8, <2>1, <2>2 DEF OnceInv, Threaded
  <2>3. CASE t = s /\ n # k
    <3>1. snapFile[s][n] = "whole" /\ snaps'[s][n] = snaps[s][n]
      BY <1>8, <2>3
    <3>2. n < k
      <4>1. n > k => snapFile[s][n] = "absent"
        BY <1>2, <1>4 DEF ShardInv, Chain
      <4> QED BY <1>4, <2>1, <2>3, <3>1, <4>1
    <3>3. i + 1 # k
      BY <1>4, <2>1, <3>2
    <3> QED BY <1>8, <2>1, <2>3, <3>1, <3>3 DEF OnceInv, Threaded
  <2>4. CASE t = s /\ n = k
    <3>1. CASE i = k - 1
      BY <1>4, <2>4, <3>1
    <3>2. CASE i # k - 1
      <4>1. i \in 1..manifest[s].latest - 1 /\ manifest[s].latest \in SnapIds /\ k > 1
            /\ manifest[s].latest \in 1..manifest[s].latest /\ i + 1 # k
        BY <1>4, <2>1, <2>4, <3>2, StoreBounds DEF SnapIds
      <4>2. (manifest[s].latest + 1) - 1 = manifest[s].latest
            /\ (manifest[s].latest + 1) - 2 = manifest[s].latest - 1
        BY <1>4
      <4>3. SubSeq(op[w].snap.events, 1, manifest[s].latest - 1) = snaps[s][manifest[s].latest].events
        BY <1>3, <1>4, <4>1, <4>2 DEF Extends
      <4>4. op[w].snap.events \in Seq(Nat) /\ Len(op[w].snap.events) = manifest[s].latest
        BY <1>2, <1>3, <4>2 DEF Extends, Op, Snapshot
      <4>5. SubSeq(op[w].snap.events, 1, manifest[s].latest - 1)[i] = op[w].snap.events[i]
        BY <1>4, <4>1, <4>4
      <4>6. snapFile[s][manifest[s].latest] = "whole"
        BY <1>2, <4>1 DEF ShardInv, Chain
      <4>7. snaps[s][manifest[s].latest].events[i] = snaps[s][i + 1].events[i]
        BY <4>1, <4>6 DEF OnceInv, Threaded
      <4>8. snaps'[s][i + 1] = snaps[s][i + 1]
        BY <1>8, <2>1, <4>1
      <4> QED BY <1>8, <2>4, <4>3, <4>5, <4>7, <4>8
    <3> QED BY <3>1, <3>2
  <2> QED BY <2>2, <2>3, <2>4
<1> QED BY <1>13, <1>14, <1>15, <1>16, <1>17 DEF OnceInv

\* The operator lists or deletes an orphan; the other versions stay.
LEMMA OperatorOnce ==
  ASSUME PastInv, OnceInv, Operator
  PROVE  OnceInv'
<1>1. op' = op /\ issued' = issued
  BY DEF Operator, RecoverAdopt, RecoverDelete
<1>2. ASSUME UNCHANGED <<snaps, snapFile>> PROVE OnceInv'
  BY <1>1, <1>2 DEF OnceInv, Threaded, AddedOnce, AddedIssued, OwnIds, OwnEvent, NotAdded, Gains, Newest
<1>3. ASSUME NEW s \in Shards, RecoverDelete(s) PROVE OnceInv'
  <2>1. PICK k : k = manifest[s].latest + 1
    OBVIOUS
  <2>2. /\ k \in SnapIds /\ k \in Nat
        /\ snapFile' = [snapFile EXCEPT ![s][k] = "absent"]
        /\ snaps' = [snaps EXCEPT ![s][k] = BlankSnap]
    <3>1. manifest[s].latest \in Nat /\ manifest[s].latest < MaxSnap
      BY <1>3, Types DEF PastInv, RecoverDelete, Orphan
    <3> QED BY <1>3, <2>1, <3>1, StoreBounds DEF RecoverDelete, SnapIds
  <2>3. /\ snapFile'[s][k] = "absent"
        /\ \A t \in Shards : \A n \in SnapIds : t # s \/ n # k =>
               /\ snapFile'[t][n] = snapFile[t][n] /\ snaps'[t][n] = snaps[t][n]
               /\ Gains(t, n)' = Gains(t, n) /\ Newest(t, n)' = Newest(t, n)
    BY <2>2 DEF PastInv, TypeInv, TypeOK, Gains, Newest
  <2>4. ~Gains(s, k)'
    BY <2>3 DEF Gains
  <2>5. AddedOnce' /\ AddedIssued'
    BY <1>1, <2>3, <2>4 DEF OnceInv, AddedOnce, AddedIssued
  <2>6. \A e : NotAdded(e) => NotAdded(e)'
    BY <2>3, <2>4 DEF NotAdded
  <2>7. OwnIds' /\ (\A w \in Writers : OwnEvent(w))'
    BY <1>1, <2>6 DEF OnceInv, OwnIds, OwnEvent
  <2>8. Threaded'
    <3> SUFFICES ASSUME NEW t \in Shards, NEW n \in SnapIds, snapFile'[t][n] = "whole",
                        NEW i \in 1..n - 1
                 PROVE  snaps'[t][n].events[i] = snaps'[t][i + 1].events[i]
      BY DEF Threaded
    <3>1. n \in Nat /\ i \in Nat /\ i + 1 \in SnapIds /\ i + 1 <= n /\ (t # s \/ n # k)
      BY <2>3, StoreBounds DEF SnapIds
    <3>2. snapFile[t][n] = "whole" /\ snaps'[t][n] = snaps[t][n]
      BY <2>3, <3>1
    <3>3. t # s \/ i + 1 # k
      <4> SUFFICES ASSUME t = s PROVE n < k
        BY <2>2, <3>1
      <4>1. n > k => snapFile[s][n] = "absent"
        BY <2>1 DEF PastInv, ShardInv, Chain
      <4> QED BY <2>2, <3>1, <3>2, <4>1
    <3> QED BY <2>3, <3>1, <3>2, <3>3 DEF OnceInv, Threaded
  <2> QED BY <2>5, <2>7, <2>8 DEF OnceInv
<1> QED BY <1>2, <1>3 DEF Operator, RecoverAdopt

LEMMA InitOnce == Init => OnceInv
<1> SUFFICES ASSUME Init PROVE OnceInv
  OBVIOUS
<1>1. \A s \in Shards : \A n \in SnapIds : snapFile[s][n] # "whole"
  BY DEF Init
<1>2. Threaded /\ AddedOnce /\ AddedIssued
  BY <1>1 DEF Threaded, AddedOnce, AddedIssued, Gains
<1>3. \A w \in Writers : op[w] = Idle
  BY DEF Init
<1>4. OwnIds /\ \A w \in Writers : OwnEvent(w)
  BY <1>3, IdleOnce DEF OwnIds, OwnEvent
<1> QED BY <1>2, <1>4 DEF OnceInv

LEMMA NextOnce ==
  ASSUME PastInv, OnceInv, [Next \/ Operator]_vars
  PROVE  OnceInv'
<1>1. ASSUME UNCHANGED <<snaps, snapFile, op, issued>> PROVE OnceInv'
  BY <1>1 DEF OnceInv, Threaded, AddedOnce, AddedIssued, OwnIds, OwnEvent, NotAdded, Gains, Newest
<1>2. Query \/ Finished \/ UNCHANGED vars => UNCHANGED <<snaps, snapFile, op, issued>>
  BY DEF Query, AskLoadDirectory, AskFinish, Finished, vars, disk
<1>3. ASSUME NEW w \in Writers, WriterStep(w) PROVE OnceInv'
  <2>1. ASSUME NEW k \in Kinds, NEW s \in Shards, Begin(w, k, s) PROVE OnceInv'
    BY <2>1, BeginOnce DEF PastInv
  <2> QED BY <1>3, <2>1, QuietOnce, ReadsOnce, SnapshotPutOnce DEF WriterStep
<1> QED BY <1>1, <1>2, <1>3, OperatorOnce DEF Next
-----------------------------------------------------------------------------
(* The mapping: what a step does to the abstract logs.                     *)

\* The abstract variables of a disciplined store.
StatusMap == [s \in Shards |-> IF Disciplined THEN StatusOf(s) ELSE "none"]
LogMap == [s \in Shards |-> IF Disciplined THEN LogOf(s) ELSE << >>]
PromisedMap == IF Disciplined THEN acked ELSE {}

LEMMA MapVars ==
  /\ Promise!vars = <<StatusMap, LogMap, PromisedMap>>
  /\ Promise!vars' = <<StatusMap', LogMap', PromisedMap'>>
BY DEF Promise!vars, StatusMap, LogMap, PromisedMap

LEMMA MapStays ==
  ASSUME discipline' = discipline, acked' = acked \/ ~Disciplined,
         Disciplined => \A s \in Shards : StatusOf(s)' = StatusOf(s) /\ LogOf(s)' = LogOf(s)
  PROVE  UNCHANGED Promise!vars
<1>1. StatusMap' = StatusMap
  BY DEF StatusMap, Disciplined
<1>2. LogMap' = LogMap
  BY DEF LogMap, Disciplined
<1>3. PromisedMap' = PromisedMap
  BY DEF PromisedMap, Disciplined
<1> QED BY <1>1, <1>2, <1>3, MapVars

\* The events of version n are the older version's and the newest.
LEMMA SplitLast ==
  ASSUME NEW n \in Nat, n > 1, NEW q \in Seq(Nat), Len(q) = n - 1, NEW old, SubSeq(q, 1, n - 2) = old
  PROVE  q = Append(old, q[n - 1])
<1>1. old \in Seq(Nat) /\ Len(old) = n - 2 /\ \A i \in 1..n - 2 : old[i] = q[i]
  <2>1. n - 2 \in Nat /\ n - 2 <= Len(q)
    OBVIOUS
  <2>2. \A k \in Nat : k <= Len(q) => /\ SubSeq(q, 1, k) \in Seq(Nat) /\ Len(SubSeq(q, 1, k)) = k
                                    /\ \A i \in 1..k : SubSeq(q, 1, k)[i] = q[i]
    OBVIOUS
  <2> QED BY <2>1, <2>2
<1>2. q[n - 1] \in Nat
  OBVIOUS
<1>3. Append(old, q[n - 1]) \in Seq(Nat) /\ Len(Append(old, q[n - 1])) = n - 1
  BY <1>1, <1>2
<1>4. \A i \in 1..n - 1 : q[i] = Append(old, q[n - 1])[i]
  <2> SUFFICES ASSUME NEW i \in 1..n - 1 PROVE q[i] = Append(old, q[n - 1])[i]
    OBVIOUS
  <2>1. CASE i = n - 1
    BY <1>1, <1>2, <2>1
  <2>2. CASE i # n - 1
    <3>1. i \in 1..n - 2 /\ i \in 1..Len(old)
      BY <1>1, <2>2
    <3>2. Append(old, q[n - 1])[i] = old[i]
      BY <1>1, <1>2, <3>1
    <3> QED BY <1>1, <3>1, <3>2
  <2> QED BY <2>1, <2>2
<1> QED BY <1>3, <1>4

\* Every event of a log is the newest of some listed version.
LEMMA LogEvents ==
  ASSUME PastInv, OnceInv, NEW t \in Shards, manifest[t].latest # 0
  PROVE  /\ LogOf(t) \in Seq(Nat) /\ Len(LogOf(t)) = manifest[t].latest - 1
         /\ manifest[t].latest \in SnapIds
         /\ \A i \in 1..Len(LogOf(t)) :
               /\ i + 1 \in SnapIds /\ i + 1 <= manifest[t].latest
               /\ Gains(t, i + 1) /\ LogOf(t)[i] = Newest(t, i + 1)
<1>1. PICK m : m = manifest[t].latest
  OBVIOUS
<1>2. m \in Nat /\ m \in SnapIds /\ m \in 1..m
  <2>1. m \in 0..MaxSnap
    BY <1>1, Types DEF PastInv, Manifest
  <2> QED BY <1>1, <2>1, StoreBounds DEF SnapIds
<1>3. Chain(manifest[t], snapFile[t], snaps[t])
  BY DEF PastInv, ShardInv
<1>4. snapFile[t][m] = "whole" /\ LogOf(t) = snaps[t][m].events
  BY <1>1, <1>2, <1>3 DEF Chain, LogOf
<1>5. LogOf(t) \in Seq(Nat) /\ Len(LogOf(t)) = m - 1
  BY <1>2, <1>3, <1>4, Types DEF PastInv, Chain, Extends, Snapshot
<1>6. ASSUME NEW i \in 1..m - 1
      PROVE  /\ i + 1 \in SnapIds /\ i + 1 <= m
             /\ Gains(t, i + 1) /\ LogOf(t)[i] = Newest(t, i + 1)
  <2>1. i + 1 \in 1..m /\ i + 1 \in SnapIds /\ i + 1 <= m /\ i + 1 > 1 /\ (i + 1) - 1 = i
    BY <1>2, StoreBounds DEF SnapIds
  <2>2. Gains(t, i + 1)
    BY <1>1, <1>3, <2>1 DEF Chain, Gains
  <2>3. snaps[t][m].events[i] = snaps[t][i + 1].events[i]
    BY <1>2, <1>4 DEF OnceInv, Threaded
  <2> QED BY <1>4, <2>1, <2>2, <2>3 DEF Newest
<1> QED BY <1>1, <1>2, <1>5, <1>6

\* A shard's manifest lists one version more, the one that lies behind it.
LEMMA GrowMaps ==
  ASSUME PastInv, OnceInv, Disciplined, discipline' = discipline, NEW s \in Shards,
         NEW n, n = manifest[s].latest + 1, n \in SnapIds, snapFile[s][n] = "whole",
         manifest[s].status = "active", manifest'[s].status = "active", manifest'[s].latest = n,
         \A t \in Shards \ {s} : manifest'[t] = manifest[t],
         snaps' = snaps, acked' = acked
  PROVE  Promise!Next
<1>1. Disciplined' /\ PromisedMap' = PromisedMap
  BY DEF Disciplined, PromisedMap
<1>2. manifest[s].latest \in Nat /\ n \in Nat /\ n # 0
  BY Types DEF PastInv
<1>3. Extends(snaps[s][n], n, snaps[s]) /\ snaps[s][n].events \in Seq(Nat)
  <2>1. Chain(manifest[s], snapFile[s], snaps[s])
    BY DEF PastInv, ShardInv
  <2>2. snaps[s][n] \in Snapshot
    BY Types DEF PastInv
  <2> QED BY <2>1, <2>2 DEF Chain, Snapshot
<1>4. /\ StatusOf(s)' = "active" /\ LogOf(s)' = snaps[s][n].events
      /\ \A t \in Shards \ {s} : StatusOf(t)' = StatusOf(t) /\ LogOf(t)' = LogOf(t)
  BY <1>2 DEF StatusOf, LogOf
<1>5. CASE n = 1
  <2>1. StatusOf(s) = "none" /\ LogOf(s) = << >>
    BY <1>2, <1>5 DEF StatusOf, LogOf
  <2>2. snaps[s][n].events = << >>
    BY <1>3, <1>5 DEF Extends
  <2>3. StatusMap[s] = "none" /\ StatusMap' = [StatusMap EXCEPT ![s] = "active"]
    BY <1>1, <1>4, <2>1 DEF StatusMap
  <2>4. LogMap' = LogMap
    BY <1>1, <1>4, <2>1, <2>2 DEF LogMap
  <2>5. Promise!Create(s)
    BY <1>1, <2>3, <2>4 DEF Promise!Create, StatusMap, LogMap, PromisedMap
  <2> QED BY <2>5 DEF Promise!Next
<1>6. CASE n # 1
  <2>1. PICK e : e = Newest(s, n)
    OBVIOUS
  <2>2. n > 1 /\ Gains(s, n) /\ manifest[s].latest # 0 /\ n - 1 = manifest[s].latest
    BY <1>2, <1>6 DEF Gains
  <2>3. e \in 1..MaxOps
    <3>1. e \in 1..issued /\ issued \in 0..MaxOps
      BY <2>1, <2>2 DEF OnceInv, AddedIssued, PastInv, TypeInv, TypeOK
    <3> QED BY <3>1, StoreBounds
  <2>4. StatusOf(s) = "active" /\ LogOf(s) = snaps[s][n - 1].events
    BY <2>2 DEF StatusOf, LogOf
  <2>5. LogOf(s)' = Append(LogOf(s), e)
    <3>1. Len(snaps[s][n].events) = n - 1 /\ SubSeq(snaps[s][n].events, 1, n - 2) = LogOf(s)
      BY <1>3, <2>2, <2>4 DEF Extends
    <3>2. snaps[s][n].events = Append(LogOf(s), snaps[s][n].events[n - 1])
      BY <1>2, <1>3, <2>2, <3>1, SplitLast
    <3> QED BY <1>4, <2>1, <3>2 DEF Newest
  <2>6. ASSUME NEW t \in Shards, NEW i \in 1..Len(LogOf(t)) PROVE LogOf(t)[i] # e
    <3>1. manifest[t].latest # 0
      BY <2>6 DEF LogOf
    <3>2. /\ i + 1 \in SnapIds /\ i + 1 <= manifest[t].latest
          /\ Gains(t, i + 1) /\ LogOf(t)[i] = Newest(t, i + 1)
      BY <3>1, LogEvents
    <3>3. t # s \/ i + 1 # n
      BY <1>2, <3>2
    <3> QED BY <2>1, <2>2, <3>2, <3>3 DEF OnceInv, AddedOnce
  <2>7. StatusMap[s] = "active" /\ StatusMap' = StatusMap
    BY <1>1, <1>4, <2>4 DEF StatusMap
  <2>8. LogMap' = [LogMap EXCEPT ![s] = Append(LogMap[s], e)]
    BY <1>1, <1>4, <2>5 DEF LogMap
  <2>9. \A t \in Shards : ~Promise!Holds(t, e)
    BY <2>6 DEF Promise!Holds
  <2>10. Promise!Append1(s, e)
    BY <1>1, <2>7, <2>8, <2>9 DEF Promise!Append1, StatusMap, LogMap, PromisedMap
  <2> QED BY <2>3, <2>10 DEF Promise!Next
<1> QED BY <1>5, <1>6

LEMMA FreezeMaps ==
  ASSUME PastInv, Disciplined, discipline' = discipline, NEW s \in Shards,
         manifest'[s].status = "frozen", manifest'[s].latest = manifest[s].latest,
         \A t \in Shards \ {s} : manifest'[t] = manifest[t],
         snaps' = snaps, acked' = acked
  PROVE  Promise!Next \/ UNCHANGED Promise!vars
<1>1. Disciplined' /\ PromisedMap' = PromisedMap
  BY DEF Disciplined, PromisedMap
<1>2. /\ \A t \in Shards : LogOf(t)' = LogOf(t)
      /\ \A t \in Shards \ {s} : StatusOf(t)' = StatusOf(t)
  BY DEF LogOf, StatusOf
<1>3. manifest[s].status \in {"active", "frozen"}
  BY Types DEF PastInv, Manifest
<1>4. CASE manifest[s].latest = 0 \/ manifest[s].status = "frozen"
  <2>1. StatusOf(s)' = StatusOf(s)
    BY <1>4 DEF StatusOf
  <2> QED BY <1>2, <2>1, MapStays
<1>5. CASE manifest[s].latest # 0 /\ manifest[s].status = "active"
  <2>1. StatusOf(s) = "active" /\ StatusOf(s)' = "frozen"
    BY <1>5 DEF StatusOf
  <2>2. StatusMap[s] = "active" /\ StatusMap' = [StatusMap EXCEPT ![s] = "frozen"]
    BY <1>1, <1>2, <2>1 DEF StatusMap
  <2>3. LogMap' = LogMap
    BY <1>1, <1>2 DEF LogMap
  <2>4. Promise!Freeze(s)
    BY <1>1, <2>2, <2>3 DEF Promise!Freeze, StatusMap, LogMap, PromisedMap
  <2> QED BY <2>4 DEF Promise!Next
<1> QED BY <1>3, <1>4, <1>5

LEMMA ManifestPutMaps ==
  ASSUME PastInv, OnceInv, Disciplined, discipline' = discipline,
         NEW w \in Writers, ManifestPut(w)
  PROVE  Promise!Next \/ UNCHANGED Promise!vars
<1>1. PICK s \in Shards : s = op[w].shard
  BY Known
<1>2. /\ op[w].pc = "putMan" /\ manifest' = [manifest EXCEPT ![s] = NewManifest(op[w])]
      /\ snaps' = snaps /\ acked' = acked
  BY <1>1 DEF ManifestPut, At
<1>3. /\ manifest'[s] = NewManifest(op[w]) /\ \A t \in Shards \ {s} : manifest'[t] = manifest[t]
  BY <1>2 DEF PastInv, TypeInv, TypeOK
<1>4. /\ op[w] \in Op /\ manifest[s] \in Manifest /\ Numbered(op[w])
      /\ Flight(op[w], manifest[s], snapFile[s], snaps[s])
  BY <1>1, Known DEF InFlight
<1>5. op[w].man = manifest[s]
  BY <1>2, <1>4 DEF Flight, Saving
<1>6. CASE op[w].kind = "freeze"
  <2>1. manifest'[s].status = "frozen" /\ manifest'[s].latest = manifest[s].latest
    BY <1>3, <1>4, <1>5, <1>6 DEF NewManifest, Manifest
  <2> QED BY <1>2, <1>3, <2>1, FreezeMaps
<1>7. CASE op[w].kind # "freeze"
  <2>1. op[w].new = manifest[s].latest + 1 /\ op[w].new \in SnapIds
    BY <1>2, <1>4, <1>5, <1>7, NewNumber DEF Past, Steps
  <2>2. manifest[s].status = "active" /\ snapFile[s][op[w].new] = "whole"
    BY <1>2, <1>4, <1>7 DEF Flight, Saving
  <2>3. manifest'[s].latest = op[w].new /\ manifest'[s].status = "active"
    BY <1>3, <1>4, <1>5, <1>7, <2>2 DEF NewManifest, Manifest
  <2> QED BY <1>2, <1>3, <2>1, <2>2, <2>3, GrowMaps
<1> QED BY <1>6, <1>7

LEMMA AdoptMaps ==
  ASSUME PastInv, OnceInv, Disciplined, discipline' = discipline,
         NEW s \in Shards, RecoverAdopt(s)
  PROVE  Promise!Next
<1>1. PICK n : n = manifest[s].latest + 1
  OBVIOUS
<1>2. /\ manifest \in [Shards -> Manifest] /\ manifest[s] \in Manifest /\ manifest[s].latest \in Nat
  BY Types DEF PastInv
<1>3. /\ manifest[s].status = "active" /\ manifest[s].latest < MaxSnap /\ snapFile[s][n] = "whole"
      /\ manifest' = [manifest EXCEPT ![s].latest = n, ![s].ids = Append(@, n)]
      /\ snaps' = snaps /\ acked' = acked
  BY <1>1 DEF RecoverAdopt, Orphan
<1>4. n \in SnapIds
  BY <1>1, <1>2, <1>3, StoreBounds DEF SnapIds
<1>5. /\ manifest'[s].latest = n /\ manifest'[s].status = "active"
      /\ \A t \in Shards \ {s} : manifest'[t] = manifest[t]
  BY <1>2, <1>3 DEF Manifest
<1> QED BY <1>1, <1>3, <1>4, <1>5, GrowMaps

LEMMA ReportMaps ==
  ASSUME PastInv, OnceInv, Disciplined, discipline' = discipline,
         NEW w \in Writers, ChronicleAppend(w)
  PROVE  Promise!Next \/ UNCHANGED Promise!vars
<1>1. PICK s \in Shards, e \in 0..MaxOps : s = op[w].shard /\ e = op[w].id
  BY Known DEF Op
<1>2. /\ op[w].pc = "log" /\ UNCHANGED <<manifest, snaps>>
      /\ acked' = IF op[w].kind \in Appends THEN acked \cup {<<s, e>>} ELSE acked
  BY <1>1 DEF ChronicleAppend, At
<1>3. \A t \in Shards : StatusOf(t)' = StatusOf(t) /\ LogOf(t)' = LogOf(t)
  BY <1>2 DEF StatusOf, LogOf
<1>4. CASE op[w].kind \notin Appends
  BY <1>2, <1>3, <1>4, MapStays
<1>5. CASE op[w].kind \in Appends
  <2>1. /\ op[w] \in Op /\ Numbered(op[w])
        /\ Flight(op[w], manifest[s], snapFile[s], snaps[s])
    BY <1>1, Known DEF InFlight
  <2>2. /\ manifest[s].latest = op[w].new /\ op[w].new \in SnapIds
        /\ Has(snaps[s][manifest[s].latest], e)
    BY <1>1, <1>2, <1>5, <2>1 DEF Flight, Telling, Numbered, Past, Steps, Appends
  <2>3. LogOf(s) = snaps[s][manifest[s].latest].events
    BY <2>2, StoreBounds DEF LogOf, SnapIds
  <2>4. Promise!Holds(s, e)
    BY <2>2, <2>3 DEF Promise!Holds, Has
  <2>5. e \in 1..MaxOps
    <3>1. e \in 1..issued /\ issued \in 0..MaxOps
      BY <1>1, <1>2, BusyIsNotIdle DEF OnceInv, OwnEvent, PastInv, TypeInv, TypeOK
    <3> QED BY <3>1, StoreBounds
  <2>6. Disciplined' /\ StatusMap' = StatusMap /\ LogMap' = LogMap
    BY <1>3 DEF Disciplined, StatusMap, LogMap
  <2>7. PromisedMap' = PromisedMap \cup {<<s, e>>}
    BY <1>2, <1>5, <2>6 DEF PromisedMap
  <2>8. Promise!Report(s, e)
    BY <2>4, <2>6, <2>7 DEF Promise!Report, StatusMap, LogMap, PromisedMap
  <2> QED BY <2>5, <2>8 DEF Promise!Next
<1> QED BY <1>4, <1>5
\* Every other step leaves the logs alone, the ones that touch an orphan included.
LEMMA QuietMaps ==
  ASSUME PastInv, discipline' = discipline, UNCHANGED <<manifest, acked>>,
         \A s \in Shards : manifest[s].latest # 0 =>
            snaps'[s][manifest[s].latest] = snaps[s][manifest[s].latest]
  PROVE  UNCHANGED Promise!vars
<1>1. \A s \in Shards : StatusOf(s)' = StatusOf(s) /\ LogOf(s)' = LogOf(s)
  BY DEF StatusOf, LogOf
<1> QED BY <1>1, MapStays

LEMMA OrphanMaps ==
  ASSUME PastInv, discipline' = discipline, UNCHANGED <<manifest, acked>>,
         NEW s \in Shards, NEW k, k = manifest[s].latest + 1, NEW c,
         snaps' = [snaps EXCEPT ![s][k] = c]
  PROVE  UNCHANGED Promise!vars
<1>1. snaps \in [Shards -> [SnapIds -> Snapshot]] /\ manifest[s].latest \in Nat
  BY Types DEF PastInv
<1>2. manifest[s].latest # k
  BY <1>1
<1>3. snaps'[s][manifest[s].latest] = snaps[s][manifest[s].latest]
      /\ \A t \in Shards \ {s} : snaps'[t] = snaps[t]
  BY <1>1, <1>2
<1> QED BY <1>3, QuietMaps

LEMMA StepMaps ==
  ASSUME PastInv, OnceInv, Disciplined, discipline' = discipline, [Next \/ Operator]_vars
  PROVE  Promise!Next \/ UNCHANGED Promise!vars
<1>1. ASSUME UNCHANGED <<manifest, acked, snaps>> PROVE UNCHANGED Promise!vars
  BY <1>1, QuietMaps
<1>2. Query \/ Finished \/ UNCHANGED vars => UNCHANGED <<manifest, acked, snaps>>
  BY DEF Query, AskLoadDirectory, AskFinish, Finished, vars, disk
<1>3. ASSUME NEW w \in Writers, SnapshotPut(w) PROVE UNCHANGED Promise!vars
  <2>1. PICK s \in Shards, k \in 0..MaxSnap : s = op[w].shard /\ k = op[w].new
    BY Known DEF Op
  <2>2. /\ op[w].pc = "putSnap" /\ snaps' = [snaps EXCEPT ![s][k] = op[w].snap]
        /\ UNCHANGED <<manifest, acked>>
    BY <1>3, <2>1 DEF SnapshotPut, At
  <2>3. /\ op[w].kind # "freeze" /\ op[w].man = manifest[s] /\ op[w] \in Op /\ Numbered(op[w])
        /\ manifest[s] \in Manifest
    BY <2>1, <2>2, Known DEF InFlight, Flight, Adding
  <2>4. k = manifest[s].latest + 1
    BY <2>1, <2>2, <2>3, NewNumber DEF Past, Steps
  <2> QED BY <2>2, <2>4, OrphanMaps
<1>4. ASSUME NEW s \in Shards, RecoverDelete(s) PROVE UNCHANGED Promise!vars
  BY <1>4, OrphanMaps DEF RecoverDelete
<1>5. ASSUME NEW w \in Writers, WriterStep(w)
      PROVE  \/ SnapshotPut(w) \/ ManifestPut(w) \/ ChronicleAppend(w)
             \/ UNCHANGED <<manifest, acked, snaps>>
  BY <1>5 DEF WriterStep, Begin, DryRun, CreateLoadManifest, AppendLoadManifest, AppendLoadPrevious,
     AppendCheckOrphan, FreezeLoadManifest, SnapshotRefuse, SnapshotOpen, ManifestOpen,
     AppendLoadEntry, DirectoryLoad, DirectoryOpen, DirectoryPut, Crash, Stop, disk
<1> QED BY <1>1, <1>2, <1>3, <1>4, <1>5, ManifestPutMaps, ReportMaps, AdoptMaps DEF Next, Operator

-----------------------------------------------------------------------------
OnceStore == StoreInv /\ (Disciplined => OnceInv)

LEMMA InitOnceStore == MCInit => OnceStore
BY InitStore, InitOnce DEF MCInit, OnceStore

LEMMA NextOnceStore == OnceStore /\ [MCNext]_allVars => OnceStore'
<1> SUFFICES ASSUME OnceStore, [MCNext]_allVars PROVE OnceStore'
  OBVIOUS
<1>1. [Next \/ Operator]_vars /\ discipline' = discipline
  BY DEF MCNext, allVars
<1>2. StoreInv'
  BY NextStore DEF OnceStore
<1>3. Disciplined' => OnceInv'
  BY <1>1, NextOnce DEF OnceStore, StoreInv, Disciplined
<1> QED BY <1>2, <1>3 DEF OnceStore

LEMMA InitMaps == MCInit => Promise!Init
<1> SUFFICES ASSUME MCInit PROVE Promise!Init
  OBVIOUS
<1>1. \A s \in Shards : StatusOf(s) = "none" /\ LogOf(s) = << >>
  BY DEF MCInit, Init, StatusOf, LogOf, BlankMan
<1>2. acked = {}
  BY DEF MCInit, Init
<1> QED BY <1>1, <1>2 DEF Promise!Init

LEMMA NextMaps == OnceStore /\ [MCNext]_allVars => [Promise!Next]_Promise!vars
<1> SUFFICES ASSUME OnceStore, [MCNext]_allVars PROVE Promise!Next \/ UNCHANGED Promise!vars
  OBVIOUS
<1>1. [Next \/ Operator]_vars /\ discipline' = discipline
  BY DEF MCNext, allVars
<1>2. CASE Disciplined
  BY <1>1, <1>2, StepMaps DEF OnceStore, StoreInv
<1>3. CASE ~Disciplined
  BY <1>1, <1>3, MapStays
<1> QED BY <1>2, <1>3

\* With one command at a time per shard the files, with their crashes, orphans,
\* repairs and commands on other shards, behave as the append-only logs of
\* ShardLog: an append takes effect, once and for one event no log has yet,
\* when the manifest's bytes are written, and success is reported only for an
\* event the log holds (appendEventAndSnapshot in commit.ts).
THEOREM StoreRefinesLog == MCSpec => ImplementsShardLog
<1> QED BY InitOnceStore, NextOnceStore, InitMaps, NextMaps, PTL
        DEF MCSpec, ImplementsShardLog, Promise!Spec

-----------------------------------------------------------------------------
(* One command at a time over the whole store.  What its command leaves in *)
(* the directory (Converge) holds after any crash.  What the whole store   *)
(* looks like at every step of the command (Scene) holds until the first.  *)

OnlyOne == \A v, w \in Writers : op[v] # Idle /\ op[w] # Idle => v = w

\* The entry of a shard that is up to date.
Shown(s) == [snap |-> manifest[s].latest, status |-> manifest[s].status]

Agrees(o, d) ==
  IF o.kind = "freeze" THEN d[o.shard].status = "frozen" \/ d[o.shard].snap = 0
  ELSE d[o.shard] = Shown(o.shard)
Converge(o) ==
  /\ o.pc \in Telling => manifest[o.shard].status = IF o.kind = "freeze" THEN "frozen" ELSE o.man.status
  /\ o.pc \in {"openDir", "putDir"} => Agrees(o, o.dir)
  /\ o.pc = "log" => Agrees(o, directory)

\* A command that has written nothing; one whose new version is not listed yet.
Calm == {"idle", "dry", "man", "prev", "orphan", "refuse", "openSnap"}
Ahead(o) == o.kind # "freeze" /\ o.pc \in {"putSnap", "openMan", "putMan"}
Listed(s, o) == manifest[s].latest + IF Ahead(o) THEN 1 ELSE 0
Lines(s, o) == manifest[s].latest - IF Adds(o) THEN 1 ELSE 0
Line(s, n) == \E i \in 1..Len(chronicle) : chronicle[i].shard = s /\ chronicle[i].new = n
Indexing == Telling \ {"log"}

\* Shard s when no command was ever killed and o is the one that is at it.
Tidy(s, o) ==
  /\ \A n \in SnapIds : Exists(s, n) <=> n <= Listed(s, o)
  /\ manFile[s] = IF o.pc = "putMan" THEN "empty" ELSE IF manifest[s].latest = 0 THEN "absent" ELSE "whole"
  /\ \A n \in 1..Lines(s, o) : Line(s, n)
  /\ o.pc \in Indexing /\ o.kind = "freeze" => directory[s].snap = manifest[s].latest
  /\ o.pc \notin Indexing => directory[s] = Shown(s)
  /\ o.kind = "freeze" /\ o.pc \in Saving \cup Telling => manifest[s].latest # 0

Scene(o) ==
  /\ Tidy(o.shard, o)
  /\ \A s \in Shards \ {o.shard} : Tidy(s, Idle)
  /\ dirFile = IF o.pc = "putDir" THEN "empty" ELSE "whole"
  /\ o.pc \in {"openDir", "putDir"} =>
        /\ o.dir[o.shard] = Shown(o.shard)
        /\ \A s \in Shards \ {o.shard} : o.dir[s] = directory[s]

Unbroken == /\ AllIdle => Scene(Idle)
            /\ \A w \in Writers : op[w] # Idle => Scene(op[w])
AloneInv == /\ OnlyOne
            /\ \A w \in Writers : Converge(op[w])
            /\ crashes = 0 => Unbroken
AloneStore == discipline = "alone" => AloneInv

LEMMA IdleCalm == Idle.pc = "idle" /\ Idle.kind = "freeze" /\ Idle.shard \in Shards /\ Idle.pc \in Calm
BY BlankTypes DEF Idle, Op, Calm

LEMMA CalmTidy ==
  ASSUME NEW s \in Shards, NEW o, o.pc \in Calm
  PROVE  Tidy(s, o) <=> Tidy(s, Idle)
BY IdleCalm DEF Tidy, Listed, Lines, Ahead, Adds, Telling, Saving, Indexing, Calm

LEMMA CalmScene ==
  ASSUME NEW o, o.pc \in Calm, o.shard \in Shards
  PROVE  Scene(o) <=> dirFile = "whole" /\ \A s \in Shards : Tidy(s, Idle)
BY CalmTidy DEF Scene, Calm

\* Frames.
LEMMA TidyStays ==
  ASSUME NEW s \in Shards, NEW o, Tidy(s, o),
         \A n \in SnapIds : snapFile'[s][n] # "absent" <=> snapFile[s][n] # "absent",
         manifest'[s] = manifest[s], manFile'[s] = manFile[s], directory'[s] = directory[s],
         \A n : Line(s, n) => Line(s, n)'
  PROVE  Tidy(s, o)'
BY DEF Tidy, Exists, Listed, Lines, Shown

LEMMA SceneStays == ASSUME UNCHANGED disk, NEW o, Scene(o) PROVE Scene(o)'
<1>1. UNCHANGED <<snaps, snapFile, manifest, manFile, directory, dirFile, chronicle>>
  BY DEF disk
<1>2. \A s \in Shards : \A p : Tidy(s, p)' <=> Tidy(s, p)
  BY <1>1 DEF Tidy, Exists, Listed, Lines, Shown, Line
<1>3. Tidy(o.shard, o)'
  BY <1>1 DEF Scene, Tidy, Exists, Listed, Lines, Shown, Line
<1> QED BY <1>1, <1>2, <1>3 DEF Scene, Shown

LEMMA ConvergeStays == ASSUME UNCHANGED disk, NEW o, Converge(o) PROVE Converge(o)'
BY DEF disk, Converge, Agrees, Shown

\* The one command that runs takes a step, or begins.
LEMMA AloneStep ==
  ASSUME AloneInv, TypeInv, OnlyOne', NEW w \in Writers, NEW p, NEW o, p = op[w],
         op' = [op EXCEPT ![w] = o], crashes' = crashes, o # Idle \/ p # Idle,
         Converge(o)', crashes = 0 /\ Scene(p) => Scene(o)'
  PROVE  AloneInv'
<1>1. op'[w] = o /\ \A v \in Writers \ {w} : op'[v] = op[v]
  BY Types
<1>2. \A v \in Writers \ {w} : op'[v] = Idle
  <2>1. CASE p # Idle
    BY <1>1, <2>1 DEF AloneInv, OnlyOne
  <2>2. CASE o # Idle
    BY <1>1, <2>2 DEF OnlyOne
  <2> QED BY <2>1, <2>2
<1>3. Converge(Idle)'
  BY IdleCalm DEF Converge, Telling
<1>4. \A v \in Writers : Converge(op[v])'
  BY <1>1, <1>2, <1>3
<1>5. ASSUME crashes' = 0 PROVE Scene(o)'
  <2>1. CASE p # Idle
    BY <1>5, <2>1 DEF AloneInv, Unbroken
  <2>2. CASE p = Idle
    <3>1. AllIdle
      BY <1>1, <1>2, <2>2 DEF AllIdle
    <3> QED BY <1>5, <2>2, <3>1 DEF AloneInv, Unbroken
  <2> QED BY <2>1, <2>2
<1>6. ASSUME crashes' = 0 PROVE Unbroken'
  <2>1. AllIdle' => o = Idle
    BY <1>1 DEF AllIdle
  <2>2. \A v \in Writers : op'[v] # Idle => op'[v] = o
    BY <1>1, <1>2
  <2> QED BY <1>5, <1>6, <2>1, <2>2 DEF Unbroken
<1> QED BY <1>4, <1>6 DEF AloneInv

\* A step of a command that has written nothing, or that stops before it has.
LEMMA CalmAlone ==
  ASSUME AloneInv, TypeInv, OnlyOne', NEW w \in Writers, NEW o,
         op' = [op EXCEPT ![w] = o], UNCHANGED <<disk, crashes>>, o # Idle \/ op[w] # Idle,
         op[w].pc \in Calm, o.pc \in Calm, o.shard \in Shards
  PROVE  AloneInv'
<1>1. PICK p : p = op[w]
  OBVIOUS
<1>2. p.shard \in Shards /\ p.pc \in Calm
  BY <1>1, Types
<1>3. Converge(o)'
  BY DEF Converge, Calm, Telling
<1>4. ASSUME Scene(p) PROVE Scene(o)'
  <2>1. Scene(o)
    BY <1>2, <1>4, CalmScene
  <2> QED BY <2>1, SceneStays
<1> QED BY <1>1, <1>3, <1>4, AloneStep

LEMMA StopAlone ==
  ASSUME AloneInv, TypeInv, OnlyOne', NEW w \in Writers, op[w] # Idle, Stop(w), op[w].pc \in Calm
  PROVE  AloneInv'
<1>1. op' = [op EXCEPT ![w] = Idle] /\ UNCHANGED <<disk, crashes>>
  BY DEF Stop, Become
<1> QED BY <1>1, IdleCalm, CalmAlone

LEMMA BeginAlone ==
  ASSUME AloneInv, TypeInv, OnlyOne', NEW w \in Writers, NEW k \in Kinds, NEW s \in Shards, Begin(w, k, s)
  PROVE  AloneInv'
<1>1. PICK o : o = [Idle EXCEPT !.kind = k, !.shard = s, !.id = issued + 1,
                     !.pc = IF k \in {"commit", "freeze"} THEN "dry" ELSE "man"]
  OBVIOUS
<1>2. op' = [op EXCEPT ![w] = o] /\ UNCHANGED <<disk, crashes>> /\ op[w] = Idle
  BY <1>1 DEF Begin
<1>3. o.pc \in {"dry", "man"} /\ o.shard = s
  BY <1>1 DEF Idle
<1>4. o # Idle /\ o.pc \in Calm /\ op[w].pc \in Calm
  BY <1>2, <1>3, IdleCalm DEF Calm
<1> QED BY <1>2, <1>3, <1>4, CalmAlone

\* Reads and checks before the first write.
LEMMA ReadsAlone ==
  ASSUME AloneInv, TypeInv, OnlyOne', NEW w \in Writers,
         \/ DryRun(w) \/ CreateLoadManifest(w) \/ AppendLoadManifest(w) \/ AppendLoadPrevious(w)
         \/ AppendCheckOrphan(w) \/ SnapshotRefuse(w)
  PROVE  AloneInv'
<1>1. PICK p : p = op[w]
  OBVIOUS
<1>2. p \in Op /\ p.shard \in Shards
  BY <1>1, Types
<1>3. p.pc \in Calm \ {"idle"}
  BY <1>1 DEF DryRun, CreateLoadManifest, AppendLoadManifest, AppendLoadPrevious,
              AppendCheckOrphan, SnapshotRefuse, At, Calm
<1>4. op[w] # Idle /\ op[w].pc \in Calm
  BY <1>1, <1>3, IdleCalm
<1>5. ASSUME NEW o, Become(w, o), UNCHANGED disk, o.pc \in Calm, o.shard = p.shard PROVE AloneInv'
  <2>1. op' = [op EXCEPT ![w] = o] /\ UNCHANGED <<disk, crashes>>
    BY <1>5 DEF Become
  <2> QED BY <1>2, <1>4, <1>5, <2>1, CalmAlone
<1>6. \/ Stop(w)
      \/ \E pc \in Calm : Become(w, [p EXCEPT !.pc = pc]) /\ UNCHANGED disk
      \/ \E m, n : Become(w, [p EXCEPT !.pc = "prev", !.man = m, !.new = n]) /\ UNCHANGED disk
      \/ \E n : Become(w, [p EXCEPT !.pc = "refuse", !.new = n]) /\ UNCHANGED disk
      \/ \E c : Become(w, [p EXCEPT !.pc = "orphan", !.snap = c]) /\ UNCHANGED disk
  <2>1. CASE DryRun(w) \/ AppendCheckOrphan(w) \/ SnapshotRefuse(w)
    BY <1>1, <2>1 DEF DryRun, AppendCheckOrphan, SnapshotRefuse, Goto, Calm
  <2>2. CASE CreateLoadManifest(w)
    BY <1>1, <2>2 DEF CreateLoadManifest
  <2>3. CASE AppendLoadManifest(w)
    BY <1>1, <2>3 DEF AppendLoadManifest
  <2>4. CASE AppendLoadPrevious(w)
    BY <1>1, <2>4 DEF AppendLoadPrevious
  <2> QED BY <2>1, <2>2, <2>3, <2>4
<1>7. ASSUME NEW pc \in Calm, Become(w, [p EXCEPT !.pc = pc]), UNCHANGED disk PROVE AloneInv'
  <2>1. PICK o : o = [p EXCEPT !.pc = pc]
    OBVIOUS
  <2>2. o.pc = pc /\ o.shard = p.shard
    BY <1>2, <2>1 DEF Op
  <2> QED BY <1>5, <1>7, <2>1, <2>2
<1>8. ASSUME NEW m, NEW n, Become(w, [p EXCEPT !.pc = "prev", !.man = m, !.new = n]), UNCHANGED disk
      PROVE AloneInv'
  <2>1. PICK o : o = [p EXCEPT !.pc = "prev", !.man = m, !.new = n]
    OBVIOUS
  <2>2. o.pc = "prev" /\ o.shard = p.shard
    BY <1>2, <2>1 DEF Op
  <2> QED BY <1>5, <1>8, <2>1, <2>2 DEF Calm
<1>9. ASSUME NEW n, Become(w, [p EXCEPT !.pc = "refuse", !.new = n]), UNCHANGED disk PROVE AloneInv'
  <2>1. PICK o : o = [p EXCEPT !.pc = "refuse", !.new = n]
    OBVIOUS
  <2>2. o.pc = "refuse" /\ o.shard = p.shard
    BY <1>2, <2>1 DEF Op
  <2> QED BY <1>5, <1>9, <2>1, <2>2 DEF Calm
<1>10. ASSUME NEW c, Become(w, [p EXCEPT !.pc = "orphan", !.snap = c]), UNCHANGED disk PROVE AloneInv'
  <2>1. PICK o : o = [p EXCEPT !.pc = "orphan", !.snap = c]
    OBVIOUS
  <2>2. o.pc = "orphan" /\ o.shard = p.shard
    BY <1>2, <2>1 DEF Op
  <2> QED BY <1>5, <1>10, <2>1, <2>2 DEF Calm
<1> QED BY <1>4, <1>6, <1>7, <1>8, <1>9, <1>10, StopAlone

\* A freeze reads the manifest of a shard that is there.
LEMMA FreezeLoadAlone ==
  ASSUME AloneInv, TypeInv, OnlyOne', NEW w \in Writers, FreezeLoadManifest(w)
  PROVE  AloneInv'
<1>1. PICK p : p = op[w]
  OBVIOUS
<1>2. PICK s \in Shards : p \in Op /\ p.shard = s
  BY <1>1, Types
<1>3. p.pc = "man" /\ p.kind = "freeze" /\ op[w] # Idle
  BY <1>1, IdleCalm DEF FreezeLoadManifest, At
<1>4. CASE Stop(w)
  BY <1>1, <1>3, <1>4, StopAlone DEF Calm
<1>5. CASE ~Stop(w)
  <2>1. PICK o : o = [p EXCEPT !.pc = "openMan", !.man = manifest[s]]
    OBVIOUS
  <2>2. o.pc = "openMan" /\ o.kind = "freeze" /\ o.shard = s
    BY <1>2, <1>3, <2>1 DEF Op
  <2>3. manFile[s] = "whole" /\ op' = [op EXCEPT ![w] = o] /\ UNCHANGED <<disk, crashes>>
    BY <1>1, <1>2, <1>5, <2>1 DEF FreezeLoadManifest, Become
  <2>4. Converge(o)'
    BY <2>2 DEF Converge, Telling
  <2>5. ASSUME Scene(p) PROVE Scene(o)'
    <3>1. dirFile = "whole" /\ \A t \in Shards : Tidy(t, Idle)
      BY <1>2, <1>3, <2>5, CalmScene DEF Calm
    <3>2. Tidy(s, o)
      <4>1. manifest[s].latest # 0
        BY <2>3, <3>1, IdleCalm DEF Tidy
      <4> QED BY <2>2, <3>1, <4>1, IdleCalm DEF Tidy, Listed, Lines, Ahead, Adds, Telling, Saving, Indexing
    <3>3. Scene(o)
      BY <2>2, <3>1, <3>2 DEF Scene
    <3> QED BY <2>3, <3>3, SceneStays
  <2> QED BY <1>1, <1>3, <2>3, <2>4, <2>5, AloneStep
<1> QED BY <1>4, <1>5

\* A new version's number is the one behind the manifest's latest.
LEMMA NewIsNext ==
  ASSUME PastInv, NEW w \in Writers, op[w].pc \in Adding \cup Saving, op[w].kind # "freeze"
  PROVE  /\ op[w].new = manifest[op[w].shard].latest + 1
         /\ op[w].man = manifest[op[w].shard]
<1>1. Numbered(op[w]) /\ Flight(op[w], manifest[op[w].shard], snapFile[op[w].shard], snaps[op[w].shard])
  BY Known DEF InFlight
<1>2. op[w].pc \in Past
  BY DEF Past, Steps, Adding, Saving
<1> QED BY <1>1, <1>2 DEF Numbered, Flight

LEMMA SnapshotOpenAlone ==
  ASSUME AloneInv, PastInv, OnlyOne', NEW w \in Writers, SnapshotOpen(w)
  PROVE  AloneInv'
<1>1. PICK p : p = op[w]
  OBVIOUS
<1>2. PICK s \in Shards : p \in Op /\ p.shard = s /\ manifest[s].latest \in Nat /\ TypeInv
  BY <1>1, Types DEF PastInv
<1>3. PICK o : o = [p EXCEPT !.pc = "putSnap"]
  OBVIOUS
<1>4. /\ p.pc = "openSnap" /\ p.kind # "freeze" /\ p.new = manifest[s].latest + 1
  <2>1. p.pc = "openSnap" /\ InFlight(w)
    BY <1>1, Known DEF SnapshotOpen, At
  <2>2. p.kind # "freeze"
    BY <1>1, <2>1 DEF InFlight, Flight, Adding
  <2> QED BY <1>1, <1>2, <2>1, <2>2, NewIsNext DEF Adding
<1>5. /\ op' = [op EXCEPT ![w] = o] /\ snapFile' = [snapFile EXCEPT ![s][p.new] = "empty"]
      /\ UNCHANGED <<snaps, manifest, manFile, directory, dirFile, chronicle, crashes>>
  BY <1>1, <1>2, <1>3 DEF SnapshotOpen, Goto, Become
<1>6. o.pc = "putSnap" /\ o.kind = p.kind /\ o.shard = s /\ o # Idle
  BY <1>2, <1>3, IdleCalm DEF Op
<1>7. /\ \A t \in Shards \ {s} : snapFile'[t] = snapFile[t]
      /\ \A n \in SnapIds : snapFile'[s][n] = IF n = p.new THEN "empty" ELSE snapFile[s][n]
  BY <1>2, <1>5 DEF TypeInv, TypeOK
<1>8. Converge(o)'
  BY <1>6 DEF Converge, Telling
<1>9. ASSUME Scene(p) PROVE Scene(o)'
  <2>1. dirFile = "whole" /\ \A t \in Shards : Tidy(t, Idle)
    BY <1>2, <1>4, <1>9, CalmScene DEF Calm
  <2>2. Tidy(s, o)'
    <3>1. \A n \in SnapIds : Exists(s, n)' <=> n <= Listed(s, o)'
      <4>1. Listed(s, o)' = manifest[s].latest + 1 /\ Listed(s, Idle) = manifest[s].latest
        BY <1>2, <1>4, <1>5, <1>6, IdleCalm DEF Listed, Ahead
      <4>2. \A n \in SnapIds : Exists(s, n) <=> n <= manifest[s].latest
        BY <2>1, <4>1 DEF Tidy
      <4> QED BY <1>2, <1>4, <1>7, <4>1, <4>2 DEF Exists, SnapIds
    <3>2. Lines(s, o)' = Lines(s, Idle)
      BY <1>5, <1>6, IdleCalm DEF Lines, Adds, Telling
    <3>3. \A n : Line(s, n) => Line(s, n)'
      BY <1>5 DEF Line
    <3>4. \A n \in 1..Lines(s, o)' : Line(s, n)'
      BY <2>1, <3>2, <3>3 DEF Tidy
    <3> QED BY <1>4, <1>5, <1>6, <2>1, <3>1, <3>4, IdleCalm DEF Tidy, Indexing, Telling, Saving, Shown
  <2>3. ASSUME NEW t \in Shards \ {s} PROVE Tidy(t, Idle)'
    <3>1. Tidy(t, Idle) /\ \A n : Line(t, n) => Line(t, n)'
      BY <1>5, <2>1 DEF Line
    <3> QED BY <1>5, <1>7, <3>1, TidyStays
  <2> QED BY <1>5, <1>6, <2>1, <2>2, <2>3 DEF Scene
<1> QED BY <1>1, <1>2, <1>5, <1>6, <1>8, <1>9, AloneStep

LEMMA SnapshotPutAlone ==
  ASSUME AloneInv, PastInv, OnlyOne', NEW w \in Writers, SnapshotPut(w)
  PROVE  AloneInv'
<1>1. PICK p : p = op[w]
  OBVIOUS
<1>2. PICK s \in Shards : p \in Op /\ p.shard = s /\ manifest[s].latest \in Nat /\ TypeInv
  BY <1>1, Types DEF PastInv
<1>3. PICK o : o = [p EXCEPT !.pc = "openMan"]
  OBVIOUS
<1>4. p.pc = "putSnap" /\ p.kind # "freeze"
  <2>1. p.pc = "putSnap" /\ InFlight(w)
    BY <1>1, Known DEF SnapshotPut, At
  <2> QED BY <1>1, <2>1 DEF InFlight, Flight, Adding
<1>5. PICK f \in {"whole", "garbled"} :
        /\ op' = [op EXCEPT ![w] = o] /\ snapFile' = [snapFile EXCEPT ![s][p.new] = f]
        /\ UNCHANGED <<manifest, manFile, directory, dirFile, chronicle, crashes>>
  BY <1>1, <1>2, <1>3 DEF SnapshotPut, Goto, Become, AfterPut
<1>6. o.pc = "openMan" /\ o.kind = p.kind /\ o.shard = s /\ o # Idle
  BY <1>2, <1>3, IdleCalm DEF Op
<1>7. /\ \A t \in Shards \ {s} : snapFile'[t] = snapFile[t]
      /\ \A n \in SnapIds : snapFile'[s][n] = IF n = p.new THEN f ELSE snapFile[s][n]
  BY <1>2, <1>5 DEF TypeInv, TypeOK
<1>8. snapFile[s][p.new] = "empty"
  BY <1>1, <1>2, <1>4, Known DEF InFlight, Flight
<1>9. \A n \in SnapIds : snapFile'[s][n] # "absent" <=> snapFile[s][n] # "absent"
  BY <1>7, <1>8
<1>10. Converge(o)'
  BY <1>6 DEF Converge, Telling
<1>11. ASSUME Scene(p) PROVE Scene(o)'
  <2>1. /\ Tidy(s, p) /\ dirFile = "whole" /\ \A t \in Shards \ {s} : Tidy(t, Idle)
    BY <1>2, <1>4, <1>11 DEF Scene
  <2>2. Tidy(s, o)
    BY <1>4, <1>6, <2>1 DEF Tidy, Listed, Lines, Ahead, Adds, Telling, Saving, Indexing
  <2>3. \A t \in Shards, n \in Nat : Line(t, n) <=> Line(t, n)'
    BY <1>5 DEF Line
  <2>4. \A t \in Shards : \A n : Line(t, n) => Line(t, n)'
    BY <1>5 DEF Line
  <2>5. Tidy(s, o)'
    BY <1>5, <1>9, <2>2, <2>4, TidyStays
  <2>6. ASSUME NEW t \in Shards \ {s} PROVE Tidy(t, Idle)'
    BY <1>5, <1>7, <2>1, <2>4, TidyStays
  <2> QED BY <1>5, <1>6, <2>1, <2>5, <2>6 DEF Scene
<1> QED BY <1>1, <1>2, <1>5, <1>6, <1>10, <1>11, AloneStep

LEMMA ManifestOpenAlone ==
  ASSUME AloneInv, PastInv, OnlyOne', NEW w \in Writers, ManifestOpen(w)
  PROVE  AloneInv'
<1>1. PICK p : p = op[w]
  OBVIOUS
<1>2. PICK s \in Shards : p \in Op /\ p.shard = s /\ TypeInv
  BY <1>1, Types DEF PastInv
<1>3. PICK o : o = [p EXCEPT !.pc = "putMan"]
  OBVIOUS
<1>4. /\ p.pc = "openMan" /\ op' = [op EXCEPT ![w] = o] /\ manFile' = [manFile EXCEPT ![s] = "empty"]
      /\ UNCHANGED <<snaps, snapFile, manifest, directory, dirFile, chronicle, crashes>>
  BY <1>1, <1>2, <1>3 DEF ManifestOpen, Goto, Become, At
<1>5. o.pc = "putMan" /\ o.kind = p.kind /\ o.shard = s /\ o # Idle
  BY <1>2, <1>3, IdleCalm DEF Op
<1>6. manFile'[s] = "empty" /\ \A t \in Shards \ {s} : manFile'[t] = manFile[t]
  BY <1>2, <1>4 DEF TypeInv, TypeOK
<1>7. Converge(o)'
  BY <1>5 DEF Converge, Telling
<1>8. ASSUME Scene(p) PROVE Scene(o)'
  <2>1. Tidy(s, p) /\ dirFile = "whole" /\ \A t \in Shards \ {s} : Tidy(t, Idle)
    BY <1>2, <1>4, <1>8 DEF Scene
  <2>2. \A t \in Shards : \A n : Line(t, n) => Line(t, n)'
    BY <1>4 DEF Line
  <2>3. Tidy(s, o)'
    <3>1. /\ Listed(s, o)' = Listed(s, p) /\ Lines(s, o)' = Lines(s, p) /\ Shown(s)' = Shown(s)
          /\ \A n : Exists(s, n)' <=> Exists(s, n)
      BY <1>4, <1>5 DEF Listed, Lines, Ahead, Adds, Telling, Shown, Exists
    <3> QED BY <1>4, <1>5, <1>6, <2>1, <2>2, <3>1 DEF Tidy, Indexing, Telling, Saving
  <2>4. ASSUME NEW t \in Shards \ {s} PROVE Tidy(t, Idle)'
    BY <1>4, <1>6, <2>1, <2>2, TidyStays
  <2> QED BY <1>4, <1>5, <2>1, <2>3, <2>4 DEF Scene
<1> QED BY <1>1, <1>2, <1>4, <1>5, <1>7, <1>8, AloneStep

\* The manifest gains the version, or its status.
LEMMA ManifestPutAlone ==
  ASSUME AloneInv, PastInv, OnlyOne', NEW w \in Writers, ManifestPut(w)
  PROVE  AloneInv'
<1>1. PICK p : p = op[w]
  OBVIOUS
<1>2. PICK s \in Shards : p \in Op /\ p.shard = s /\ TypeInv /\ manifest[s] \in Manifest /\ manifest[s].latest \in Nat
  BY <1>1, Types DEF PastInv
<1>3. PICK pc \in {"entry", "dir"} : pc = IF p.kind \in Appends THEN "entry" ELSE "dir"
  OBVIOUS
<1>4. PICK o : o = [p EXCEPT !.pc = pc]
  OBVIOUS
<1>5. PICK m : m = NewManifest(p)
  OBVIOUS
<1>6. /\ p.pc = "putMan" /\ op' = [op EXCEPT ![w] = o] /\ manifest' = [manifest EXCEPT ![s] = m]
      /\ \E f \in AfterPut(manFile[s]) : manFile' = [manFile EXCEPT ![s] = f]
      /\ UNCHANGED <<snaps, snapFile, directory, dirFile, chronicle, crashes>>
  BY <1>1, <1>2, <1>3, <1>4, <1>5 DEF ManifestPut, Goto, Become, At
<1>7. o.pc = pc /\ o.kind = p.kind /\ o.shard = s /\ o.man = p.man /\ o # Idle
  BY <1>2, <1>3, <1>4, IdleCalm DEF Op
<1>8. manifest'[s] = m /\ \A t \in Shards \ {s} : manifest'[t] = manifest[t]
  BY <1>2, <1>6 DEF TypeInv, TypeOK
<1>9. /\ p.man = manifest[s]
      /\ p.kind # "freeze" => m.latest = manifest[s].latest + 1 /\ m.status = p.man.status
      /\ p.kind = "freeze" => m.latest = manifest[s].latest /\ m.status = "frozen"
  <2>1. p.man = manifest[s]
    BY <1>1, <1>2, <1>6, Known DEF InFlight, Flight, Saving
  <2>2. p.kind # "freeze" => p.new = manifest[s].latest + 1
    BY <1>1, <1>2, <1>6, NewIsNext DEF Saving
  <2>3. p.man \in Manifest
    BY <1>2, <2>1
  <2> QED BY <1>5, <2>1, <2>2, <2>3 DEF NewManifest, Manifest
<1>10. Converge(o)'
  BY <1>3, <1>7, <1>8, <1>9 DEF Converge
<1>11. ASSUME Scene(p) PROVE Scene(o)'
  <2>1. Tidy(s, p) /\ dirFile = "whole" /\ \A t \in Shards \ {s} : Tidy(t, Idle)
    BY <1>2, <1>6, <1>11 DEF Scene
  <2>2. \A t \in Shards : \A n : Line(t, n) => Line(t, n)'
    BY <1>6 DEF Line
  <2>3. manFile'[s] = "whole" /\ \A t \in Shards \ {s} : manFile'[t] = manFile[t]
    <3>1. manFile[s] = "empty"
      BY <1>6, <2>1 DEF Tidy
    <3> QED BY <1>2, <1>6, <3>1 DEF AfterPut, TypeInv, TypeOK
  <2>4. Tidy(s, o)'
    <3>1. o.pc \in Indexing /\ o.pc \in Telling /\ o.pc # "putMan" /\ p.pc \notin Indexing \cup Telling
      BY <1>3, <1>6, <1>7 DEF Indexing, Telling
    <3>2. Listed(s, o)' = Listed(s, p) /\ Lines(s, o)' = Lines(s, p)
      BY <1>2, <1>3, <1>6, <1>7, <1>8, <1>9, <3>1 DEF Listed, Lines, Ahead, Adds
    <3>3. \A n \in SnapIds : Exists(s, n)' <=> n <= Listed(s, o)'
      BY <1>6, <2>1, <3>2 DEF Tidy, Exists
    <3>4. \A n \in 1..Lines(s, o)' : Line(s, n)'
      BY <2>1, <2>2, <3>2 DEF Tidy
    <3>5. manifest'[s].latest # 0
      BY <1>2, <1>6, <1>8, <1>9, <2>1 DEF Tidy, Saving
    <3>6. o.kind = "freeze" => directory'[s].snap = manifest'[s].latest
      BY <1>6, <1>7, <1>8, <1>9, <2>1, <3>1 DEF Tidy, Shown
    <3> QED BY <2>3, <3>1, <3>3, <3>4, <3>5, <3>6 DEF Tidy
  <2>5. ASSUME NEW t \in Shards \ {s} PROVE Tidy(t, Idle)'
    BY <1>6, <1>8, <2>1, <2>2, <2>3, TidyStays
  <2> QED BY <1>3, <1>6, <1>7, <2>1, <2>4, <2>5 DEF Scene
<1> QED BY <1>1, <1>2, <1>6, <1>7, <1>10, <1>11, AloneStep

\* The directory is read and changed: its other entries are as they were.
LEMMA DirectoryReadsAlone ==
  ASSUME AloneInv, PastInv, OnlyOne', NEW w \in Writers, AppendLoadEntry(w) \/ DirectoryLoad(w)
  PROVE  AloneInv'
<1>1. PICK p : p = op[w]
  OBVIOUS
<1>2. PICK s \in Shards :
        /\ p \in Op /\ p.shard = s /\ manifest[s].latest \in Nat /\ manifest[s] \in Manifest
        /\ TypeInv /\ directory \in Directory
  BY <1>1, Types DEF PastInv
<1>3. p.pc \in {"entry", "dir"} /\ op[w] # Idle
  BY <1>1, IdleCalm DEF AppendLoadEntry, DirectoryLoad, At
<1>4. CASE dirFile \in Torn
  <2>1. op' = [op EXCEPT ![w] = Idle] /\ UNCHANGED <<disk, crashes>>
    BY <1>4 DEF Stop, Become, AppendLoadEntry, DirectoryLoad
  <2>2. Converge(Idle)'
    BY IdleCalm DEF Converge, Telling
  <2>3. ~Scene(p)
    BY <1>3, <1>4 DEF Scene, Torn
  <2> QED BY <1>1, <1>2, <1>3, <2>1, <2>2, <2>3, AloneStep
<1>5. CASE dirFile \notin Torn /\ AppendLoadEntry(w)
  <2>1. PICK o : o = [p EXCEPT !.pc = "dir"]
    OBVIOUS
  <2>2. p.pc = "entry" /\ op' = [op EXCEPT ![w] = o] /\ UNCHANGED <<disk, crashes>>
    BY <1>1, <1>5, <2>1 DEF AppendLoadEntry, Goto, Become, At
  <2>3. o.pc = "dir" /\ o.kind = p.kind /\ o.shard = s /\ o.man = p.man
    BY <1>2, <2>1 DEF Op
  <2>4. Converge(o)'
    <3>1. Converge(p)
      BY <1>1 DEF AloneInv
    <3>2. Converge(o)
      BY <1>2, <2>2, <2>3, <3>1 DEF Converge, Telling
    <3> QED BY <2>2, <3>2, ConvergeStays
  <2>5. ASSUME Scene(p) PROVE Scene(o)'
    <3>1. Tidy(s, p)
      BY <1>2, <2>5 DEF Scene
    <3>2. Tidy(s, o)
      BY <2>2, <2>3, <3>1 DEF Tidy, Listed, Lines, Ahead, Adds, Telling, Saving, Indexing
    <3>3. Scene(o)
      BY <1>2, <2>2, <2>3, <2>5, <3>2 DEF Scene
    <3> QED BY <2>2, <3>3, SceneStays
  <2> QED BY <1>1, <1>2, <1>3, <2>2, <2>4, <2>5, AloneStep
<1>6. CASE dirFile \notin Torn /\ DirectoryLoad(w)
  <2>1. Converge(p) /\ p.pc = "dir"
    BY <1>1, <1>6 DEF AloneInv, DirectoryLoad, At
  <2>2. p.kind # "freeze" => p.new = manifest[s].latest /\ p.man.status = manifest[s].status
    <3>1. Flight(p, manifest[s], snapFile[s], snaps[s])
      BY <1>1, <1>2, Known DEF InFlight
    <3> QED BY <1>2, <2>1, <3>1 DEF Flight, Converge, Telling
  <2>3. CASE p.kind = "freeze" /\ directory[s].snap = 0
    <3>1. PICK o : o = [p EXCEPT !.pc = "log"]
      OBVIOUS
    <3>2. op' = [op EXCEPT ![w] = o] /\ UNCHANGED <<disk, crashes>>
      BY <1>1, <1>2, <1>6, <2>3, <3>1 DEF DirectoryLoad, Become
    <3>3. o.pc = "log" /\ o.kind = "freeze" /\ o.shard = s
      BY <1>2, <2>3, <3>1 DEF Op
    <3>4. Converge(o)
      BY <1>2, <2>1, <2>3, <3>3 DEF Converge, Agrees, Telling
    <3>5. ~Scene(p)
      BY <1>2, <2>1, <2>3 DEF Scene, Tidy, Indexing, Telling
    <3> QED BY <1>1, <1>2, <1>3, <3>2, <3>4, <3>5, ConvergeStays, AloneStep
  <2>4. CASE ~(p.kind = "freeze" /\ directory[s].snap = 0)
    <3>1. PICK e : e = IF p.kind = "freeze" THEN [directory[s] EXCEPT !.status = "frozen"]
                       ELSE [snap |-> p.new, status |-> p.man.status]
      OBVIOUS
    <3>2. PICK d : d = [directory EXCEPT ![s] = e]
      OBVIOUS
    <3>3. PICK o : o = [p EXCEPT !.pc = "openDir", !.dir = d]
      OBVIOUS
    <3>4. op' = [op EXCEPT ![w] = o] /\ UNCHANGED <<disk, crashes>>
      BY <1>1, <1>2, <1>6, <2>4, <3>1, <3>2, <3>3 DEF DirectoryLoad, Become
    <3>5. o.pc = "openDir" /\ o.kind = p.kind /\ o.shard = s /\ o.man = p.man /\ o.dir = d
      BY <1>2, <3>3 DEF Op
    <3>6. d[s] = e /\ \A t \in Shards \ {s} : d[t] = directory[t]
      BY <1>2, <3>2 DEF Directory
    <3>7. /\ p.kind = "freeze" => e.status = "frozen" /\ e = [snap |-> directory[s].snap, status |-> "frozen"]
          /\ p.kind # "freeze" => e = Shown(s)
      <4>1. directory[s] \in Entry
        BY <1>2 DEF Directory
      <4> QED BY <2>2, <3>1, <4>1 DEF Entry, Shown
    <3>8. Converge(o)
      BY <1>2, <2>1, <3>5, <3>6, <3>7 DEF Converge, Agrees, Telling
    <3>9. ASSUME Scene(p) PROVE Scene(o)'
      <4>1. Tidy(s, p) /\ dirFile = "whole" /\ \A t \in Shards \ {s} : Tidy(t, Idle)
        BY <1>2, <2>1, <3>9 DEF Scene
      <4>2. Tidy(s, o)
        BY <2>1, <3>5, <4>1 DEF Tidy, Listed, Lines, Ahead, Adds, Telling, Saving, Indexing
      <4>3. p.kind = "freeze" => e = Shown(s)
        <5>1. p.kind = "freeze" => manifest[s].status = "frozen"
          BY <1>2, <2>1 DEF Converge, Telling
        <5>2. p.kind = "freeze" => directory[s].snap = manifest[s].latest
          BY <2>1, <4>1 DEF Tidy, Indexing, Telling
        <5> QED BY <3>7, <5>1, <5>2 DEF Shown
      <4>4. Scene(o)
        BY <3>5, <3>6, <3>7, <4>1, <4>2, <4>3 DEF Scene
      <4> QED BY <3>4, <4>4, SceneStays
    <3> QED BY <1>1, <1>2, <1>3, <3>4, <3>8, <3>9, ConvergeStays, AloneStep
  <2> QED BY <2>3, <2>4
<1> QED BY <1>4, <1>5, <1>6

LEMMA DirectoryOpenAlone ==
  ASSUME AloneInv, PastInv, OnlyOne', NEW w \in Writers, DirectoryOpen(w)
  PROVE  AloneInv'
<1>1. PICK p : p = op[w]
  OBVIOUS
<1>2. PICK s \in Shards : p \in Op /\ p.shard = s /\ TypeInv
  BY <1>1, Types DEF PastInv
<1>3. PICK o : o = [p EXCEPT !.pc = "putDir"]
  OBVIOUS
<1>4. /\ p.pc = "openDir" /\ op' = [op EXCEPT ![w] = o] /\ dirFile' = "empty"
      /\ UNCHANGED <<snaps, snapFile, manifest, manFile, directory, chronicle, crashes>>
  BY <1>1, <1>3 DEF DirectoryOpen, Goto, Become, At
<1>5. o.pc = "putDir" /\ o.kind = p.kind /\ o.shard = s /\ o.man = p.man /\ o.dir = p.dir /\ o # Idle
  BY <1>2, <1>3, IdleCalm DEF Op
<1>6. Converge(o)'
  <2>1. Converge(p)
    BY <1>1 DEF AloneInv
  <2> QED BY <1>2, <1>4, <1>5, <2>1 DEF Converge, Agrees, Shown, Telling
<1>7. ASSUME Scene(p) PROVE Scene(o)'
  <2>1. /\ Tidy(s, p) /\ p.dir[s] = Shown(s)
        /\ \A t \in Shards \ {s} : Tidy(t, Idle) /\ p.dir[t] = directory[t]
    BY <1>2, <1>4, <1>7 DEF Scene
  <2>2. Tidy(s, o)
    BY <1>4, <1>5, <2>1 DEF Tidy, Listed, Lines, Ahead, Adds, Telling, Saving, Indexing
  <2>3. \A t \in Shards : \A n : Line(t, n) => Line(t, n)'
    BY <1>4 DEF Line
  <2>4. Tidy(s, o)' /\ \A t \in Shards \ {s} : Tidy(t, Idle)'
    BY <1>4, <2>1, <2>2, <2>3, TidyStays
  <2> QED BY <1>4, <1>5, <2>1, <2>4 DEF Scene, Shown
<1> QED BY <1>1, <1>2, <1>4, <1>5, <1>6, <1>7, AloneStep

LEMMA DirectoryPutAlone ==
  ASSUME AloneInv, PastInv, OnlyOne', NEW w \in Writers, DirectoryPut(w)
  PROVE  AloneInv'
<1>1. PICK p : p = op[w]
  OBVIOUS
<1>2. PICK s \in Shards : p \in Op /\ p.shard = s /\ TypeInv
  BY <1>1, Types DEF PastInv
<1>3. PICK o : o = [p EXCEPT !.pc = "log"]
  OBVIOUS
<1>4. /\ p.pc = "putDir" /\ op' = [op EXCEPT ![w] = o] /\ directory' = p.dir
      /\ dirFile' \in AfterPut(dirFile)
      /\ UNCHANGED <<snaps, snapFile, manifest, manFile, chronicle, crashes>>
  BY <1>1, <1>3 DEF DirectoryPut, Goto, Become, At
<1>5. o.pc = "log" /\ o.kind = p.kind /\ o.shard = s /\ o.man = p.man /\ o # Idle
  BY <1>2, <1>3, IdleCalm DEF Op
<1>6. Converge(o)'
  <2>1. Converge(p)
    BY <1>1 DEF AloneInv
  <2> QED BY <1>2, <1>4, <1>5, <2>1 DEF Converge, Agrees, Shown, Telling
<1>7. ASSUME Scene(p) PROVE Scene(o)'
  <2>1. /\ Tidy(s, p) /\ p.dir[s] = Shown(s) /\ dirFile = "empty"
        /\ \A t \in Shards \ {s} : Tidy(t, Idle) /\ p.dir[t] = directory[t]
    BY <1>2, <1>4, <1>7 DEF Scene
  <2>2. \A t \in Shards : \A n : Line(t, n) => Line(t, n)'
    BY <1>4 DEF Line
  <2>3. Tidy(s, o)'
    <3>1. /\ Listed(s, o)' = Listed(s, p) /\ Lines(s, o)' = Lines(s, p) /\ Shown(s)' = Shown(s)
          /\ \A n : Exists(s, n)' <=> Exists(s, n)
      BY <1>4, <1>5 DEF Listed, Lines, Ahead, Adds, Telling, Shown, Exists
    <3>2. directory'[s] = Shown(s)'
      BY <1>4, <2>1, <3>1
    <3> QED BY <1>4, <1>5, <2>1, <2>2, <3>1, <3>2 DEF Tidy, Indexing, Telling, Saving
  <2>4. ASSUME NEW t \in Shards \ {s} PROVE Tidy(t, Idle)'
    BY <1>4, <2>1, <2>2, TidyStays
  <2>5. dirFile' = "whole"
    BY <1>4, <2>1 DEF AfterPut
  <2> QED BY <1>5, <2>3, <2>4, <2>5 DEF Scene
<1> QED BY <1>1, <1>2, <1>4, <1>5, <1>6, <1>7, AloneStep

\* The line completes the account of the shard's versions.
LEMMA ChronicleAlone ==
  ASSUME AloneInv, PastInv, OnlyOne', NEW w \in Writers, ChronicleAppend(w)
  PROVE  AloneInv'
<1>1. PICK p : p = op[w]
  OBVIOUS
<1>2. PICK s \in Shards : p \in Op /\ p.shard = s /\ TypeInv /\ manifest[s].latest \in Nat
  BY <1>1, Types DEF PastInv
<1>3. PICK line : line = LogRecord(p)
  OBVIOUS
<1>4. /\ p.pc = "log" /\ op' = [op EXCEPT ![w] = Idle] /\ chronicle' = Append(chronicle, line)
      /\ UNCHANGED <<snaps, snapFile, manifest, manFile, directory, dirFile, crashes>>
  BY <1>1, <1>3 DEF ChronicleAppend, Become, At
<1>5. line.shard = s /\ line.new = p.new /\ (p.kind # "freeze" => p.new = manifest[s].latest)
  <2>1. Flight(p, manifest[s], snapFile[s], snaps[s])
    BY <1>1, <1>2, Known DEF InFlight
  <2> QED BY <1>2, <1>3, <1>4, <2>1 DEF LogRecord, Flight, Telling
<1>6. Converge(Idle)'
  BY IdleCalm DEF Converge, Telling
<1>7. ASSUME Scene(p) PROVE Scene(Idle)'
  <2>1. Tidy(s, p) /\ dirFile = "whole" /\ \A t \in Shards \ {s} : Tidy(t, Idle)
    BY <1>2, <1>4, <1>7 DEF Scene
  <2>2. chronicle \in Seq(Record)
    BY <1>2 DEF TypeInv, TypeOK
  <2>3. /\ Len(chronicle') = Len(chronicle) + 1 /\ chronicle'[Len(chronicle) + 1] = line
        /\ Len(chronicle) \in Nat /\ \A i \in 1..Len(chronicle) : chronicle'[i] = chronicle[i]
    BY <1>4, <2>2
  <2>4. \A t \in Shards : \A n : Line(t, n) => Line(t, n)'
    BY <2>3 DEF Line
  <2>5. Line(s, p.new)'
    BY <1>5, <2>3 DEF Line
  <2>6. Tidy(s, Idle)'
    <3>1. Listed(s, Idle)' = Listed(s, p) /\ Shown(s)' = Shown(s) /\ \A n : Exists(s, n)' <=> Exists(s, n)
      BY <1>4, IdleCalm DEF Listed, Ahead, Shown, Exists
    <3>2. \A n \in 1..Lines(s, Idle)' : Line(s, n)'
      <4>1. Lines(s, Idle)' = manifest[s].latest
        BY <1>2, <1>4, IdleCalm DEF Lines, Adds
      <4>2. \A n \in 1..manifest[s].latest : n \in 1..Lines(s, p) \/ (n = manifest[s].latest /\ p.kind # "freeze")
        BY <1>2 DEF Lines, Adds
      <4> QED BY <1>5, <2>1, <2>4, <2>5, <4>1, <4>2 DEF Tidy
    <3> QED BY <1>4, <2>1, <3>1, <3>2, IdleCalm DEF Tidy, Indexing, Telling, Saving
  <2>7. ASSUME NEW t \in Shards \ {s} PROVE Tidy(t, Idle)'
    BY <1>4, <2>1, <2>4, TidyStays
  <2> QED BY <1>4, <2>1, <2>6, <2>7, IdleCalm DEF Scene
<1>8. p # Idle /\ crashes' = crashes
  BY <1>4, IdleCalm
<1> QED BY <1>1, <1>2, <1>4, <1>6, <1>7, <1>8, AloneStep

\* What is done beside or between the commands.  With no command killed there is
\* nothing to repair.
LEMMA OthersAlone ==
  ASSUME AloneInv, PastInv, OnlyOne'
  PROVE  /\ (\E w \in Writers : Crash(w)) => AloneInv'
         /\ Query => AloneInv'
         /\ Operator => AloneInv'
         /\ UNCHANGED vars => AloneInv'
<1>1. ASSUME NEW w \in Writers, Crash(w) PROVE AloneInv'
  <2>1. op' = [op EXCEPT ![w] = Idle] /\ op[w] # Idle /\ crashes' = crashes + 1 /\ crashes \in Nat
    BY <1>1, StoreBounds DEF Crash, PastInv, TypeInv, TypeOK
  <2>2. \A v \in Writers : op'[v] = Idle
    BY <2>1, Types DEF AloneInv, OnlyOne, PastInv
  <2>3. \A v \in Writers : Converge(op[v])'
    BY <2>2, IdleCalm DEF Converge, Telling
  <2>4. crashes' # 0
    BY <2>1
  <2> QED BY <2>3, <2>4 DEF AloneInv
<1>2. ASSUME UNCHANGED <<disk, op, crashes>> PROVE AloneInv'
  <2>1. \A v \in Writers : Converge(op[v])'
    BY <1>2 DEF AloneInv, Converge, Agrees, Shown, disk
  <2>2. ASSUME crashes = 0 PROVE Unbroken'
    <3>1. Scene(Idle) => Scene(Idle)'
      BY <1>2, SceneStays
    <3>2. \A v \in Writers : Scene(op[v]) => Scene(op[v])'
      <4>1. ASSUME NEW v \in Writers, Scene(op[v]) PROVE Scene(op[v])'
        <5>1. PICK p : p = op[v]
          OBVIOUS
        <5>2. Scene(p) => Scene(p)'
          BY <1>2, SceneStays
        <5>3. op'[v] = p
          BY <1>2, <5>1
        <5> QED BY <4>1, <5>1, <5>2, <5>3
      <4> QED BY <4>1
    <3> QED BY <1>2, <2>2, <3>1, <3>2 DEF AloneInv, Unbroken, AllIdle
  <2> QED BY <1>2, <2>1, <2>2 DEF AloneInv
<1>3. Query \/ UNCHANGED vars => UNCHANGED <<disk, op, crashes>>
  BY DEF Query, AskLoadDirectory, AskFinish, vars
<1>4. ASSUME NEW s \in Shards, RecoverAdopt(s) \/ RecoverDelete(s) PROVE AloneInv'
  <2>1. AllIdle /\ Orphan(s) /\ UNCHANGED <<op, crashes>>
    BY <1>4 DEF RecoverAdopt, RecoverDelete
  <2>2. \A v \in Writers : op'[v] = Idle
    BY <2>1 DEF AllIdle
  <2>3. \A v \in Writers : Converge(op[v])'
    BY <2>2, IdleCalm DEF Converge, Telling
  <2>4. crashes # 0
    <3>1. ASSUME crashes = 0 PROVE FALSE
      <4>1. Tidy(s, Idle)
        BY <2>1, <3>1, IdleCalm, CalmScene DEF AloneInv, Unbroken
      <4>2. manifest[s].latest + 1 \in SnapIds /\ manifest[s].latest \in Nat
        BY <2>1, Types, StoreBounds DEF Orphan, SnapIds, PastInv
      <4>3. manifest[s].latest + 1 <= manifest[s].latest
        BY <2>1, <4>1, <4>2, IdleCalm DEF Tidy, Orphan, Listed, Ahead
      <4> QED BY <4>2, <4>3
    <3> QED BY <3>1
  <2> QED BY <2>1, <2>3, <2>4 DEF AloneInv
<1> QED BY <1>1, <1>2, <1>3, <1>4 DEF Operator

LEMMA InitAlone == MCInit => AloneInv
<1> SUFFICES ASSUME MCInit PROVE AloneInv
  OBVIOUS
<1>1. \A w \in Writers : op[w] = Idle
  BY DEF MCInit, Init
<1>2. \A s \in Shards : manifest[s] = BlankMan /\ directory[s] = BlankEntry /\ manFile[s] = "absent"
  BY DEF MCInit, Init, BlankDir
<1>3. \A s \in Shards : \A n \in SnapIds : ~Exists(s, n)
  BY DEF MCInit, Init, Exists
<1>4. BlankMan.latest = 0 /\ BlankMan.status = "active" /\ BlankEntry = [snap |-> 0, status |-> "active"]
  BY DEF BlankMan, BlankEntry
<1>5. ASSUME NEW s \in Shards PROVE Tidy(s, Idle)
  <2>1. Listed(s, Idle) = 0 /\ Lines(s, Idle) = 0 /\ Shown(s) = directory[s]
    BY <1>2, <1>4, IdleCalm DEF Listed, Ahead, Lines, Adds, Telling, Shown
  <2>2. \A n \in SnapIds : ~(n <= 0)
    BY DEF SnapIds
  <2> QED BY <1>2, <1>3, <1>4, <2>1, <2>2, IdleCalm DEF Tidy, Telling, Saving
<1>6. Scene(Idle)
  BY <1>5, IdleCalm, CalmScene DEF MCInit, Init
<1>7. Converge(Idle)
  BY IdleCalm DEF Converge, Telling
<1> QED BY <1>1, <1>6, <1>7 DEF AloneInv, OnlyOne, Unbroken

LEMMA CommandAlone ==
  ASSUME AloneInv, PastInv, OnlyOne', NEW w \in Writers, WriterStep(w)
  PROVE  AloneInv'
<1>1. TypeInv
  BY DEF PastInv
<1>2. CASE \E k \in Kinds, s \in Shards : Begin(w, k, s)
  BY <1>1, <1>2, BeginAlone
<1>3. CASE \/ DryRun(w) \/ CreateLoadManifest(w) \/ AppendLoadManifest(w) \/ AppendLoadPrevious(w)
           \/ AppendCheckOrphan(w) \/ SnapshotRefuse(w)
  BY <1>1, <1>3, ReadsAlone
<1>4. CASE FreezeLoadManifest(w)
  BY <1>1, <1>4, FreezeLoadAlone
<1>5. CASE SnapshotOpen(w) \/ SnapshotPut(w)
  BY <1>5, SnapshotOpenAlone, SnapshotPutAlone
<1>6. CASE ManifestOpen(w) \/ ManifestPut(w)
  BY <1>6, ManifestOpenAlone, ManifestPutAlone
<1>7. CASE AppendLoadEntry(w) \/ DirectoryLoad(w)
  BY <1>7, DirectoryReadsAlone
<1>8. CASE DirectoryOpen(w) \/ DirectoryPut(w)
  BY <1>8, DirectoryOpenAlone, DirectoryPutAlone
<1>9. CASE ChronicleAppend(w)
  BY <1>9, ChronicleAlone
<1>10. CASE Crash(w)
  BY <1>10, OthersAlone
<1> QED BY <1>2, <1>3, <1>4, <1>5, <1>6, <1>7, <1>8, <1>9, <1>10 DEF WriterStep

LEMMA NextAlone == StoreInv /\ AloneStore /\ [MCNext]_allVars => AloneStore'
<1> SUFFICES ASSUME StoreInv, AloneStore, [MCNext]_allVars, discipline' = "alone" PROVE AloneInv'
  BY DEF AloneStore
<1>1. discipline = "alone" /\ PastInv /\ AloneInv
  BY DEF MCNext, allVars, StoreInv, AloneStore, Disciplined
<1>2. CASE UNCHANGED vars
  <2>1. OnlyOne'
    BY <1>1, <1>2 DEF AloneInv, OnlyOne, vars
  <2> QED BY <1>1, <1>2, <2>1, OthersAlone
<1>3. CASE ~UNCHANGED vars
  <2>1. MCNext
    BY <1>1, <1>3 DEF allVars
  <2>2. OnlyOne'
    BY <2>1 DEF MCNext, Respected, OnlyOne
  <2>3. (\E w \in Writers : WriterStep(w)) \/ Query \/ Operator
    BY <1>3, <2>1 DEF MCNext, Next, Finished
  <2> QED BY <1>1, <2>2, <2>3, CommandAlone, OthersAlone
<1> QED BY <1>2, <1>3

\* With one command at a time over the whole store, a command that reaches its
\* chronicle line leaves its shard's directory entry in agreement with the
\* manifest, whatever earlier crashes had left behind; and as long as no command
\* was killed the whole store is consistent between commands (the write order of
\* appendEventAndSnapshot in commit.ts).
THEOREM StoreAlwaysConverges == MCSpec => []StoreConverges
<1>1. MCInit => StoreInv /\ AloneStore
  BY InitStore, InitAlone DEF AloneStore
<1>2. StoreInv /\ AloneStore /\ [MCNext]_allVars => (StoreInv /\ AloneStore)'
  BY NextStore, NextAlone
<1>3. StoreInv /\ AloneStore => StoreConverges
  <2> SUFFICES ASSUME StoreInv, AloneInv PROVE CommandConverges /\ ConsistentAtRest
    BY DEF StoreConverges, ConvergesAlone, ConsistentAlone, AloneStore
  <2>1. CommandConverges
    BY DEF CommandConverges, AloneInv, Converge, Agrees, Shown, At
  <2>2. ASSUME AllIdle, crashes = 0 PROVE dirFile = "whole" /\ \A s \in Shards : Tidy(s, Idle)
    BY <2>2, IdleCalm, CalmScene DEF AloneInv, Unbroken
  <2>3. ASSUME NEW s \in Shards, Tidy(s, Idle)
        PROVE  /\ manFile[s] \in {"absent", "whole"} /\ directory[s] = Shown(s)
               /\ \A n \in SnapIds : Exists(s, n) <=> n <= manifest[s].latest
               /\ \A n \in 1..manifest[s].latest : Line(s, n)
    <3>1. manifest[s].latest \in Nat
      BY Types DEF StoreInv
    <3>2. Listed(s, Idle) = manifest[s].latest /\ Lines(s, Idle) = manifest[s].latest
      BY <3>1, IdleCalm DEF Listed, Ahead, Lines, Adds
    <3> QED BY <2>3, <3>2, IdleCalm DEF Tidy, Indexing, Telling
  <2> QED BY <2>1, <2>2, <2>3 DEF ConsistentAtRest, Shown, Line
<1> QED BY <1>1, <1>2, <1>3, PTL DEF MCSpec
=============================================================================
