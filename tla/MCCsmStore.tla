----------------------------- MODULE MCCsmStore -----------------------------
(***************************************************************************)
(* CsmStore for TLC.  One run covers three ways of using the command line: *)
(* one command at a time over the whole store, one at a time per shard,    *)
(* and any two commands on one shard.  Which of them a behaviour follows   *)
(* is chosen at the start and never changes; a property that needs a       *)
(* discipline says so.  The refinement mapping shows that the disciplined  *)
(* store implements ShardLog: a shard's log is what the latest version its *)
(* manifest lists holds, so an append takes effect when the manifest's     *)
(* bytes are written.                                                      *)
(***************************************************************************)
EXTENDS CsmStore

VARIABLE discipline
allVars == <<vars, discipline>>

Disciplines == {"alone", "perShard", "none"}

\* Who may run beside whom.
Respected ==
    CASE discipline = "alone" -> \A w1, w2 \in Writers : op[w1] # Idle /\ op[w2] # Idle => w1 = w2
      [] discipline = "perShard" -> ShardExclusive
      [] OTHER -> \A w \in Writers : op[w].shard = Idle.shard

MCInit == Init /\ discipline \in Disciplines

\* Repairs are made by hand and need the disciplined store.
MCNext ==
    /\ Next \/ (discipline # "none" /\ Operator)
    /\ UNCHANGED discipline
    /\ Respected'

MCSpec == MCInit /\ [][MCNext]_allVars

Disciplined == discipline # "none"

-----------------------------------------------------------------------------
(* The properties of CsmStore, each under the discipline it needs.         *)

StatusOf(s) == IF manifest[s].latest = 0 THEN "none" ELSE manifest[s].status

LogOf(s) ==
    IF manifest[s].latest = 0 THEN << >> ELSE snaps[s][manifest[s].latest].events

\* An undisciplined behaviour promises nothing: it maps to an idle log.
Promise == INSTANCE ShardLog WITH
    Events <- 1..MaxOps,
    status <- [s \in Shards |-> IF Disciplined THEN StatusOf(s) ELSE "none"],
    log <- [s \in Shards |-> IF Disciplined THEN LogOf(s) ELSE << >>],
    promised <- IF Disciplined THEN acked ELSE {}

\* The files, with crashes, repairs and commands on other shards, behave as
\* the append-only logs of ShardLog.
ImplementsShardLog == Promise!Spec

\* VersionChain, AckedWritesSurvive, ChronicleInOrder and DirectoryNeverAhead
\* with one command at a time per shard (the write order of commit.ts).
ChainKept == Disciplined => VersionChain
AckedKept == Disciplined => AckedWritesSurvive
ChronicleOrdered == Disciplined => ChronicleInOrder
RoutingNeverAhead == Disciplined => DirectoryNeverAhead

\* SnapshotFilesImmutable and FrozenIsFinal with one command per shard.
FilesImmutable ==
    [][Disciplined => \A s \in Shards : \A n \in SnapIds :
          Whole(s, n) /\ Exists(s, n)' =>
              Whole(s, n)' /\ snaps'[s][n] = snaps[s][n]]_allVars
FreezeFinal ==
    [][Disciplined => \A s \in Shards :
          manifest[s].status = "frozen" => manifest'[s] = manifest[s]]_allVars

\* CommandConverges and ConsistentAtRest with one command at a time.
ConvergesAlone == discipline = "alone" => CommandConverges
ConsistentAlone == discipline = "alone" => ConsistentAtRest

\* What a shard says of its past, with one command at a time per shard.
HistoryKept == ChainKept /\ AckedKept /\ ChronicleOrdered
HistoryFinal == FilesImmutable /\ FreezeFinal

\* What a command leaves behind, with one command at a time.
StoreConverges == ConvergesAlone /\ ConsistentAlone

=============================================================================
