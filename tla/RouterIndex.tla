------------------------------ MODULE RouterIndex ------------------------------
(***************************************************************************)
(* What the router reads: the descriptors and the directory derived from a *)
(* corpus (src/core/descriptors.ts, src/eval/baselines/csm.ts), the index  *)
(* of centroids and retrieval units (routerEmbed.ts, retrievalUnit.ts),    *)
(* built once per corpus behind a cached promise, and the lexical and the  *)
(* hybrid score of an entry (router.ts, routerEmbed.ts).                   *)
(*                                                                         *)
(* An event has words and tags; its vector is the query's own direction or *)
(* orthogonal to it.  Lexical scores are in quarters, hybrid ones in       *)
(* thousandths; the logarithm of a rarity is the number of shards without  *)
(* the term, plus one.                                                     *)
(***************************************************************************)
EXTENDS Selection, SequencesExt

CONSTANTS
    RxShards,       \* shard ids, numbers in their order
    RxTerms,        \* all terms, in their order
    RxAlike,        \* pairs of terms of which one is a prefix of the other
    RxWorlds,       \* bound: corpora, entries, switches and queries explored
    RxAsks,         \* the queries of one process
    MaxDescriptors, \* maxTerms
    NameTerms,      \* derived terms that go into the name
    EventPct        \* what one event adds to the fullness of its shard

ASSUME RouterIndexConstants ==
    /\ IsFiniteSet(RxShards) /\ RxShards \subseteq Nat
    /\ RxTerms \in Seq(ToSet(RxTerms)) /\ IsInjective(RxTerms)
    /\ {MaxDescriptors, NameTerms, EventPct} \subseteq Nat

RxEvent == [near : BOOLEAN, words : Seq(ToSet(RxTerms)), tags : SUBSET ToSet(RxTerms)]

\* Which events, switches and questions a world has is free; it is made of these terms.
ASSUME RouterInputs ==
    \A w \in RxWorlds :
      /\ w.events \in [RxShards -> Seq(RxEvent)]
      /\ w.unitSize \in Nat /\ {w.enrich, w.hybrid} \subseteq BOOLEAN
      /\ w.query \in SUBSET ToSet(RxTerms)

VARIABLES
    rxWorld,    \* events of every shard, unit size, switches, the question
    rxEntry,    \* the directory: what scoreEntryLexical reads of every shard
    rxIndex,    \* the cached promise: none, building, ready or failed
    rxTable,    \* the index, once ready
    rxBuilds,   \* history: builds started
    rxAsk       \* every query: idle, waiting, scored or failed, and its scores

routerVars == <<rxWorld, rxEntry, rxIndex, rxTable, rxBuilds, rxAsk>>

RxIdleAsk == [pc |-> "idle", lex |-> << >>, hybrid |-> << >>]
RxIdle == /\ rxWorld = << >> /\ rxEntry = << >> /\ rxIndex = "off" /\ rxTable = << >>
          /\ rxBuilds = 0 /\ rxAsk = [a \in RxAsks |-> RxIdleAsk]
RxInit == /\ rxWorld \in RxWorlds /\ rxEntry = << >> /\ rxIndex = "none" /\ rxTable = << >>
          /\ rxBuilds = 0 /\ rxAsk = [a \in RxAsks |-> RxIdleAsk]

-----------------------------------------------------------------------------
Events(s) == rxWorld.events[s]
Quantity(t, seq) == Cardinality({i \in DOMAIN seq : seq[i] = t})

\* Occurrences in the texts, a tag for three.
Tf(t, s) ==
    SumTo([i \in DOMAIN Events(s) |-> Quantity(t, Events(s)[i].words)
                                      + (IF t \in Events(s)[i].tags THEN 3 ELSE 0)],
          Len(Events(s)))
ShardDf(t) == Cardinality({s \in RxShards : Tf(t, s) > 0})
TermOrder == [t \in ToSet(RxTerms) |-> CHOOSE i \in DOMAIN RxTerms : RxTerms[i] = t]

\* 1 + ln n in tenths.
LogTf(n) == IF n > 5 THEN 28 ELSE <<10, 17, 21, 24, 26>>[n]

\* Slip: how rare a term is in the corpus does not count.
DeriveDescriptors_TfOnly(s) ==
    LET own == {t \in ToSet(RxTerms) : Tf(t, s) > 0}
    IN Selected(own, [t \in own |-> LogTf(Tf(t, s))], TermOrder, MaxDescriptors)

\* The terms that tell a shard from its siblings.
DeriveDescriptors(s) ==
    LET own == {t \in ToSet(RxTerms) : Tf(t, s) > 0}
        weight == [t \in own |-> LogTf(Tf(t, s)) * (Cardinality(RxShards) + 1 - ShardDf(t))]
    IN Selected(own, weight, TermOrder, MaxDescriptors)

\* The directory entry of a corpus shard: boilerplate unless descriptors are written in.
BuiltEntry(s) ==
    LET derived == IF rxWorld.enrich THEN DeriveDescriptors(s) ELSE << >>
    IN [tags |-> (UNION {e.tags : e \in ToSet(Events(s))}) \cup ToSet(derived),
        desc |-> ToSet(derived), summary |-> ToSet(derived),
        name |-> ToSet(SubSeq(derived, 1, Min({NameTerms, Len(derived)}))),
        age |-> 4, stale |-> 0, full |-> Min({100, EventPct * Len(Events(s))}), status |-> "active"]

\* buildShardsFromCorpus, once per corpus (getAdapter).
BuildDirectory ==
    /\ rxIndex # "off" /\ rxEntry = << >>
    /\ rxEntry' = [s \in RxShards |-> BuiltEntry(s)]
    /\ UNCHANGED <<rxWorld, rxIndex, rxTable, rxBuilds, rxAsk>>

-----------------------------------------------------------------------------
Alike(t, w) == t = w \/ <<t, w>> \in RxAlike \/ <<w, t>> \in RxAlike

\* Query terms that match one of the given terms exactly or by prefix.
Matches(ts) == Cardinality({q \in rxWorld.query : \E w \in ts : Alike(q, w)})

\* scoreEntryLexical, in quarters; age is in steps of 22.5 days.
LexicalScore(entry) ==
    8 * Matches(entry.tags) + 4 * Matches(entry.desc) + 6 * Matches(entry.name)
    + 3 * Matches(entry.summary) + (IF entry.age < 4 THEN 4 - entry.age ELSE 0)
    - 2 * entry.stale
    - (IF entry.full >= 85 THEN 4 ELSE IF entry.full >= 75 THEN 2 ELSE 0)
    - (IF entry.status \in {"archived", "deleted"} THEN 20 ELSE IF entry.status = "frozen" THEN 1 ELSE 0)

Abs(n) == IF n < 0 THEN -n ELSE n

\* wLex * satLex(lex, lexSat), in thousandths.
Saturated(lex) == (500 * lex) \div (Abs(lex) + 8)

\* hybridEquivalentOfLexScore(4).
FloorThreshold == Saturated(16)

-----------------------------------------------------------------------------
\* Slip: a unit is closed when it is above the size.
UnitStarts_Late(n, size, key) ==
    LET start[i \in 1..n] == IF i = 1 \/ key[i] # key[i - 1] \/ i - start[i - 1] > size
                             THEN i ELSE start[i - 1]
    IN {i \in 1..n : start[i] = i}

\* Where a new unit starts: where the key changes and after size events.
UnitStarts(n, size, key) ==
    LET start[i \in 1..n] == IF i = 1 \/ key[i] # key[i - 1] \/ i - start[i - 1] >= size
                             THEN i ELSE start[i - 1]
    IN {i \in 1..n : start[i] = i}

\* Consecutive units.
PartitionIntoUnits(n, size, key) ==
    LET from == ItemsAt([i \in 1..n |-> i], UnitStarts(n, size, key))
    IN [u \in DOMAIN from |-> [from |-> from[u], to |-> IF u < Len(from) THEN from[u + 1] - 1 ELSE n]]

NoKey(s) == [i \in DOMAIN Events(s) |-> TRUE]
TopicKey(s) == [i \in DOMAIN Events(s) |-> Events(s)[i].near]

\* The mean of some vectors, normalised: how many of them point at the query, how many not.
CentroidOf(events) == [on |-> Quantity(TRUE, [i \in DOMAIN events |-> events[i].near]),
                       off |-> Quantity(FALSE, [i \in DOMAIN events |-> events[i].near])]

\* Its cosine with the query, in thousandths.
Cosine(c) ==
    LET sq == c.on * c.on + c.off * c.off
    IN IF sq = 0 THEN 0
       ELSE CHOOSE k \in 0..1000 : k * k * sq <= (1000 * c.on) * (1000 * c.on)
                                   /\ (k + 1) * (k + 1) * sq > (1000 * c.on) * (1000 * c.on)

\* What getRouterIndex hands to buildRouterIndex.
ShardInput(s) ==
    LET units == PartitionIntoUnits(Len(Events(s)), rxWorld.unitSize, NoKey(s))
    IN [terms |-> ToSet(DeriveDescriptors(s)), centroid |-> CentroidOf(Events(s)),
        units |-> IF rxWorld.unitSize = 0 THEN << >>
                  ELSE [u \in DOMAIN units |-> CentroidOf(SubSeq(Events(s), units[u].from, units[u].to))]]

\* buildRouterIndex keeps the terms and the centroid of an input.
RouterIndexShard(input) == [terms |-> input.terms, centroid |-> input.centroid, units |-> << >>]

\* Best unit where there are units, the mean otherwise.
EmbeddingLeg(shard) ==
    IF shard.units # << >> THEN Max({Cosine(shard.units[u]) : u \in DOMAIN shard.units})
    ELSE Cosine(shard.centroid)

LexTotal(s) == LexicalScore(rxEntry[s]) + (IF rxTable = << >> THEN 0 ELSE 6 * Matches(rxTable[s].terms))

\* Slip: the raw lexical score is added.
HybridScore_Raw(s) == 125 * LexTotal(s) + 2 * EmbeddingLeg(rxTable[s])
HybridScore(s) == Saturated(LexTotal(s)) + 2 * EmbeddingLeg(rxTable[s])

-----------------------------------------------------------------------------
\* Slip: the promise is cached when it settles.
GetRouterIndex_CachesLate ==
    IF rxIndex \in {"none", "building"}
    THEN rxIndex' = "building" /\ rxBuilds' = rxBuilds + 1 ELSE UNCHANGED <<rxIndex, rxBuilds>>

\* getRouterIndex: the cached promise, or a build whose promise is cached at once.
GetRouterIndex ==
    IF rxIndex = "none"
    THEN rxIndex' = "building" /\ rxBuilds' = rxBuilds + 1 ELSE UNCHANGED <<rxIndex, rxBuilds>>

\* warmRouterIndex: the ingest of the warm server starts the build (a later call joins it).
Warm ==
    /\ rxIndex # "off" /\ rxWorld.hybrid /\ rxBuilds = 0
    /\ GetRouterIndex
    /\ UNCHANGED <<rxWorld, rxEntry, rxTable, rxAsk>>

\* A query awaits the index; without the switch it ranks the entries at once.
RouteAsk(a) ==
    /\ rxIndex # "off" /\ rxEntry # << >> /\ rxAsk[a].pc = "idle"
    /\ IF rxWorld.hybrid
       THEN GetRouterIndex /\ rxAsk' = [rxAsk EXCEPT ![a].pc = "waiting"]
       ELSE /\ UNCHANGED <<rxIndex, rxBuilds>>
            /\ rxAsk' = [rxAsk EXCEPT ![a] = [pc |-> "scored", hybrid |-> << >>,
                                              lex |-> [s \in RxShards |-> LexicalScore(rxEntry[s])]]]
    /\ UNCHANGED <<rxWorld, rxEntry, rxTable>>

BuildDone ==
    /\ rxIndex = "building"
    /\ rxIndex' = "ready"
    /\ rxTable' = [s \in RxShards |-> RouterIndexShard(ShardInput(s))]
    /\ UNCHANGED <<rxWorld, rxEntry, rxBuilds, rxAsk>>

\* The embedding throws; the rejected promise stays cached.
BuildFails ==
    /\ rxIndex = "building"
    /\ rxIndex' = "failed"
    /\ UNCHANGED <<rxWorld, rxEntry, rxTable, rxBuilds, rxAsk>>

RankHybrid(a) ==
    /\ rxAsk[a].pc = "waiting" /\ rxIndex = "ready"
    /\ rxAsk' = [rxAsk EXCEPT ![a] = [pc |-> "scored", lex |-> [s \in RxShards |-> LexTotal(s)],
                                      hybrid |-> [s \in RxShards |-> HybridScore(s)]]]
    /\ UNCHANGED <<rxWorld, rxEntry, rxIndex, rxTable, rxBuilds>>

\* The query cannot be embedded: its candidates carry lexical scores.
FallBack(a) ==
    /\ rxAsk[a].pc = "waiting" /\ rxIndex = "ready"
    /\ rxAsk' = [rxAsk EXCEPT ![a] = [pc |-> "scored", hybrid |-> << >>,
                                      lex |-> [s \in RxShards |-> LexicalScore(rxEntry[s])]]]
    /\ UNCHANGED <<rxWorld, rxEntry, rxIndex, rxTable, rxBuilds>>

\* Every query that awaits a failed build fails, now and later.
Rejected(a) ==
    /\ rxAsk[a].pc = "waiting" /\ rxIndex = "failed"
    /\ rxAsk' = [rxAsk EXCEPT ![a].pc = "failed"]
    /\ UNCHANGED <<rxWorld, rxEntry, rxIndex, rxTable, rxBuilds>>

RxNext == \/ BuildDirectory \/ Warm \/ BuildDone \/ BuildFails
          \/ \E a \in RxAsks : RouteAsk(a) \/ RankHybrid(a) \/ FallBack(a) \/ Rejected(a)

\* The score the baseline holds against its RAG floor, and the floor, in thousandths:
\* converted whenever there is an index.
CandidateScore(a, s) == IF rxAsk[a].hybrid # << >> THEN rxAsk[a].hybrid[s] ELSE 250 * rxAsk[a].lex[s]
RagFloorThreshold == IF rxWorld.hybrid THEN FloorThreshold ELSE 4000

-----------------------------------------------------------------------------
Scored(a) == rxAsk[a].pc = "scored"

\* Warm-up and queries together start one build per corpus, and everyone who waits gets it.
IndexBuiltOnce ==
    /\ rxBuilds <= 1
    /\ rxIndex \in {"none", "building"} => \A a \in RxAsks : rxAsk[a].pc # "failed"

\* Units tile the events of a shard in order, none above the size, none across a topic,
\* and none smaller than it must be.
Tiles(units, n, size, key) ==
    /\ units = << >> <=> n = 0
    /\ n > 0 => units[1].from = 1 /\ units[Len(units)].to = n
    /\ \A u \in DOMAIN units :
         /\ units[u].from <= units[u].to /\ units[u].to - units[u].from < size
         /\ \A i, j \in units[u].from..units[u].to : key[i] = key[j]
         /\ u < Len(units) => /\ units[u + 1].from = units[u].to + 1
                              /\ \/ units[u].to - units[u].from + 1 = size
                                 \/ key[units[u].to] # key[units[u].to + 1]
UnitsTile ==
    rxIndex = "ready" =>
      \A s \in RxShards, size \in 1..3 : \A key \in {NoKey(s), TopicKey(s)} :
        Tiles(PartitionIntoUnits(Len(Events(s)), size, key), Len(Events(s)), size, key)

\* The RAG floor keeps its meaning when the router is swapped: a lexical score above 4
\* clears the converted threshold, and without likeness only such a score does.
ThresholdKept ==
    \A a \in RxAsks, s \in RxShards :
      Scored(a) /\ rxAsk[a].hybrid # << >> =>
        /\ rxAsk[a].lex[s] > 16 => rxAsk[a].hybrid[s] > FloorThreshold
        /\ Cosine(rxTable[s].centroid) = 0 /\ rxAsk[a].hybrid[s] > FloorThreshold => rxAsk[a].lex[s] > 16

\* A question made of one term that only one shard has is routed to that shard once
\* descriptors are written into the directory, however common the other words are.
Rivals(t, s) == {u \in ToSet(RxTerms) : Tf(u, s) > 0 /\ (ShardDf(u) = 1 \/ Tf(u, s) > Tf(t, s))}
RareTermRoutes ==
    \A a \in RxAsks, s \in RxShards, t \in ToSet(RxTerms) :
      /\ Scored(a) /\ rxWorld.enrich /\ rxWorld.query = {t}
      /\ Tf(t, s) > 0 /\ \A r \in RxShards \ {s} : Tf(t, r) = 0 /\ ~\E u \in ToSet(RxTerms) : Tf(u, r) > 0 /\ Alike(t, u)
      /\ Cardinality(Rivals(t, s)) <= MaxDescriptors
      => \A r \in RxShards \ {s} : rxAsk[a].lex[s] > rxAsk[a].lex[r]

\* "Convert the lexical threshold so the floor's firing semantics are preserved"
\* (csm.ts:1288): where no likeness speaks for a shard, the floor fires for it only on
\* a lexical score above 4.
FloorNeedsSignal ==
    \A a \in RxAsks, s \in RxShards :
      Scored(a) /\ CandidateScore(a, s) > RagFloorThreshold
        => rxAsk[a].lex[s] > 16 \/ (rxAsk[a].hybrid # << >> /\ Cosine(rxTable[s].centroid) > 0)

\* "When on, the router scores a shard by its BEST passage instead of its mean"
\* (csm.ts:1751): with units, the embedding leg of a shard is the likeness of its best unit.
BestUnit(s) == Max({Cosine(c) : c \in ToSet(ShardInput(s).units)})
BestPassageRanks ==
    rxIndex = "ready" /\ rxWorld.unitSize > 0 =>
      \A s \in RxShards : EmbeddingLeg(rxTable[s]) = BestUnit(s)

\* The router's index, from its build to the scores that are read from it.
RouterSound == IndexBuiltOnce /\ UnitsTile /\ ThresholdKept /\ RareTermRoutes
=============================================================================
