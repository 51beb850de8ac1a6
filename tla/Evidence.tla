------------------------------- MODULE Evidence -------------------------------
(***************************************************************************)
(* The retrieval half of the CSM baseline (src/eval/baselines/csm.ts):     *)
(* from the packet of ask() to the events the answering model reads.  The  *)
(* order of cited, recalled and timeline events passes six stages, each    *)
(* with its own switch, and is packed into the token budget.               *)
(*                                                                         *)
(* Events are named; ids ascend in corpus order.  A cosine is a small      *)
(* number, and a text is the set of bridge terms it contains.  A source    *)
(* without an event id is NoEvent, and an id no event has is a phantom.    *)
(***************************************************************************)
EXTENDS Selection, SequencesExt

CONSTANTS
    EvIds,          \* every id a packet, a recall or a timeline may name
    EvCorpus,       \* corpus.events: the ids in order
    EvShardOf,      \* the shard of every event
    EvCost,         \* the tokens of every event's line
    NoEvent,
    EvPackets,      \* bound: the sources of the packets explored
    EvRecalls,      \* bound: the recalls explored
    EvTimelines,    \* bound: the timelines explored
    EvCandidates,   \* bound: the candidates explored
    EvSims,         \* bound: the cosines explored
    EvTerms,        \* bound: the term sets of the events explored
    QueryTerms,     \* extractBridgeTerms(query.question)
    EvConfigs,      \* bound: the settings explored
    MinFromTopShard

EvEvents == ToSet(EvCorpus)
EvShards == {EvShardOf[e] : e \in EvEvents}
EvRecall == [shard : EvShards, support : Seq(EvIds)]
EvConfig == [floorK : Nat, unionK : Nat, minCos : Int, beatsBest : BOOLEAN, expandK : Nat, expandMax : Nat,
             lexicalK : Nat, lexicalMax : Nat, entityK : Nat, entityMax : Nat, budget : Nat, header : Nat]

ASSUME EvidenceConstants ==
    /\ EvCorpus \in Seq(EvIds) /\ IsInjective(EvCorpus) /\ MinFromTopShard \in Nat
    /\ EvShardOf \in [EvEvents -> EvShards] /\ EvCost \in [EvEvents -> Nat \ {0}]
    /\ NoEvent \notin EvEvents

\* What a query brings is well formed; what it says of events is free.
ASSUME EvidenceInputs ==
    /\ EvPackets \subseteq Seq(EvIds) /\ EvTimelines \subseteq Seq(EvIds) /\ EvRecalls \subseteq Seq(EvRecall)
    /\ EvCandidates \subseteq [shards : Seq(EvShards), confident : BOOLEAN]
    /\ EvSims \subseteq [EvEvents -> Int] /\ EvConfigs \subseteq EvConfig
    /\ IsFiniteSet(QueryTerms)
    /\ \A terms \in EvTerms : DOMAIN terms = EvEvents /\ \A e \in EvEvents : IsFiniteSet(terms[e])

VARIABLES
    evAsk,      \* the query's inputs: packet, recalls, timeline, candidates, ...
    evStage,    \* the stage that has run last
    evOrder,    \* augmentedRetrievalOrder
    floorAdded, \* embedFloorAddedEventIds
    evPacked,   \* packedEventIds
    evCites     \* the citations of the row

evidenceVars == <<evAsk, evStage, evOrder, floorAdded, evPacked, evCites>>

EvStages == {"asked", "base", "rag", "floor", "union", "expand", "lexical", "entity",
             "packed", "answered"}
EvIdle == /\ evAsk = [packet |-> << >>] /\ evStage = "answered" /\ evOrder = << >>
          /\ floorAdded = << >> /\ evPacked = << >> /\ evCites = {}

EvInit ==
    /\ \E packet \in EvPackets, recalls \in EvRecalls, timeline \in EvTimelines,
          cands \in EvCandidates, sim \in EvSims, terms \in EvTerms, config \in EvConfigs :
         evAsk = [packet |-> packet, recalls |-> recalls, timeline |-> timeline,
                  candidates |-> cands.shards, confident |-> cands.confident,
                  sim |-> sim, terms |-> terms, config |-> config]
    /\ evStage = "asked" /\ evOrder = << >> /\ floorAdded = << >>
    /\ evPacked = << >> /\ evCites = {}

-----------------------------------------------------------------------------
Known(ids) == ItemsAt(ids, {i \in DOMAIN ids : ids[i] \in EvEvents})
InShard(s) == ItemsAt(EvCorpus, {i \in DOMAIN EvCorpus : EvShardOf[EvCorpus[i]] = s})
Fresh(order, ids) == ItemsAt(ids, {i \in DOMAIN ids : ~Contains(order, ids[i])})

CorpusPos == [e \in EvEvents |-> CHOOSE i \in DOMAIN EvCorpus : EvCorpus[i] = e]

\* topKCosine: the best k by cosine, corpus order in ties.
TopKCosine(S, k) == Selected(S, evAsk.sim, CorpusPos, k)

CollectCited(packet) == DedupeInOrder(ItemsAt(packet, {i \in DOMAIN packet : packet[i] # NoEvent}))
CollectRecalled(recalls) ==
    DedupeInOrder(FlattenSeq([i \in DOMAIN recalls |-> recalls[i].support]))

\* Slip: only the events still missing are ranked.
ApplyFloor_RankMissing(order, k) ==
    LET ranked == TopKCosine(EvEvents, k - Len(order))
    IN FirstOf(Fresh(order, ranked), k - Len(order))

\* What the embedding floor appends to an order shorter than k.
ApplyFloor(order, k) ==
    LET ranked == TopKCosine(EvEvents, 3 * k)
    IN FirstOf(Fresh(order, ranked), k - Len(order))

\* Slip: the absolute floor alone decides.
UnionFloor_MinCosOnly(order) == evAsk.config.minCos

\* The cosine a global hit must reach to be put before the order.
UnionFloor(order) ==
    LET best == Max({0} \cup {evAsk.sim[e] : e \in ToSet(Known(order))})
    IN IF evAsk.config.beatsBest THEN Max({evAsk.config.minCos, best}) ELSE evAsk.config.minCos

ApplyUnion(order, k) ==
    LET near == TopKCosine(EvEvents, 3 * k)
        hits == ItemsAt(near, {i \in DOMAIN near : evAsk.sim[near[i]] >= UnionFloor(order)})
    IN FirstOf(Fresh(order, hits), k)

\* Slip: what is inserted overwrites as many events behind the foothold.
InsertGroup_Overwrites(order, g, max, perGroup) ==
    LET at == SelectLastInSeq(order, LAMBDA id : id = g.after)
        new == FirstOf(Fresh(order, g.ranked), Min({perGroup, max - Len(order)}))
    IN IF Len(order) >= max \/ at = 0 THEN order
       ELSE SubSeq(order, 1, at) \o new \o SubSeq(order, at + 1 + Len(new), Len(order))

\* Slip: the cap is looked at before a group and not inside it.
InsertGroup_CapPerGroup(order, g, max, perGroup) ==
    LET at == SelectLastInSeq(order, LAMBDA id : id = g.after)
    IN IF Len(order) >= max \/ at = 0 THEN order
       ELSE SubSeq(order, 1, at) \o FirstOf(Fresh(order, g.ranked), perGroup)
              \o SubSeq(order, at + 1, Len(order))

\* A group's new events go behind its foothold, up to both caps.
InsertGroup(order, g, max, perGroup) ==
    LET at == SelectLastInSeq(order, LAMBDA id : id = g.after)
        new == FirstOf(Fresh(order, g.ranked), Min({perGroup, max - Len(order)}))
    IN IF Len(order) >= max \/ at = 0 THEN order
       ELSE SubSeq(order, 1, at) \o new \o SubSeq(order, at + 1, Len(order))

\* Every group in turn, on what the groups before it made of the order.
ApplyExpansion(base, groups, max, perGroup) ==
    LET upto[n \in 0..Len(groups)] ==
          IF n = 0 THEN base ELSE InsertGroup(upto[n - 1], groups[n], max, perGroup)
    IN IF max <= Len(base) \/ perGroup = 0 THEN base ELSE upto[Len(groups)]

\* The shards of an order as its last events meet them: Map keeps a key's first place.
Touched(order) == DedupeInOrder([i \in DOMAIN Known(order) |-> EvShardOf[Known(order)[i]]])
LastOf(order, s) ==
    LET known == Known(order)
    IN known[Max({i \in DOMAIN known : EvShardOf[known[i]] = s})]

\* The shards to expand in: those the floor found first, then the router's and the recalls'.
SeedShards(order) ==
    DedupeInOrder([i \in DOMAIN floorAdded |-> EvShardOf[floorAdded[i]]]
                  \o FirstOf(evAsk.candidates, 1)
                  \o [i \in DOMAIN evAsk.recalls |-> evAsk.recalls[i].shard]
                  \o evAsk.candidates \o Touched(order))

SemanticGroups(order, k) ==
    LET seeds == SeedShards(order)
        here == ItemsAt(seeds, {i \in DOMAIN seeds : Contains(Touched(order), seeds[i])})
    IN [i \in DOMAIN here |->
          [after |-> LastOf(order, here[i]),
           ranked |-> TopKCosine(ToSet(InShard(here[i])), 4 * k + 4)]]

\* The best events of S by terms shared; ties go to the later id.
ByTerms(S, terms, limit) ==
    LET score == [e \in S |-> Cardinality(evAsk.terms[e] \cap terms)]
        later == [e \in S |-> Len(EvCorpus) - CorpusPos[e]]
    IN Selected({e \in S : score[e] > 0}, score, later, limit)

Nonempty(groups) == ItemsAt(groups, {i \in DOMAIN groups : groups[i].ranked # << >>})

LexicalGroups(order) ==
    IF QueryTerms = {} THEN << >>
    ELSE Nonempty([i \in DOMAIN Touched(order) |->
           LET s == Touched(order)[i]
           IN [after |-> LastOf(order, s), ranked |-> ByTerms(ToSet(InShard(s)), QueryTerms, 16)]])

\* Slip: the bridge looks through the whole corpus.
EntityGroups_AnyShard(order) ==
    LET footholds == Known(order)
    IN Nonempty([i \in DOMAIN footholds |->
         LET e == footholds[i]
         IN [after |-> e, ranked |-> ByTerms(EvEvents \ {e}, QueryTerms \cup evAsk.terms[e], 24)]])

EntityGroups(order) ==
    LET footholds == Known(order)
    IN Nonempty([i \in DOMAIN footholds |->
         LET e == footholds[i]
         IN [after |-> e, ranked |-> ByTerms(ToSet(InShard(EvShardOf[e])) \ {e},
                                             QueryTerms \cup evAsk.terms[e], 24)]])

-----------------------------------------------------------------------------
Stage(from, to) == evStage = from /\ evStage' = to

\* Cited events first, then recalled ones, then the chronicle's.
BaseOrder ==
    /\ Stage("asked", "base")
    /\ evOrder' = DedupeInOrder(CollectCited(evAsk.packet) \o CollectRecalled(evAsk.recalls)
                                \o evAsk.timeline)
    /\ UNCHANGED <<evAsk, floorAdded, evPacked, evCites>>

\* Slip: events that are there already are appended again.
RagFloor_Again ==
    /\ Stage("base", "rag")
    /\ evOrder' = IF evAsk.candidates # << >> /\ evAsk.confident /\ Len(evOrder) < MinFromTopShard
                  THEN evOrder \o FirstOf(InShard(evAsk.candidates[1]), MinFromTopShard - Len(evOrder))
                  ELSE evOrder
    /\ UNCHANGED <<evAsk, floorAdded, evPacked, evCites>>

\* A confident router fills a short order from its first shard.
RagFloor ==
    /\ Stage("base", "rag")
    /\ evOrder' = IF evAsk.candidates # << >> /\ evAsk.confident /\ Len(evOrder) < MinFromTopShard
                  THEN evOrder \o FirstOf(Fresh(evOrder, InShard(evAsk.candidates[1])),
                                       MinFromTopShard - Len(evOrder))
                  ELSE evOrder
    /\ UNCHANGED <<evAsk, floorAdded, evPacked, evCites>>

\* A starved order is filled with the nearest events of the whole corpus.
EmbedFloor ==
    /\ Stage("rag", "floor")
    /\ floorAdded' = IF Len(evOrder) < evAsk.config.floorK
                     THEN ApplyFloor(evOrder, evAsk.config.floorK) ELSE << >>
    /\ evOrder' = evOrder \o floorAdded'
    /\ UNCHANGED <<evAsk, evPacked, evCites>>

\* The needle net: the nearest events of the corpus go to the head.
EmbedUnion ==
    /\ Stage("floor", "union")
    /\ evOrder' = IF evAsk.config.unionK > 0
                  THEN ApplyUnion(evOrder, evAsk.config.unionK) \o evOrder ELSE evOrder
    /\ UNCHANGED <<evAsk, floorAdded, evPacked, evCites>>

ShardExpand ==
    /\ Stage("union", "expand")
    /\ evOrder' = ApplyExpansion(evOrder, SemanticGroups(evOrder, evAsk.config.expandK),
                                 evAsk.config.expandMax, evAsk.config.expandK)
    /\ UNCHANGED <<evAsk, floorAdded, evPacked, evCites>>

LexicalBridge ==
    /\ Stage("expand", "lexical")
    /\ evOrder' = ApplyExpansion(evOrder, LexicalGroups(evOrder),
                                 evAsk.config.lexicalMax, evAsk.config.lexicalK)
    /\ UNCHANGED <<evAsk, floorAdded, evPacked, evCites>>

EntityBridge ==
    /\ Stage("lexical", "entity")
    /\ evOrder' = ApplyExpansion(evOrder, EntityGroups(evOrder),
                                 evAsk.config.entityMax, evAsk.config.entityK)
    /\ UNCHANGED <<evAsk, floorAdded, evPacked, evCites>>

\* Slip: a line that does not fit is left out and the next one tried.
PackContext_Skips ==
    /\ Stage("entity", "packed")
    /\ LET Take(acc, e) == IF acc.used + EvCost[e] > evAsk.config.budget THEN acc
                           ELSE [used |-> acc.used + EvCost[e], ids |-> Append(acc.ids, e)]
       IN evPacked' = FoldLeft(Take, [used |-> evAsk.config.header, ids |-> << >>],
                               Known(evOrder)).ids
    /\ UNCHANGED <<evAsk, evOrder, floorAdded, evCites>>

\* The header, then the lines in order until one does not fit.
PackContext ==
    /\ Stage("entity", "packed")
    /\ evPacked' = PackToBudget(Known(evOrder), EvCost, evAsk.config.budget, evAsk.config.header)
    /\ UNCHANGED <<evAsk, evOrder, floorAdded, evCites>>

\* Slip: the fallback cites what was retrieved, read or not.
EvAnswer_AllRetrieved ==
    /\ Stage("packed", "answered")
    /\ \E cited \in {{}, ToSet(FirstOf(evPacked, 1))}, usable \in BOOLEAN :
         evCites' = IF usable /\ cited = {} THEN ToSet(evOrder) ELSE cited
    /\ UNCHANGED <<evAsk, evOrder, floorAdded, evPacked>>

\* The answering model cites something, or nothing and the row takes what it read.
EvAnswer ==
    /\ Stage("packed", "answered")
    /\ \E cited \in {{}, ToSet(FirstOf(evPacked, 1))}, usable \in BOOLEAN :
         evCites' = IF usable /\ cited = {}
                    THEN ToSet(IF evPacked # << >> THEN evPacked ELSE evOrder) ELSE cited
    /\ UNCHANGED <<evAsk, evOrder, floorAdded, evPacked>>

EvNext == \/ BaseOrder \/ RagFloor \/ EmbedFloor \/ EmbedUnion \/ ShardExpand
          \/ LexicalBridge \/ EntityBridge \/ PackContext \/ EvAnswer

-----------------------------------------------------------------------------
\* No event is retrieved twice, whatever stages add it, and only events are packed.
\* It would take two places of the answering model's budget, and precision counts
\* it twice.
EvidenceOnce == /\ evStage \in EvStages /\ IsInjective(evOrder) /\ IsInjective(evPacked)
                /\ ToSet(evPacked) \subseteq EvEvents

\* Once the embedding floor has run, the order has k ids or the whole corpus is in it:
\* what the ranking spends on events that are there already never costs a place.
FloorReached ==
    evStage = "floor" => \/ Len(evOrder) >= evAsk.config.floorK
                         \/ EvEvents \subseteq ToSet(evOrder)

\* With the gate on, nothing is put before the pipeline's events that is less like the
\* query than the best of them; otherwise a question without an answer is given one.
NetOnConfidence ==
    [][evStage = "floor" /\ evAsk.config.beatsBest =>
         \A e \in ToSet(evOrder') \ ToSet(evOrder), d \in ToSet(Known(evOrder)) :
            evAsk.sim[e] >= evAsk.sim[d]]_evidenceVars

\* Every stage only inserts: what came before keeps its order, so the events ask()
\* cited are never pushed behind one another by a later stage.
StagesOnlyInsert ==
    [][evStage # "asked" =>
         ItemsAt(evOrder', {i \in DOMAIN evOrder' : Contains(evOrder, evOrder'[i])}) = evOrder]_evidenceVars

\* An event the expansions insert stands behind a foothold of its own shard, with no
\* foothold of another shard between them.
Expands == evStage \in {"union", "expand", "lexical"}
BehindItsFoothold ==
    \A i \in DOMAIN evOrder' : ~Contains(evOrder, evOrder'[i]) =>
       LET at == SelectLastInSubSeq(evOrder', 1, i, LAMBDA id : Contains(evOrder, id))
       IN /\ at > 0 /\ evOrder'[at] \in EvEvents
          /\ EvShardOf[evOrder'[at]] = EvShardOf[evOrder'[i]]
ExpansionLocal ==
    [][Expands => BehindItsFoothold]_evidenceVars

\* An expansion stops at its total: the order is as long as before or within the cap.
CapOf(stage) == CASE stage = "union" -> evAsk.config.expandMax
                  [] stage = "expand" -> evAsk.config.lexicalMax
                  [] OTHER -> evAsk.config.entityMax
ExpansionCapped ==
    [][Expands /\ evOrder' # evOrder => Len(evOrder') <= CapOf(evStage)]_evidenceVars

\* The tokens of the lines of some events.
LinesCost(ids) == LET sum[n \in 0..Len(ids)] == IF n = 0 THEN 0 ELSE sum[n - 1] + EvCost[ids[n]] IN sum[Len(ids)]

\* What is read is a prefix of what was retrieved: no event is dropped for a later one,
\* and the lines fit beside the header.
PackedPrefix ==
    evStage \in {"packed", "answered"} =>
      /\ IsPrefix(evPacked, Known(evOrder))
      /\ evPacked # << >> => evAsk.config.header + LinesCost(evPacked) <= evAsk.config.budget

\* A row that cites for a model that did not cites what the model read; only a row whose
\* model read nothing cites what was merely retrieved.
CitesWhatWasRead ==
    evStage = "answered" /\ evPacked # << >> => evCites \subseteq ToSet(evPacked)

\* What is retrieved, read and cited, after every stage.
EvidenceSound == EvidenceOnce /\ FloorReached /\ PackedPrefix /\ CitesWhatWasRead

\* What a stage may do to the order: insert only, near what it expands, within its cap,
\* and on confidence where the gate asks for it.
StagesDisciplined == StagesOnlyInsert /\ ExpansionLocal /\ ExpansionCapped /\ NetOnConfidence
=============================================================================
