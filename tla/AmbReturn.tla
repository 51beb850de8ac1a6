------------------------------ MODULE AmbReturn ------------------------------
(***************************************************************************)
(* What the AMB bridge returns for one query                               *)
(* (src/scripts/amb-csm-retrieve.ts, src/src/eval/ambReturnRank.ts):       *)
(* documents become events and virtual shards; the retrieved ids are       *)
(* repaired, widened or reranked and cut; the capsule is chosen among the  *)
(* write-time artifacts, the timeline and a digest of evidence; the        *)
(* standing levers are folded into it; and the bill is added up.           *)
(*                                                                         *)
(* An event is the place of its turn in the scope's documents; a negative  *)
(* number is an id that resolves to no event (a bare "turn-0").  A shard   *)
(* is 10 * document + chunk: its number orders like its name.              *)
(***************************************************************************)
EXTENDS Selection, SequencesExt

CONSTANTS
    ArMemories,   \* bound: the scope's turns and the size of virtual shards
    ArQueries,    \* bound: words, intent, segments of "between .. and ..", k
    ArFinds,      \* bound: retrieved and packed ids, length of the timeline
    ArLevers,     \* bound: the flags, and what the server passes along
    SessionOf,    \* sessionKeyOfShard, per document
    LongWords,    \* the words of seven letters and more
    Limits        \* the numeric settings, by name

ASSUME ReturnConstants == Limits \in [{"summaryK", "reasoningK", "window", "buckets", "perBucket",
    "coverageK", "topK", "summarySnippets", "reasoningSnippets", "snippets", "pinned", "rawDocs",
    "returnTokens", "sessions", "sessionLines", "lean"} -> Nat]

VARIABLES
    arAsk,      \* the memory, query, find and levers of this request
    arStage,
    arCorpus,   \* the events: shard, turn, words, tokens, user, dates, cue, preamble, salience
    arBase,     \* the ids retrieval found, repaired
    arIds,      \* the ids that are returned
    arDocs,     \* the documents they become: event, preamble, whole
    arCapsule,  \* the parts of the capsule, in order
    arBill      \* what the row's tokens include

returnVars == <<arAsk, arStage, arCorpus, arBase, arIds, arDocs, arCapsule, arBill>>

ArBlank == /\ arCorpus = << >> /\ arBase = << >> /\ arIds = << >> /\ arDocs = << >>
           /\ arCapsule = << >> /\ arBill = {}
ArIdle == arAsk = << >> /\ arStage = "idle" /\ ArBlank
ArInit == arAsk \in [memory : ArMemories, query : ArQueries, find : ArFinds, levers : ArLevers]
          /\ arStage = "asked" /\ ArBlank

Query == arAsk.query
On(lever) == lever \in arAsk.levers
Means(kind) == kind \in Query.intent

-----------------------------------------------------------------------------
TurnsOf(doc) == {i \in DOMAIN arAsk.memory.turns : arAsk.memory.turns[i].doc = doc}

\* A document of more turns than shardSize is split into chunks of that many.
ShardOf(i) ==
    LET doc == arAsk.memory.turns[i].doc
        size == arAsk.memory.shardSize
        before == Cardinality({j \in TurnsOf(doc) : j < i})
    IN 10 * doc + (IF size > 0 /\ Cardinality(TurnsOf(doc)) > size THEN before \div size ELSE 0)

BuildCorpus ==
    /\ arStage = "asked"
    /\ arStage' = "loaded"
    /\ arCorpus' = [i \in DOMAIN arAsk.memory.turns |-> arAsk.memory.turns[i] @@ [shard |-> ShardOf(i)]]
    /\ UNCHANGED <<arAsk, arBase, arIds, arDocs, arCapsule, arBill>>

Places == DOMAIN arCorpus
Shards == {arCorpus[i].shard : i \in Places}
Resolved(ids) == SelectSeq(ids, LAMBDA i : i \in Places)
Earlier(i, j) == \/ arCorpus[i].turn < arCorpus[j].turn
                 \/ arCorpus[i].turn = arCorpus[j].turn /\ i < j
InTurnOrder(S) == SetToSortSeq(S, Earlier)
InShardOrder(S) == SetToSortSeq(S, LAMBDA i, j : \/ arCorpus[i].shard < arCorpus[j].shard
                                                 \/ arCorpus[i].shard = arCorpus[j].shard /\ Earlier(i, j))

Weight(word) == IF word \in LongWords THEN 2 ELSE 1
CoverageScore(i, words) ==
    MapThenSumSet(Weight, arCorpus[i].words \cap words) + (IF arCorpus[i].dates # {} THEN 1 ELSE 0)

\* Slip: one list or the other, as before the repair.
RepairIds_WholeList(found) ==
    IF found.retrieved # << >> THEN DedupeInOrder(found.retrieved) ELSE found.packed

\* Ids that resolve, retrieved before packed; without the repair, one list or the other.
RepairIds(found) ==
    IF On("repair") THEN DedupeInOrder(Resolved(found.retrieved) \o Resolved(found.packed))
    ELSE IF found.retrieved # << >> THEN found.retrieved ELSE found.packed

Retrieve ==
    /\ arStage = "loaded"
    /\ arStage' = "found"
    /\ arBase' = RepairIds(arAsk.find)
    /\ arBill' = {"pipeline"}
    /\ UNCHANGED <<arAsk, arCorpus, arIds, arDocs, arCapsule>>

-----------------------------------------------------------------------------
CeilingOf(a, b) == (a + b - 1) \div b
Larger(a, b) == IF a < b THEN b ELSE a
Smaller(a, b) == IF a < b THEN a ELSE b
TurnsIn(s) == InTurnOrder({i \in Places : arCorpus[i].shard = s})

\* expandChronologicalNeighbors: the turns within the window, in the shard of each id.
Neighbors(ids) ==
    LET Around(i) ==
          LET turns == TurnsIn(arCorpus[i].shard)
              at == CHOOSE n \in DOMAIN turns : turns[n] = i
          IN SelectSeq(SubSeq(turns, Larger(1, at - Limits.window), Smaller(Len(turns), at + Limits.window)),
                       LAMBDA j : j # i)
    IN FlattenSeq([n \in DOMAIN Resolved(ids) |-> Around(Resolved(ids)[n])])

\* The best of a bucket of turns.
TopOfBucket(bucket) ==
    LET scored == {i \in bucket : CoverageScore(i, Query.words) > 0}
    IN Selected(scored, [i \in scored |-> CoverageScore(i, Query.words)],
                [i \in scored |-> arCorpus[i].turn], Limits.perBucket)

BucketsOf(s) ==
    LET size == CeilingOf(Len(TurnsIn(s)), Limits.buckets)
    IN [b \in 1..CeilingOf(Len(TurnsIn(s)), size) |->
          TopOfBucket(ToSet(SubSeq(TurnsIn(s), (b - 1) * size + 1, Smaller(b * size, Len(TurnsIn(s))))))]

\* Over all shards in order, until max ids are there.
ChronologicalCoverage(max) ==
    LET buckets == FlattenSeq([n \in DOMAIN SetToSortSeq(Shards, <) |-> BucketsOf(SetToSortSeq(Shards, <)[n])])
    IN DedupeInOrder(FoldLeft(LAMBDA ids, b : IF Len(ids) >= max THEN ids ELSE ids \o b, << >>, buckets))

ReturnMax ==
    IF Means("broad") THEN Larger(Query.k, Limits.summaryK)
    ELSE IF Means("temporal") \/ Means("contradiction") THEN Larger(Query.k, Limits.reasoningK)
    ELSE Query.k

\* Slip: what widens the selection comes before what was retrieved.
SelectEvidence_Leads(ids) ==
    LET wide == IF Query.intent \cap {"temporal", "contradiction", "broad"} # {}
                THEN ChronologicalCoverage(ReturnMax) ELSE << >>
    IN SubSeq(DedupeInOrder(wide \o ids), 1, Smaller(ReturnMax, Len(DedupeInOrder(wide \o ids))))

\* selectAmbEvidenceIds: the ids, widened for the questions that need it, users' turns
\* first where the user counts, and cut.
SelectEvidence(ids) ==
    LET near == IF Means("temporal") \/ Means("contradiction") THEN Neighbors(ids) ELSE << >>
        wide == IF Query.intent \cap {"temporal", "contradiction", "broad"} # {}
                THEN ChronologicalCoverage(ReturnMax) ELSE << >>
        all == DedupeInOrder(ids \o near \o wide)
        Users(i) == i \in Places /\ arCorpus[i].user
        Others(i) == ~Users(i)
        picked == IF Means("count") /\ Means("mine") THEN SelectSeq(all, Users) \o SelectSeq(all, Others)
                  ELSE all
    IN SubSeq(picked, 1, Smaller(ReturnMax, Len(picked)))

TokensOf(i) == IF i \in Places THEN Larger(1, arCorpus[i].tokens) ELSE 1
WordsOf(i) == IF i \in Places THEN arCorpus[i].words ELSE {}

\* One round of greedyCoverageOrder: the first id with the most new words for its length,
\* the length to the power 1 for an ordering question and 1/2 for the others.
GreedyRound(acc) ==
    LET Gain(i) == MapThenSumSet(LAMBDA w : IF w \in Query.words THEN 4 ELSE 1, WordsOf(i) \ acc.covered)
        Better(i, j) == IF Means("temporal") \/ Means("contradiction")
                        THEN Gain(i) * TokensOf(j) > Gain(j) * TokensOf(i)
                        ELSE Gain(i) * Gain(i) * TokensOf(j) > Gain(j) * Gain(j) * TokensOf(i)
        best == CHOOSE n \in DOMAIN acc.left : \A m \in DOMAIN acc.left :
                  IF m < n THEN Better(acc.left[n], acc.left[m]) ELSE ~Better(acc.left[m], acc.left[n])
    IN [left |-> RemoveAt(acc.left, best), out |-> Append(acc.out, acc.left[best]),
        covered |-> acc.covered \cup WordsOf(acc.left[best])]

CoverageOrder(ids) ==
    FoldLeft(LAMBDA acc, n : GreedyRound(acc), [left |-> ids, out |-> << >>, covered |-> {}], ids).out

\* Slip: a first id that does not fit leaves nothing.
PackReturn_Empty(ids) ==
    PackToBudget(ids, [i \in ToSet(ids) |-> TokensOf(i)], Limits.returnTokens, 0)

\* The order's prefix that fits; the first id always does.
PackReturn(ids) ==
    LET fits == PackToBudget(ids, [i \in ToSet(ids) |-> TokensOf(i)], Limits.returnTokens, 0)
    IN IF fits = << >> /\ ids # << >> THEN <<Head(ids)>> ELSE fits

\* What the server passes: a registry from the fold or from the query's intent.
RegistryThere == On("folded") \/ On("facts")

\* Slip: a registry that is folded in shrinks the raw documents as one that replaces does.
Leads_FoldToo ==
    \/ (On("synth") /\ Query.intent \cap {"broad", "temporal", "contradiction"} # {})
    \/ On("observation")
    \/ RegistryThere

\* The organized memory is the answer, and only a few raw documents follow.
Leads ==
    \/ (On("synth") /\ Query.intent \cap {"broad", "temporal", "contradiction"} # {})
    \/ On("observation")
    \/ RegistryThere /\ ~On("fold")

CoverageFired == arAsk.find.timeline > 0

SelectIds ==
    /\ arStage = "found"
    /\ arStage' = "selected"
    /\ LET ordered == IF On("rerank") THEN CoverageOrder(DedupeInOrder(arBase)) ELSE arBase
           ids == DedupeInOrder(ordered)
       IN arIds' = IF Leads THEN SubSeq(ids, 1, Smaller(Limits.rawDocs, Len(ids)))
                   ELSE IF CoverageFired /\ On("rerank") THEN PackReturn(CoverageOrder(ids))
                   ELSE IF CoverageFired THEN SubSeq(ids, 1, Smaller(ReturnMax, Len(ids)))
                   ELSE SelectEvidence(arBase)
    /\ UNCHANGED <<arAsk, arCorpus, arBase, arDocs, arCapsule, arBill>>

\* buildLeanDocs: the first k, each distinct preamble once, the body whole or an excerpt.
LeanDocs(ids, k) ==
    LET kept == IF k = 0 THEN ids ELSE SubSeq(ids, 1, Smaller(k, Len(ids)))
    IN [n \in DOMAIN kept |->
          [event |-> kept[n], whole |-> ~On("excerpt"),
           preamble |-> ~On("dedupe") \/ \A m \in 1..(n - 1) :
                          arCorpus[kept[m]].preamble # arCorpus[kept[n]].preamble]]

Render ==
    /\ arStage = "selected"
    /\ arStage' = "rendered"
    /\ arDocs' = LeanDocs(Resolved(arIds), IF On("lean") THEN Limits.lean ELSE 0)
    /\ UNCHANGED <<arAsk, arCorpus, arBase, arIds, arCapsule, arBill>>

-----------------------------------------------------------------------------
TopCoverage ==
    LET scored == {i \in Places : CoverageScore(i, Query.words) > 0}
        place == InShardOrder(scored)
    IN Selected(scored, [i \in scored |-> CoverageScore(i, Query.words)],
                [i \in scored |-> CHOOSE n \in DOMAIN place : place[n] = i], Limits.topK)

\* Round(a / b) for a, b > 0, halves up.
RoundedTo(a, b) == (2 * a + b) \div (2 * b)

\* Slip: the first ones, and the later turns are never seen.
Spread_Head(events, limit) == SubSeq(events, 1, Smaller(limit, Len(events)))

\* spreadAcrossTimeline: evenly over the events, topped up from the front.
Spread(events, limit) ==
    LET at == {IF limit = 1 THEN 1 ELSE RoundedTo(n * (Len(events) - 1), limit - 1) + 1 : n \in 0..(limit - 1)}
        left == SelectSeq(events, LAMBDA i : \A n \in at : events[n] # i)
        more == SubSeq(left, 1, limit - Cardinality(at))
    IN IF Len(events) <= limit THEN events
       ELSE IF limit = 0 THEN << >>
       ELSE InShardOrder({events[n] : n \in at} \cup ToSet(more))

\* The best are pinned, the rest spread over what is left.
BroadSummary(events, limit) ==
    LET scored == {n \in DOMAIN events : CoverageScore(events[n], Query.words) > 0}
        best == Selected(scored, [n \in scored |-> CoverageScore(events[n], Query.words)],
                         [n \in scored |-> arCorpus[events[n]].turn * 100 + n], Smaller(Limits.pinned, limit))
        pinned == {events[n] : n \in ToSet(best)}
        rest == SelectSeq(events, LAMBDA i : i \notin pinned)
    IN IF Len(events) <= limit THEN events
       ELSE InShardOrder(ToSet(Spread(rest, limit - Cardinality(pinned))) \cup pinned)

\* Dated turns first, then by score, users' turns before answers, then by turn.
TemporalEvidence(events, limit) ==
    LET keep == {n \in DOMAIN events : CoverageScore(events[n], Query.words) > 0}
        rank == [n \in keep |-> 100 * Cardinality(arCorpus[events[n]].dates)
                                + 2 * CoverageScore(events[n], Query.words)
                                + (IF arCorpus[events[n]].user THEN 1 ELSE 0)]
        best == Selected(keep, rank, [n \in keep |-> arCorpus[events[n]].turn * 100 + n], limit)
    IN [n \in DOMAIN best |-> events[best[n]]]

\* One anchor per date of an event: by score, then time, then as collected.
Anchored(events) ==
    LET all == FlattenSeq([n \in DOMAIN events |->
                 [m \in DOMAIN SetToSortSeq(arCorpus[events[n]].dates, <) |->
                    [event |-> events[n], time |-> SetToSortSeq(arCorpus[events[n]].dates, <)[m]]]])
        order == Ranked(DOMAIN all, [n \in DOMAIN all |-> CoverageScore(all[n].event, Query.words)],
                        [n \in DOMAIN all |-> all[n].time * 100 + n])
    IN [n \in DOMAIN order |-> all[order[n]]]

\* The first two anchors, in order, of two events and two dates.
TopPair(anchors) ==
    LET pairs == {p \in (DOMAIN anchors) \X (DOMAIN anchors) :
                    /\ p[1] < p[2] /\ anchors[p[1]].event # anchors[p[2]].event
                    /\ anchors[p[1]].time # anchors[p[2]].time}
    IN IF pairs = {} THEN << >>
       ELSE LET p == CHOOSE p \in pairs : \A o \in pairs : p[1] < o[1] \/ (p[1] = o[1] /\ p[2] <= o[2])
            IN <<anchors[p[1]], anchors[p[2]]>>

\* The best anchor, if any, for the words of one segment of the question.
AnchorFor(anchors, words) ==
    LET fit == {n \in DOMAIN anchors : CoverageScore(anchors[n].event, words) > 0}
    IN IF fit = {} THEN {}
       ELSE {anchors[Head(Ranked(fit, [n \in fit |-> CoverageScore(anchors[n].event, words)], [n \in fit |-> n]))]}

\* Slip: segments that match no two dates leave no calculation.
PairOf_SegmentsOnly(anchors) ==
    IF Query.segments = << >> THEN TopPair(anchors)
    ELSE LET first == AnchorFor(anchors, Query.segments[1])
             others == SelectSeq(anchors, LAMBDA a : \A f \in first : a.event # f.event)
             second == AnchorFor(others, Query.segments[2])
         IN IF \E f \in first, s \in second : f.time # s.time
            THEN <<CHOOSE f \in first : TRUE, CHOOSE s \in second : TRUE>>
            ELSE << >>

\* One anchor per segment of the question, or the top pair.
PairOf(anchors) ==
    IF Query.segments = << >> THEN TopPair(anchors)
    ELSE LET first == AnchorFor(anchors, Query.segments[1])
             others == SelectSeq(anchors, LAMBDA a : \A f \in first : a.event # f.event)
             second == AnchorFor(others, Query.segments[2])
         IN IF \E f \in first, s \in second : f.time # s.time
            THEN <<CHOOSE f \in first : TRUE, CHOOSE s \in second : TRUE>>
            ELSE TopPair(anchors)

\* The line of a temporal question, if two dates can be had: the earlier anchor, the later
\* one, the days between.
RelationLines(events) ==
    {LET first == IF pair[1].time <= pair[2].time THEN 1 ELSE 2
     IN [from |-> pair[first], to |-> pair[3 - first], days |-> pair[3 - first].time - pair[first].time] :
        pair \in {PairOf(anchors) : anchors \in {Anchored(events)}} \ {<< >>}}

SnippetLimit == IF Means("broad") THEN Limits.summarySnippets
                ELSE IF Means("temporal") \/ Means("contradiction") THEN Limits.reasoningSnippets
                ELSE Limits.snippets

\* The events a digest of evidence is made from: the whole memory's for a summary.
Summarized ==
    LET over == ToSet(ChronologicalCoverage(Limits.coverageK)) \cup ToSet(TopCoverage)
    IN IF Means("broad") THEN BroadSummary(InShardOrder(over), SnippetLimit)
       ELSE IF Means("temporal") THEN TemporalEvidence(Resolved(arIds), SnippetLimit)
       ELSE Resolved(arIds)

\* buildEvidenceCapsule: a calculation if there is one, then the events that say something.
EvidenceDigest(events) ==
    LET wanted == \/ Query.intent \cap {"broad", "temporal", "contradiction"} # {}
                  \/ Means("count") /\ Means("mine")
        Says(i) == /\ Means("count") /\ Means("mine") => arCorpus[i].user
                   /\ \/ Means("broad") \/ CoverageScore(i, Query.words) > 0
                      \/ Means("contradiction") /\ arCorpus[i].cue
        lines == IF Means("temporal") /\ ~Means("contradiction") THEN RelationLines(events) ELSE {}
        Room(line) == Larger(1, SnippetLimit - Cardinality(line))
        Digest(line, said) == [line |-> line, events |-> SubSeq(said, 1, Smaller(Len(said), Room(line)))]
    IN IF ~wanted \/ (Means("abstain") /\ ~Means("contradiction")) THEN {}
       ELSE {digest \in {Digest(line, said) : line \in {lines}, said \in {SelectSeq(events, Says)}} :
               digest.line # {} \/ digest.events # << >>}

\* One part leads: the registry that replaces, the Observation, the organized memory, the
\* timeline, or the digest of evidence if there is any.
LeadingPart ==
    IF RegistryThere /\ ~On("fold") THEN <<"registry">>
    ELSE IF On("observation") THEN <<"observation">>
    ELSE IF On("synth") /\ Query.intent \cap {"broad", "temporal", "contradiction"} # {} THEN <<"organized">>
    ELSE IF CoverageFired THEN <<"timeline">>
    ELSE IF \E events \in {Summarized} : EvidenceDigest(events) # {} THEN <<"evidence">> ELSE << >>

\* Slip: the organized memory is billed and the builds that lead are not.
BillOf_QueryTime(part) == IF part = <<"organized">> THEN {"organized"} ELSE {}

\* What the leading part cost, and the builds this query paid for: the Observation's when it
\* leads, the registry's when it replaces.
BillOf(part) ==
    (IF part = <<"organized">> THEN {"organized"} ELSE {})
    \cup (IF part = <<"observation">> /\ On("observation paid") THEN {"observation"} ELSE {})
    \cup (IF part = <<"registry">> /\ On("facts paid") THEN {"facts"} ELSE {})

Lead ==
    /\ arStage = "rendered"
    /\ arStage' = "led"
    /\ \E part \in {LeadingPart} : arCapsule' = part /\ arBill' = arBill \cup BillOf(part)
    /\ UNCHANGED <<arAsk, arCorpus, arBase, arIds, arDocs>>

-----------------------------------------------------------------------------
SessionEvents(s) == {i \in Places : SessionOf[arCorpus[i].doc] = s}
FirstTurn(s) == Min({arCorpus[i].turn : i \in SessionEvents(s)})

\* The sessions in the order of their first turns.
SessionOrder ==
    SetToSortSeq({SessionOf[arCorpus[i].doc] : i \in Places},
                 LAMBDA s, t : \/ FirstTurn(s) < FirstTurn(t)
                               \/ FirstTurn(s) = FirstTurn(t) /\ s < t)

\* Slip: the lines of a card are the most salient turns, the first or not.
Card_Salient(s) ==
    LET top == Selected(SessionEvents(s), [i \in SessionEvents(s) |-> arCorpus[i].salience],
                        [i \in SessionEvents(s) |-> i], Limits.sessionLines)
    IN top

\* The session's first turn and its most salient others, in the order of their turns.
Card(s) ==
    LET first == Head(InTurnOrder(SessionEvents(s)))
        rest == SessionEvents(s) \ {first}
        top == Selected(rest, [i \in rest |-> arCorpus[i].salience], [i \in rest |-> i], Limits.sessionLines - 1)
    IN <<first>> \o InTurnOrder(ToSet(top))

\* buildSessionDigests: a card for each session, in order, up to a number of them.
SessionDigests ==
    LET kept == SubSeq(SessionOrder, 1, Smaller(Len(SessionOrder), Limits.sessions))
    IN [n \in DOMAIN kept |-> Card(kept[n])]

\* The profile and the folded registry go before what leads, the session cards behind it.
FoldLevers ==
    /\ arStage = "led"
    /\ arStage' = "done"
    /\ LET profiled == IF On("profile") THEN <<"profile">> \o arCapsule ELSE arCapsule
           valued == IF On("fold") /\ RegistryThere THEN <<"values">> \o profiled ELSE profiled
       IN arCapsule' = IF On("digests") /\ Places # {} THEN valued \o <<"sessions">> ELSE valued
    /\ UNCHANGED <<arAsk, arCorpus, arBase, arIds, arDocs, arBill>>

ArNext == BuildCorpus \/ Retrieve \/ SelectIds \/ Render \/ Lead \/ FoldLevers

-----------------------------------------------------------------------------
\* With the repair every returned id is a document's, and no id that retrieval found gives
\* way to one that only widens the selection; nothing is returned twice.
FoundFirst ==
    arStage = "selected" /\ On("repair") =>
      /\ ToSet(arIds) \subseteq Places /\ IsInjective(arIds)
      /\ LET found == Places \cap (ToSet(arAsk.find.retrieved) \cup ToSet(arAsk.find.packed))
         IN Means("count") \/ ToSet(arIds) \subseteq found \/ found \subseteq ToSet(arIds)

\* A memory that has anything to return for the question returns something, and no more
\* than the cap of the path it took.
ReturnFilled ==
    arStage = "selected" =>
      /\ arBase # << >> /\ Query.k > 0 => arIds # << >>
      /\ ~Leads /\ ~(CoverageFired /\ On("rerank")) => Len(arIds) <= ReturnMax

\* A lever that is folded into the capsule displaces no document: the raw documents are
\* those of the same request with the folded levers off.
FoldDisplacesNothing ==
    arStage = "done" /\ On("fold") /\ ~On("observation") /\ ~On("synth") =>
      /\ ~CoverageFired /\ ~On("rerank") => arIds = SelectEvidence(arBase)
      /\ CoverageFired /\ ~On("rerank") => Len(arIds) = Smaller(ReturnMax, Len(DedupeInOrder(arBase)))

\* The digest of a broad summary uses all its room, holds the best event of the memory and
\* reaches from the first of the events it is drawn from to the last.
SummarySpans ==
    arStage = "rendered" /\ Means("broad") =>
      LET over == InShardOrder(ToSet(ChronologicalCoverage(Limits.coverageK)) \cup ToSet(TopCoverage))
          got == ToSet(Summarized)
      IN over # << >> =>
           /\ Cardinality(got) = Smaller(Len(over), Limits.summarySnippets)
           /\ \E i \in got : \A j \in ToSet(over) :
                CoverageScore(i, Query.words) >= CoverageScore(j, Query.words)
           /\ Limits.summarySnippets >= Limits.pinned + 2 => {Head(over), Last(over)} \subseteq got

\* A temporal question whose evidence holds two events with different dates gets its
\* calculation: of two events, the earlier first, the right number of days.
CalculationMade ==
    arStage = "rendered" /\ Means("temporal") =>
      \A events \in {Summarized} : \A lines \in {RelationLines(events)} :
         /\ (\E i, j \in ToSet(events) : i # j /\ \E d \in arCorpus[i].dates, e \in arCorpus[j].dates : d # e)
              => lines # {}
         /\ \A l \in lines :
              /\ l.from.event # l.to.event /\ l.from.time < l.to.time
              /\ l.days = l.to.time - l.from.time
              /\ l.from.time \in arCorpus[l.from.event].dates /\ l.to.time \in arCorpus[l.to.event].dates

\* The cards of the sessions tell the arc in order: from card to card and from line to line
\* of a card the turns go up, and a card opens with its session's first turn.
ArcInOrder ==
    arStage = "led" /\ On("digests") =>
      /\ \A n \in DOMAIN SessionDigests :
           LET card == SessionDigests[n]
           IN /\ arCorpus[Head(card)].turn = FirstTurn(SessionOf[arCorpus[Head(card)].doc])
              /\ \A m \in 1..(Len(card) - 1) : arCorpus[card[m]].turn <= arCorpus[card[m + 1]].turn
      /\ \A n \in 1..(Len(SessionDigests) - 1) :
           arCorpus[Head(SessionDigests[n])].turn <= arCorpus[Head(SessionDigests[n + 1])].turn

\* The row that paid for a write-time build includes what it cost, unless a folded registry
\* has taken the place of the one that was built.
BuildsBilled ==
    arStage = "done" =>
      /\ On("observation paid") => "observation" \in arBill
      /\ On("facts paid") /\ ~On("fold") => "facts" \in arBill

\* The documents that are returned and the capsule that goes with them.
ReturnSound ==
    /\ FoundFirst /\ ReturnFilled /\ FoldDisplacesNothing /\ BuildsBilled
    /\ SummarySpans /\ CalculationMade /\ ArcInOrder
=============================================================================
