------------------------------ MODULE Chronicle ------------------------------
(***************************************************************************)
(* The coverage assembler (src/core/coverage.ts): a chronicle of dated     *)
(* events for questions that ask for breadth, and one computed difference  *)
(* of two dates.                                                           *)
(*                                                                         *)
(* An event is <<shard, id>>; ids repeat in every shard of a durable       *)
(* store, and what the probes found are bare ids.  A text is the sequence  *)
(* of its terms, a date a day.  The logarithm of a term's rarity is the    *)
(* number of events without it, plus one.                                  *)
(***************************************************************************)
EXTENDS Selection, SequencesExt

CONSTANTS
    ChEvents,       \* the events in scope, pairs of numbers
    ChWorlds,       \* bound: the texts, dates and questions explored
    ProperNouns,    \* terms written with a capital inside a sentence
    LongTerms,      \* terms of seven characters or more
    DfFloor,        \* rankExpansionTerms: the floor of the boilerplate cut
    TopTopics,      \* the topic terms of a seed that need no support
    SeedLimit, MaxExpansionTerms, Hop2Seeds, Hop2Terms, BucketCount, PerBucket

ASSUME ChronicleConstants ==
    /\ IsFiniteSet(ChEvents) /\ ChEvents \subseteq (Nat \X Nat)
    /\ {DfFloor, TopTopics, SeedLimit, MaxExpansionTerms, Hop2Seeds, Hop2Terms} \subseteq Nat
    /\ {BucketCount, PerBucket} \subseteq Nat \ {0}

VARIABLES
    world,      \* texts, times, dates in the texts, the question and the budgets
    chStage,    \* the phase that has run last
    df,         \* how many events have each term (tokenSets, idfCache)
    seeds,      \* seedLists: item, ranked terms and slots per round
    terms,      \* the terms that score
    score,      \* every event's score by these terms
    grown,      \* history: the expansion terms of the first hop
    picked,     \* the picked events and their scores
    chosen,     \* the chronicle, in order
    anchors,    \* the dates that may be related, best first
    relation    \* the computed claim, or none: a set of at most one

chronicleVars == <<world, chStage, df, seeds, terms, score, grown, picked, chosen, anchors, relation>>

Undated == 1000     \* createdAt does not parse; undated events come last

ChIdle == /\ world = << >> /\ chStage = "idle" /\ df = << >> /\ score = << >> /\ seeds = << >> /\ terms = << >> /\ grown = << >>
          /\ picked = << >> /\ chosen = << >> /\ anchors = << >>
          /\ relation = {}
ChInit == /\ world \in ChWorlds /\ chStage = "asked" /\ df = << >> /\ seeds = << >>
          /\ terms = << >> /\ score = << >> /\ grown = << >> /\ picked = << >> /\ chosen = << >> /\ anchors = << >>
          /\ relation = {}

-----------------------------------------------------------------------------
Words(e) == ToSet(world.words[e])
Idf(t) == Cardinality(ChEvents) + 1 - df[t]

\* All events of all snapshots, and how many of them have each term.
ScopeEvents ==
    /\ chStage = "asked"
    /\ chStage' = "scoped"
    /\ df' = [t \in UNION {Words(e) : e \in ChEvents} |-> Cardinality({e \in ChEvents : t \in Words(e)})]
    /\ UNCHANGED <<world, seeds, terms, score, grown, picked, chosen, anchors, relation>>

\* Probe footholds are bare ids: each stands for the event of every shard that has it.
OfBareId(id) == SetToSortSeq({e \in ChEvents : e[2] = id}, LAMBDA d, e : d[1] < e[1])
Footholds == FlattenSeq([i \in DOMAIN world.footholds |-> OfBareId(world.footholds[i])])
FootholdShards == {e[1] : e \in ToSet(Footholds)}

\* The sum of the weights of the terms an event has, a proper noun of the question
\* counting twice; a foothold's shard adds one.
ScoreAt(e, ts) ==
    LET hit == ToSet(ts) \cap Words(e)
        anchored == ProperNouns \cap ToSet(world.query)
        sum == MapThenSumSet(LAMBDA t : Idf(t) * (IF t \in anchored THEN 2 ELSE 1), hit)
    IN IF sum > 0 /\ e[1] \in FootholdShards THEN sum + 1 ELSE sum

Scores(ts) == [e \in ChEvents |-> ScoreAt(e, ts)]
Scoring(ts) == {e \in ChEvents : ScoreAt(e, ts) > 0}

\* Ties: the natural order of ids, then of shards; in time, undated events last.
ByBareId == [e \in ChEvents |-> 100 * e[2] + e[1]]
ByTime == [e \in ChEvents |-> 10000 * world.time[e] + 100 * e[1] + e[2]]
Chronologically(S) == SetToSortSeq(S, LAMBDA d, e : ByTime[d] < ByTime[e])

Limited(s, n) == SubSeq(s, 1, IF n < Len(s) THEN n ELSE Len(s))
NotIn(s, S) == SelectSeq(s, LAMBDA x : x \notin S)
Longer(m, n) == IF m > n THEN m ELSE n

\* The terms of a text that are not in S: rare ones only, heaviest first.
RankExpansionTerms(text, S) ==
    LET limit == Longer(DfFloor, Cardinality(ChEvents) \div 4)
        cands == SelectSeq(NotIn(DedupeInOrder(text), S), LAMBDA t : df[t] <= limit)
        tf(t) == Cardinality({i \in DOMAIN text : text[i] = t})
        weight == [t \in ToSet(cands) |-> tf(t) * Idf(t)]
        place == [t \in ToSet(cands) |-> CHOOSE i \in DOMAIN cands : cands[i] = t]
    IN Ranked(ToSet(cands), weight, place)

\* The term occurs with a topic in an event other than e.
Supported(t, e, topics) ==
    \E d \in ChEvents \ {e} : t \in Words(d) /\ (topics \ {t}) \cap Words(d) # {}

SeedOf(e, slots) ==
    LET ranked == RankExpansionTerms(world.words[e], ToSet(world.query))
        topics == ToSet(world.query) \cup ToSet(Limited(ranked, TopTopics))
    IN [item |-> e, slots |-> slots,
        ranked |-> SelectSeq(ranked, LAMBDA t : \/ t \in ToSet(Limited(ranked, TopTopics))
                                                \/ t \in ProperNouns /\ t \in Words(e)
                                                \/ Supported(t, e, topics))]

QuerySeeds == Selected(Scoring(world.query), Scores(world.query), ByBareId, SeedLimit)

\* Footholds are seeds with two slots, what the question itself finds has one.
CollectSeeds ==
    /\ chStage = "scoped"
    /\ chStage' = "seeded"
    /\ LET found == DedupeInOrder(Footholds)
           guesses == NotIn(QuerySeeds, ToSet(found))
       IN seeds' = [i \in DOMAIN found |-> SeedOf(found[i], 2)]
                   \o [i \in DOMAIN guesses |-> SeedOf(guesses[i], 1)]
    /\ UNCHANGED <<world, df, score, terms, grown, picked, chosen, anchors, relation>>

Tops(seed) == ToSet(Limited(seed.ranked, 12))
Kin(i) == {j \in (DOMAIN seeds) \ {i} : Tops(seeds[i]) \cap Tops(seeds[j]) # {}}
TopsOf(from) == UNION {Tops(seeds[i]) : i \in from}

\* A guess that shares nothing with the footholds goes; without footholds, one that
\* shares nothing with anybody, once most seeds share something.
PruneSeeds ==
    /\ chStage = "seeded"
    /\ chStage' = "pruned"
    /\ LET trusted == {i \in DOMAIN seeds : seeds[i].slots = 2}
           kinship == {i \in DOMAIN seeds : Kin(i) # {}}
           quorum == (Len(seeds) + 1) \div 2 + 1
           keep == IF Footholds # << >>
                   THEN IF TopsOf(trusted) = {} THEN DOMAIN seeds
                        ELSE trusted \cup {i \in DOMAIN seeds : Tops(seeds[i]) \cap TopsOf(trusted) # {}}
                   ELSE IF Len(seeds) >= 3 /\ Cardinality(kinship) >= quorum THEN kinship
                        ELSE DOMAIN seeds
           kept == SetToSortSeq(keep, LAMBDA i, j : i < j)
       IN seeds' = [n \in DOMAIN kept |-> seeds[kept[n]]]
    /\ UNCHANGED <<world, df, score, terms, grown, picked, chosen, anchors, relation>>

ExpansionCap == LET n == MaxExpansionTerms + 6 * Len(Footholds) IN IF n > 24 THEN 24 ELSE n

\* Slip: a seed gives all its terms before the next one is asked.
Round_Greedy(acc) ==
    FoldLeft(LAMBDA ts, s : ts \o Limited(NotIn(s.ranked, ToSet(ts)), ExpansionCap - Len(ts)),
             acc, seeds)

\* One round: every seed gives as many unseen terms as it has slots.
Round(acc) ==
    FoldLeft(LAMBDA ts, s : ts \o Limited(NotIn(s.ranked, ToSet(ts)),
                                          Min({s.slots, ExpansionCap - Len(ts)})),
             acc, seeds)

\* Round robin over the seeds, until the cap or until no seed has a term left.
ExpandTerms ==
    /\ chStage = "pruned"
    /\ chStage' = "expanded"
    /\ grown' = FoldLeft(LAMBDA acc, round : Round(acc), << >>, [n \in 1..ExpansionCap |-> n])
    /\ terms' = Limited(DedupeInOrder(world.query \o grown'), 48)
    /\ UNCHANGED <<world, df, score, seeds, picked, chosen, anchors, relation>>

\* With footholds: the best events that are no seeds give two terms each.
SecondHop ==
    /\ chStage = "expanded"
    /\ chStage' = "hopped"
    /\ LET seeded == ToSet(Footholds) \cup ToSet(QuerySeeds)
           hits == Selected(Scoring(terms) \ seeded, Scores(terms), ByBareId, Hop2Seeds)
           topics == ToSet(world.query) \cup ToSet(Limited(grown, 6))
           Mine(acc, e) ==
             LET ranked == SelectSeq(RankExpansionTerms(world.words[e], ToSet(terms) \cup ToSet(acc)),
                                     LAMBDA t : Supported(t, e, topics))
             IN acc \o Limited(Limited(ranked, 2), Hop2Terms - Len(acc))
       IN terms' = IF Footholds # << >> /\ terms # << >> /\ grown # << >>
                   THEN Limited(terms \o FoldLeft(Mine, << >>, hits), 48) ELSE terms
    /\ score' = [e \in ChEvents |-> ScoreAt(e, terms')]
    /\ UNCHANGED <<world, df, seeds, grown, picked, chosen, anchors, relation>>

-----------------------------------------------------------------------------
Also(more, by) == [e \in (DOMAIN picked) \cup more |-> IF e \in DOMAIN picked THEN picked[e] ELSE by[e]]
Hits == {e \in ChEvents : score[e] > 0}

\* Phase 0: the footholds.
PickFootholds ==
    /\ chStage = "hopped"
    /\ chStage' = "phase0"
    /\ picked' = Also(ToSet(Footholds), score)
    /\ UNCHANGED <<world, df, score, seeds, terms, grown, chosen, anchors, relation>>

InTime(s) == Chronologically({e \in ChEvents : e[1] = s})
Buckets(s) ==
    LET events == InTime(s)
        size == Longer(1, (Len(events) + BucketCount - 1) \div BucketCount)
    IN {ToSet(SubSeq(events, from, Min({from + size - 1, Len(events)})))
          : from \in {n \in DOMAIN events : (n - 1) % size = 0}}

\* Phase A: the best scorers of every bucket of every shard.
PickBuckets ==
    /\ chStage = "phase0"
    /\ chStage' = "phaseA"
    /\ LET best(b) == ToSet(Selected(b \cap Hits, score, ByTime, PerBucket))
       IN picked' = Also(UNION {best(b) : b \in UNION {Buckets(e[1]) : e \in ChEvents}}, score)
    /\ UNCHANGED <<world, df, score, seeds, terms, grown, chosen, anchors, relation>>

\* Slip: the buckets are the only source.
PickGlobal_Never ==
    /\ chStage = "phaseA"
    /\ chStage' = "phaseB"
    /\ UNCHANGED <<world, df, score, seeds, terms, grown, picked, chosen, anchors, relation>>

\* Phase B: the best scorers of all that is not picked yet.
PickGlobal ==
    /\ chStage = "phaseA"
    /\ chStage' = "phaseB"
    /\ picked' = Also(ToSet(Selected(Hits \ DOMAIN picked, score, ByTime, world.max)),
                      score)
    /\ UNCHANGED <<world, df, score, seeds, terms, grown, chosen, anchors, relation>>

Nothing == [e \in ChEvents |-> 0]

\* Math.round: halves go up.
Rounded(a, b) == (2 * a + b) \div (2 * b)

\* Slip: gaps left by events that were picked before stay.
PickSpread_Gaps ==
    /\ chStage = "phaseB"
    /\ chStage' = "phaseC"
    /\ LET all == Chronologically(ChEvents)
           want == world.max - Cardinality(DOMAIN picked)
           at(i) == IF want = 1 THEN 1 ELSE 1 + Rounded(i * (Len(all) - 1), want - 1)
       IN picked' = IF world.spread /\ want > 0
                    THEN Also({all[at(i)] : i \in 0..(want - 1)}, Nothing) ELSE picked
    /\ UNCHANGED <<world, df, score, seeds, terms, grown, chosen, anchors, relation>>

\* Phase C: free places go to events evenly apart, then to the earliest.
PickSpread ==
    /\ chStage = "phaseB"
    /\ chStage' = "phaseC"
    /\ LET all == Chronologically(ChEvents)
           want == world.max - Cardinality(DOMAIN picked)
           at(i) == IF want = 1 THEN 1 ELSE 1 + Rounded(i * (Len(all) - 1), want - 1)
           even == {all[at(i)] : i \in 0..(want - 1)} \ (DOMAIN picked)
           rest == NotIn(all, (DOMAIN picked) \cup even)
       IN picked' = IF world.spread /\ want > 0
                    THEN Also(even \cup ToSet(Limited(rest, want - Cardinality(even))), Nothing)
                    ELSE picked
    /\ UNCHANGED <<world, df, score, seeds, terms, grown, chosen, anchors, relation>>

\* Slip: the kept events stay in the order of their scores.
CapEntries_Unsorted ==
    /\ chStage = "phaseC"
    /\ chStage' = "capped"
    /\ chosen' = Selected(DOMAIN picked, picked, ByTime, world.max)
    /\ UNCHANGED <<world, df, score, seeds, terms, grown, picked, anchors, relation>>

\* The best entries, earliest first in ties, back in time order.
CapEntries ==
    /\ chStage = "phaseC"
    /\ chStage' = "capped"
    /\ chosen' = Chronologically(ToSet(Selected(DOMAIN picked, picked, ByTime, world.max)))
    /\ UNCHANGED <<world, df, score, seeds, terms, grown, picked, anchors, relation>>

Cost(es) == MapThenSumSet(LAMBDA e : Len(world.words[e]), es)

\* Lowest score first; then the latest date; then the higher id.
DropOrder ==
    LET latest == [e \in ToSet(chosen) |-> 10000000 - (10000 * world.time[e] + 100 * e[2] - e[1])]
    IN Ranked(ToSet(chosen), [e \in ToSet(chosen) |-> -picked[e]], latest)

\* Slip: one entry more than the budget allows is kept.
CapTokens_OffByOne ==
    /\ chStage = "capped"
    /\ chStage' = "assembled"
    /\ LET fits == {n \in 0..Len(chosen) : Cost(ToSet(SubSeq(DropOrder, n + 1, Len(chosen)))) <= world.tokens}
       IN chosen' = NotIn(chosen, ToSet(SubSeq(DropOrder, 1, Min(fits) - 1)))
    /\ UNCHANGED <<world, df, score, seeds, terms, grown, picked, anchors, relation>>

\* Entries are dropped until the lines fit.
CapTokens ==
    /\ chStage = "capped"
    /\ chStage' = "assembled"
    /\ LET fits == {n \in 0..Len(chosen) : Cost(ToSet(SubSeq(DropOrder, n + 1, Len(chosen)))) <= world.tokens}
       IN chosen' = NotIn(chosen, ToSet(SubSeq(DropOrder, 1, Min(fits))))
    /\ UNCHANGED <<world, df, score, seeds, terms, grown, picked, anchors, relation>>

-----------------------------------------------------------------------------
\* scoreEventCoverage: terms in the text, long ones twice.
TermScore(e, ts) == MapThenSumSet(LAMBDA t : IF t \in LongTerms THEN 2 ELSE 1, ts \cap Words(e))

\* The last event with a bare id stands for it.
TextOfBareId(id) == IF OfBareId(id) = << >> THEN << >> ELSE world.words[Last(OfBareId(id))]

RelationTerms ==
    LET text == FlattenSeq([i \in DOMAIN world.footholds |-> TextOfBareId(world.footholds[i])])
    IN ToSet(world.query) \cup
       ToSet(Limited(RankExpansionTerms(text, ToSet(world.query)), MaxExpansionTerms))

DaysOf(e) == IF world.dates[e] # {} THEN world.dates[e]
             ELSE IF world.time[e] # Undated THEN {world.time[e]} ELSE {}

\* One anchor per bare id and day: the first shard's.
Anchors ==
    {[item |-> p[1], day |-> p[2], score |-> TermScore(p[1], RelationTerms)] : p \in
       {p \in ChEvents \X UNION {DaysOf(e) : e \in ChEvents} :
          /\ p[2] \in DaysOf(p[1])
          /\ \A f \in ChEvents : f[2] = p[1][2] /\ p[2] \in DaysOf(f) => f[1] >= p[1][1]}}

\* By score, then day, then id.
RankAnchors ==
    /\ chStage = "assembled"
    /\ chStage' = "dated"
    /\ LET best == [a \in Anchors |-> a.score]
           earliest == [a \in Anchors |-> 10000 * a.day + 100 * a.item[2] + a.item[1]]
       IN anchors' = IF chosen = << >> \/ ~world.temporal THEN << >>
                     ELSE Ranked(Anchors, best, earliest)
    /\ UNCHANGED <<world, df, score, seeds, terms, grown, picked, chosen, relation>>

BestAnchor(S, ts) ==
    LET hits == {i \in S : TermScore(anchors[i].item, ts) > 0}
        by == [i \in hits |-> 100 * TermScore(anchors[i].item, ts) + anchors[i].score]
    IN Selected(hits, by, [i \in hits |-> i], 1)

\* Two anchors can be related: another event, another day.
Relatable(a, b) == a.item[2] # b.item[2] /\ a.day # b.day

TopPairs ==
    LET pairs == {p \in (DOMAIN anchors) \X (DOMAIN anchors) :
                    p[1] < p[2] /\ Relatable(anchors[p[1]], anchors[p[2]])}
    IN {p \in pairs : \A q \in pairs : p[1] < q[1] \/ (p[1] = q[1] /\ p[2] <= q[2])}

SegmentPairs ==
    LET left == BestAnchor(DOMAIN anchors, world.segments[1])
        others == IF left = << >> THEN DOMAIN anchors
                  ELSE {i \in DOMAIN anchors :
                          anchors[i].item[2] # anchors[left[1]].item[2]}
        right == BestAnchor(others, world.segments[2])
    IN IF left # << >> /\ right # << >> /\ anchors[left[1]].day # anchors[right[1]].day
       THEN {<<left[1], right[1]>>} ELSE TopPairs

\* Slip: the pair is taken in rank order.
Related_RankOrder(a, b) == [from |-> a, to |-> b, days |-> a.day - b.day]

Related(a, b) == IF a.day <= b.day THEN [from |-> a, to |-> b, days |-> b.day - a.day]
                 ELSE [from |-> b, to |-> a, days |-> a.day - b.day]

\* The difference of two dates, when the question asks for one and there are entries.
RelateDates ==
    /\ chStage = "dated"
    /\ chStage' = "attached"
    /\ LET pairs == IF world.segments = << >> THEN TopPairs ELSE SegmentPairs
       IN relation' = IF anchors = << >> THEN {}
                      ELSE {Related(anchors[p[1]], anchors[p[2]]) : p \in pairs}
    /\ UNCHANGED <<world, df, score, seeds, terms, grown, picked, chosen, anchors>>

ChNext == \/ ScopeEvents \/ CollectSeeds \/ PruneSeeds \/ ExpandTerms \/ SecondHop
          \/ PickFootholds \/ PickBuckets \/ PickGlobal \/ PickSpread
          \/ CapEntries \/ CapTokens \/ RankAnchors \/ RelateDates

-----------------------------------------------------------------------------
Assembled == chStage \in {"assembled", "dated", "attached"}

\* The chronicle is in time order, without an event twice, within both caps, whatever
\* the caps dropped: the timeline a model reads as the order of events is that order.
InTimeOrder ==
    /\ \A i, j \in DOMAIN chosen : i < j => ByTime[chosen[i]] < ByTime[chosen[j]]
    /\ Assembled => Len(chosen) <= world.max /\ Cost(ToSet(chosen)) <= world.tokens

\* Nothing is left out that scores higher than something kept: buckets, spread and the
\* two caps together never cost a better event its place.
NoBetterLeftOut ==
    Assembled => \A kept \in ToSet(chosen), out \in ChEvents \ ToSet(chosen) :
                   score[kept] >= score[out]

\* A question for breadth gets as many events as it may have, or all there are.
SpreadFills ==
    chStage = "capped" /\ world.spread =>
      Len(chosen) = Min({world.max, Cardinality(ChEvents)})

Given(seed) == Cardinality(ToSet(seed.ranked) \cap ToSet(grown))
OnlyFrom(seed) == ToSet(seed.ranked) \ UNION ({ToSet(s.ranked) : s \in ToSet(seeds)} \ {ToSet(seed.ranked)})

\* No seed takes over the expansion: while a seed has a term that was left out, no
\* other guess has given, of terms only it has, more than one round beyond it.
NoSeedDominates ==
    chStage = "expanded" =>
      \A starved, other \in ToSet(seeds) :
        /\ ToSet(starved.ranked) \ ToSet(grown) # {} /\ other.slots = 1
        => Cardinality(OnlyFrom(other) \cap ToSet(grown)) <= Given(starved) + 1

\* The computed claim is about two different events, in order, and its number is the
\* distance of two dates these events have.
RelationExact ==
    \A r \in relation :
      /\ r.from.item # r.to.item /\ r.from.day < r.to.day /\ r.days = r.to.day - r.from.day
      /\ r.from.day \in DaysOf(r.from.item) /\ r.to.day \in DaysOf(r.to.item)

\* The chronicle from its seeds to the relation computed on it.
ChronicleSound ==
    InTimeOrder /\ NoBetterLeftOut /\ SpreadFills /\ NoSeedDominates /\ RelationExact
=============================================================================
