------------------------------ MODULE BeamScore ------------------------------
(***************************************************************************)
(* A BEAM slice on its way to a score: the queries selected for a run      *)
(* (src/eval/corpus/beam.ts), the events the bridge makes of the documents *)
(* and the ids the scorer makes of them again, without sharing code        *)
(* (documentToEvents of scripts/amb-csm-retrieve.ts, src/eval/             *)
(* retrievalScore.ts), and the saved payload lines scored against the gold *)
(* facets (scripts/score-beam-slice.ts).                                   *)
(*                                                                         *)
(* A text is a set of words, a facet a sequence of them; categories, units *)
(* and ids are numbers, compared as the code compares strings.             *)
(***************************************************************************)
EXTENDS Selection, SequencesExt

CONSTANTS
    BmSlices,     \* bound: slices: documents and queries
    BmFlags,      \* bound: what a run selects
    BmReturns,    \* bound: how a run answers: the events it returns, by their places
    ShortTerms,   \* words too short, or too common, to tell a facet
    FacetCap,     \* terms of a facet that count
    Ks            \* the cuts at which coverage is measured

VARIABLES
    bmSlice,      \* the files
    bmStage,      \* files, selected, ran, scored
    bmFlags,      \* the run's selection flags
    bmPicked,     \* the queries of the run, in its order
    bmLines,      \* payloads.jsonl: rows and torn lines
    bmScores,     \* what the scorer writes: a score or the reason there is none, per row
    bmIndex       \* buildBeamEventIndex

beamVars == <<bmSlice, bmStage, bmFlags, bmPicked, bmLines, bmScores, bmIndex>>

NoIndex == << >>
BmIdle == /\ bmSlice = << >> /\ bmStage = "off" /\ bmFlags = << >> /\ bmPicked = << >>
          /\ bmLines = << >> /\ bmScores = << >> /\ bmIndex = NoIndex
BmInit == /\ bmSlice \in BmSlices /\ bmFlags \in BmFlags /\ bmStage = "files"
          /\ bmPicked = << >> /\ bmLines = << >> /\ bmScores = << >> /\ bmIndex = NoIndex

Units == {bmSlice.docs[i].unit : i \in DOMAIN bmSlice.docs}

-----------------------------------------------------------------------------
\* The category of the metadata, or of the id.
CategoryOf(q) == IF q.meta # 0 THEN q.meta ELSE q.named
ByCategory(p, q) == CategoryOf(p) < CategoryOf(q) \/ (CategoryOf(p) = CategoryOf(q) /\ p.id < q.id)
ByUnit(p, q) == p.unit < q.unit \/ (p.unit = q.unit /\ p.id < q.id)

Wanted(q) == /\ bmFlags.cats = {} \/ CategoryOf(q) \in bmFlags.cats
             /\ bmFlags.units = {} \/ q.unit \in bmFlags.units

\* The seeded shuffle: some fixed order of a bucket.
SeededShuffle(bucket) ==
    [i \in DOMAIN bucket |-> bucket[((i - 1 + bmFlags.seed) % Len(bucket)) + 1]]

QueryBuckets ==
    LET sorted == SortSeq(SelectSeq(bmSlice.queries, Wanted), ByCategory)
        cats == SetToSortSeq({CategoryOf(sorted[i]) : i \in DOMAIN sorted}, <)
    IN [n \in DOMAIN cats |-> SelectSeq(sorted, LAMBDA q : CategoryOf(q) = cats[n])]

\* Slip: a bucket is taken before it is shuffled, and the run keeps that order.
SelectBeamQueries_Ungrouped ==
    FirstOf(FlattenSeq([n \in DOMAIN QueryBuckets |-> FirstOf(SeededShuffle(QueryBuckets[n]), bmFlags.perCategory)]), bmFlags.limit)

\* Every category shuffled and capped, the whole capped, then regrouped by unit.
SelectBeamQueries ==
    SortSeq(FirstOf(FlattenSeq([n \in DOMAIN QueryBuckets |-> FirstOf(SeededShuffle(QueryBuckets[n]), bmFlags.perCategory)]),
                 bmFlags.limit), ByUnit)

SelectQueries ==
    /\ bmStage = "files"
    /\ bmStage' = "selected"
    /\ bmPicked' = SelectBeamQueries
    /\ UNCHANGED <<bmSlice, bmFlags, bmLines, bmScores, bmIndex>>

-----------------------------------------------------------------------------
\* splitTurns and its duplicate: a document with one turn marker or none is not split;
\* what stands before the first marker is in no turn.
SplitTurns(doc) == IF Len(doc.turns) <= 1 THEN << >> ELSE doc.turns
Whole(doc) == doc.head \cup UNION ToSet(doc.turns)

\* documentToEvents, in the bridge: the context stands before every turn.
DocumentToEvents(doc) ==
    LET chunks == IF SplitTurns(doc) = << >> THEN <<Whole(doc)>> ELSE SplitTurns(doc)
    IN [n \in DOMAIN chunks |->
          [id |-> IF Len(chunks) = 1 THEN <<doc.id>> ELSE <<doc.id, n - 1>>,
           content |-> doc.context \cup chunks[n]]]

\* The events of a unit's memory, in the order of its documents.
BridgeEvents(unit) ==
    LET docs == SelectSeq(bmSlice.docs, LAMBDA d : d.unit = unit)
    IN FlattenSeq([n \in DOMAIN docs |-> DocumentToEvents(docs[n])])

\* Slip: the turns are numbered as the text numbers them, from one.
ScorerChunks_FromOne(doc) ==
    LET turns == SplitTurns(doc)
    IN IF turns = << >> THEN << <<(<<doc.id>>), doc.context \cup Whole(doc)>> >>
       ELSE [n \in DOMAIN turns |-> <<(<<doc.id, n>>), doc.context \cup turns[n]>>]

\* The scorer's own reading of a document: ids and texts.
ScorerChunks(doc) ==
    LET turns == SplitTurns(doc)
    IN IF turns = << >> THEN << <<(<<doc.id>>), doc.context \cup Whole(doc)>> >>
       ELSE [n \in DOMAIN turns |-> <<(<<doc.id, n - 1>>), doc.context \cup turns[n]>>]

\* Of two chunks with one id the later one's text stays.
BuildBeamEventIndex ==
    LET docs == bmSlice.docs
        all == FlattenSeq([n \in DOMAIN docs |-> ScorerChunks(docs[n])])
        idsOf(unit) == FlattenSeq([n \in DOMAIN docs |->
                         IF docs[n].unit # unit THEN << >>
                         ELSE LET mine == ScorerChunks(docs[n]) IN [i \in DOMAIN mine |-> mine[i][1]]])
    IN [text |-> [id \in {all[i][1] : i \in DOMAIN all} |->
                    all[SelectLastInSeq(all, LAMBDA c : c[1] = id)][2]],
        idsByUnit |-> [unit \in Units |-> idsOf(unit)]]

-----------------------------------------------------------------------------
\* A run: every query's row, unless the line is torn, and synthesised ids among the events.
Synthesised == <<0, 0, 0>>
RunSlice ==
    /\ bmStage = "selected"
    /\ bmStage' = "ran"
    /\ \E torn \in {{}} \cup {{i} : i \in DOMAIN bmPicked}, how \in BmReturns :
         /\ bmLines' = [i \in DOMAIN bmPicked |->
              LET events == BridgeEvents(bmPicked[i].unit)
                  At(places) == [n \in DOMAIN places |-> IF places[n] \in DOMAIN events THEN events[places[n]].id
                                                         ELSE Synthesised]
              IN [torn |-> i \in torn, query |-> bmPicked[i].id, unit |-> bmPicked[i].unit,
                  returned |-> At(how.returned), packed |-> At(how.packed)]]
    /\ UNCHANGED <<bmSlice, bmFlags, bmPicked, bmScores, bmIndex>>

\* Slip: what can be read of a torn line is kept.
ReadPayloadRows_Torn == bmLines

\* parsePayloadLine: a torn line is no row.
ReadPayloadRows == SelectSeq(bmLines, LAMBDA l : ~l.torn)

-----------------------------------------------------------------------------
\* Facets of the rubric, the tested order and the time points, each text once; without any,
\* the sentences of the reference answer.
GoldFacets(q) ==
    LET said == SelectSeq(q.rubric \o q.ordering \o q.times, LAMBDA f : f # << >>)
    IN DedupeInOrder(IF said # << >> THEN said ELSE q.answer)

FacetTerms(facet) ==
    FirstOf(DedupeInOrder(SelectSeq(facet, LAMBDA w : w \notin ShortTerms)), FacetCap)

\* Half of the terms, and two of them where there are two.
TextSupportsFacet(text, terms) ==
    LET matched == Quantify(DOMAIN terms, LAMBDA i : terms[i] \in text)
    IN terms # << >> /\ matched >= Min({2, Len(terms)}) /\ 2 * matched >= Len(terms)

\* Slip: a facet counts once for every event that supports it.
CoverageOver_PerEvent(ids, facets) ==
    Cardinality({p \in (DOMAIN facets) \X (DOMAIN ids) :
       ids[p[2]] \in DOMAIN bmIndex'.text /\ TextSupportsFacet(bmIndex'.text[ids[p[2]]], FacetTerms(facets[p[1]]))})

\* The facets some event supports; an id the slice does not have supports nothing.
CoverageOver(ids, facets) ==
    Quantify(DOMAIN facets, LAMBDA n : \E i \in DOMAIN ids :
       ids[i] \in DOMAIN bmIndex'.text /\ TextSupportsFacet(bmIndex'.text[ids[i]], FacetTerms(facets[n])))

Abstention == 1
\* scorePayloadRow, or the reason a row is skipped.
ScoreRow(row) ==
    LET q == CHOOSE r \in ToSet(bmSlice.queries) : r.id = row.query
        facets == GoldFacets(q)
    IN IF ~bmFlags.abstention /\ CategoryOf(q) = Abstention THEN [why |-> "abstention excluded", row |-> row]
       ELSE IF facets = << >> THEN [why |-> "no facets", row |-> row]
       ELSE [why |-> "scored", row |-> row, category |-> CategoryOf(q), facets |-> Len(facets),
             at |-> [k \in Ks |-> CoverageOver(FirstOf(row.returned, k), facets)],
             packed |-> CoverageOver(row.packed, facets),
             oracle |-> CoverageOver(bmIndex'.idsByUnit[row.unit], facets)]

ScoreSlice ==
    /\ bmStage = "ran"
    /\ bmStage' = "scored"
    /\ bmIndex' = BuildBeamEventIndex
    /\ bmScores' = [i \in DOMAIN ReadPayloadRows |-> ScoreRow(ReadPayloadRows[i])]
    /\ UNCHANGED <<bmSlice, bmFlags, bmPicked, bmLines>>

\* aggregateByCategory: rows and covered facets of every category.
Aggregates ==
    LET scored == SelectSeq(bmScores, LAMBDA s : s.why = "scored")
    IN [c \in {scored[i].category : i \in DOMAIN scored} |->
          LET mine == SelectSeq(scored, LAMBDA s : s.category = c)
          IN [n |-> Len(mine), at |-> [k \in Ks |-> FoldLeft(LAMBDA m, s : m + s.at[k], 0, mine)]]]

BmNext == SelectQueries \/ RunSlice \/ ScoreSlice

-----------------------------------------------------------------------------
\* A unit's queries stand together, so that its corpus is built once, and within every
\* category a run takes as many of the wanted queries as its caps allow, none twice.
SelectionWhole ==
    bmStage = "selected" =>
      /\ \A i, j \in DOMAIN bmPicked : \A n \in i..j :
            bmPicked[i].unit = bmPicked[j].unit => bmPicked[n].unit = bmPicked[i].unit
      /\ \A i, j \in DOMAIN bmPicked : i # j => bmPicked[i].id # bmPicked[j].id
      /\ \A q \in ToSet(bmPicked) : Wanted(q)
      /\ LET wanted == SelectSeq(bmSlice.queries, Wanted)
             Taken(c, seq) == Quantify(DOMAIN seq, LAMBDA i : CategoryOf(seq[i]) = c)
             cats == {CategoryOf(wanted[i]) : i \in DOMAIN wanted}
             due(c) == Min({bmFlags.perCategory, Taken(c, wanted)})
         IN /\ Len(bmPicked) = Min({bmFlags.limit, MapThenSumSet(due, cats)})
            /\ \A c \in cats : Taken(c, bmPicked) <= due(c)

\* "eval-side ids must equal bridge ids" (amb-csm-retrieve.ts:722): the scorer finds under
\* every id the very text the bridge put into the memory of the unit.
IdsMatchBridge ==
    bmStage = "scored" =>
      \A unit \in Units :
        LET events == BridgeEvents(unit)
        IN /\ bmIndex.idsByUnit[unit] = [n \in DOMAIN events |-> events[n].id]
           /\ \A n \in DOMAIN events : bmIndex.text[events[n].id] = events[n].content

\* What more events cover is never less, and never more than the whole unit covers, so
\* that a normalised score is a fraction of one.
CoverageNested ==
    bmStage = "scored" =>
      \A i \in DOMAIN bmScores : LET s == bmScores[i] IN
        s.why = "scored" =>
          /\ \A k, l \in Ks : k <= l => s.at[k] <= s.at[l]
          /\ \A k \in Ks : s.at[k] <= s.oracle
          /\ s.packed <= s.oracle /\ s.oracle <= s.facets
          /\ ToSet(s.row.packed) \subseteq ToSet(FirstOf(s.row.returned, Max(Ks))) => s.packed <= s.at[Max(Ks)]

\* Every query of the run whose line can be read is scored once or left out for one reason,
\* and the categories' counts add up.
RowsAccounted ==
    bmStage = "scored" =>
      /\ \A i \in DOMAIN bmLines :
           Quantify(DOMAIN bmScores, LAMBDA n : bmScores[n].row.query = bmLines[i].query)
             = (IF bmLines[i].torn THEN 0 ELSE 1)
      /\ MapThenSumSet(LAMBDA c : Aggregates[c].n, DOMAIN Aggregates)
           = Quantify(DOMAIN bmScores, LAMBDA n : bmScores[n].why = "scored")
      /\ \A c \in DOMAIN Aggregates : bmFlags.abstention \/ c # Abstention

\* From the slice's queries to the scores of the rows of its run.
SliceScored == SelectionWhole /\ IdsMatchBridge /\ CoverageNested /\ RowsAccounted
=============================================================================
