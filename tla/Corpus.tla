-------------------------------- MODULE Corpus --------------------------------
(***************************************************************************)
(* The benchmark's corpora: BABILong instances turned into events and      *)
(* queries (src/eval/corpus/babilong.ts), and events sampled to a target   *)
(* size (sampleFromEvents of src/eval/corpus.ts).                          *)
(*                                                                         *)
(* A line of an instance is the sequence of the token counts of its        *)
(* sentences, blank when it has none; the seeded shuffles are any order.   *)
(***************************************************************************)
EXTENDS Integers, Sequences, FiniteSets, SequencesExt, FiniteSetsExt

CONSTANTS
    CpSplits,     \* bound: split files, sample sizes and target token counts
    NotGiven      \* the supporting facts of a row that has none

VARIABLES
    cpWorld,      \* the split file, the sample size, the target
    cpStage,      \* raw, subsampled, loaded, then sampled or refused
    cpTaken,      \* the rows kept, in their shuffled order
    cpLoaded,     \* events and queries
    cpCorpus      \* the sampled corpus

corpusVars == <<cpWorld, cpStage, cpTaken, cpLoaded, cpCorpus>>

NoCorpus == << >>
CpIdle == cpWorld = << >> /\ cpStage = "off" /\ cpTaken = << >> /\ cpLoaded = NoCorpus /\ cpCorpus = NoCorpus
CpInit == cpWorld \in CpSplits /\ cpStage = "raw" /\ cpTaken = << >> /\ cpLoaded = NoCorpus /\ cpCorpus = NoCorpus

-----------------------------------------------------------------------------
\* A shuffled copy and its head, unless the split is small enough to be kept as it is.
Subsample ==
    /\ cpStage = "raw"
    /\ cpStage' = "subsampled"
    /\ LET rows == DOMAIN cpWorld.rows IN
         IF Cardinality(rows) <= cpWorld.size THEN cpTaken' = [i \in rows |-> i]
         ELSE \E order \in SetToSeqs(rows) : cpTaken' = SubSeq(order, 1, cpWorld.size)
    /\ UNCHANGED <<cpWorld, cpLoaded, cpCorpus>>

\* Lines that say the answer and are short, where the row does not name its facts.
Supporting(row) ==
    IF row.supporting # NotGiven THEN row.supporting
    ELSE {l - 1 : l \in {n \in DOMAIN row.lines : row.says[n]}}

\* Slip: blank lines are dropped before the lines are counted.
ConvertInstance_Compact(row, i) ==
    LET lines == SelectSeq(row.lines, LAMBDA l : l # << >>)
        Event(acc, l, cost) ==
          Append(acc, [id |-> <<i, Len(acc)>>, shard |-> i, tokens |-> cost, core |-> l - 1 \in Supporting(row)])
        Line(acc, l) == FoldLeft(LAMBDA es, cost : Event(es, l, cost), acc, lines[l])
    IN FoldLeft(Line, << >>, [l \in DOMAIN lines |-> l])

\* One event for each sentence, numbered through the instance; all of a supporting line are
\* core, the lines counted from zero with the blank ones.
ConvertInstance(row, i) ==
    LET Event(acc, l, cost) ==
          Append(acc, [id |-> <<i, Len(acc)>>, shard |-> i, tokens |-> cost, core |-> l - 1 \in Supporting(row)])
        Line(acc, l) == FoldLeft(LAMBDA es, cost : Event(es, l, cost), acc, row.lines[l])
    IN FoldLeft(Line, << >>, [l \in DOMAIN row.lines |-> l])

RelevantOf(events) == {events[n].id : n \in {k \in DOMAIN events : events[k].core}}

\* Every kept row is a shard of its own, with one query.
LoadBabilongTask ==
    /\ cpStage = "subsampled"
    /\ cpStage' = "loaded"
    /\ LET made == [i \in DOMAIN cpTaken |-> ConvertInstance(cpWorld.rows[cpTaken[i]], i)]
       IN cpLoaded' = [events |-> FlattenSeq(made),
                       queries |-> [i \in DOMAIN cpTaken |-> [relevant |-> RelevantOf(made[i]), shardHint |-> i]]]
    /\ UNCHANGED <<cpWorld, cpTaken, cpCorpus>>

-----------------------------------------------------------------------------
TokensIn(events) == FoldLeft(LAMBDA n, e : n + e.tokens, 0, events)
Reached(tokens) == 1000 * tokens >= 999 * cpWorld.target

\* Slip: the first event that does not fit ends the sample.
Pack_StopsAtFirst(start, filler) ==
    FoldLeft(LAMBDA acc, e :
               IF acc.done THEN acc
               ELSE IF acc.tokens + e.tokens > cpWorld.target THEN [acc EXCEPT !.done = TRUE]
               ELSE [events |-> Append(acc.events, e), tokens |-> acc.tokens + e.tokens, done |-> FALSE],
             [events |-> << >>, tokens |-> start, done |-> FALSE], filler)

\* What fits is taken, what does not is passed over, until the target is all but reached.
Pack(start, filler) ==
    FoldLeft(LAMBDA acc, e :
               IF acc.done \/ acc.tokens + e.tokens > cpWorld.target THEN acc
               ELSE [events |-> Append(acc.events, e), tokens |-> acc.tokens + e.tokens,
                     done |-> Reached(acc.tokens + e.tokens)],
             [events |-> << >>, tokens |-> start, done |-> FALSE], filler)

\* All core events, and filler in shuffled order; without room for the core, nothing.
SampleFromEvents ==
    /\ cpStage = "loaded"
    /\ LET core == SelectSeq(cpLoaded.events, LAMBDA e : e.core)
           filler == SelectSeq(cpLoaded.events, LAMBDA e : ~e.core)
       IN IF TokensIn(core) > cpWorld.target
          THEN cpStage' = "refused" /\ UNCHANGED cpCorpus
          ELSE /\ cpStage' = "sampled"
               /\ \E order \in SetToSeqs(ToSet(filler)) :
                    LET packed == Pack(TokensIn(core), order)
                        events == core \o packed.events
                    IN cpCorpus' = [events |-> events, total |-> packed.tokens,
                                    byShard |-> [s \in {events[n].shard : n \in DOMAIN events} |->
                                                   SelectSeq(events, LAMBDA e : e.shard = s)]]
    /\ UNCHANGED <<cpWorld, cpTaken, cpLoaded>>

CpNext == Subsample \/ LoadBabilongTask \/ SampleFromEvents

-----------------------------------------------------------------------------
\* What a query must cite is what its row calls supporting: the sentences of line n of the
\* text as it stands, blank lines counted, are the ids from the number of sentences before
\* it, and no two instances share an id or a row.
Preceding(row, l) == FoldLeft(LAMBDA n, k : n + Len(row.lines[k]), 0, [k \in 1..(l - 1) |-> k])
RelevantGrounded ==
    cpStage = "loaded" =>
      /\ IsInjective(cpTaken)
      /\ \A n, k \in DOMAIN cpLoaded.events :
           n # k => cpLoaded.events[n].id # cpLoaded.events[k].id
      /\ \A i \in DOMAIN cpTaken :
           LET row == cpWorld.rows[cpTaken[i]]
           IN cpLoaded.queries[i].relevant =
                UNION {{<<i, Preceding(row, l) + k>> : k \in 0..(Len(row.lines[l]) - 1)} :
                         l \in {n \in DOMAIN row.lines : n - 1 \in Supporting(row)}}

\* A sampled corpus keeps its size label and its answers: every event a query must cite is
\* there, in the shard the query is hinted to, the total is what its events weigh and within
\* the target, and an event is left out only when it does not fit or the target is reached.
SampleSound ==
    cpStage = "sampled" =>
      LET ids == {cpCorpus.events[n].id : n \in DOMAIN cpCorpus.events}
      IN /\ \A q \in ToSet(cpLoaded.queries) : \A id \in q.relevant :
              \E n \in DOMAIN cpCorpus.byShard[q.shardHint] : cpCorpus.byShard[q.shardHint][n].id = id
         /\ cpCorpus.total = TokensIn(cpCorpus.events) /\ cpCorpus.total <= cpWorld.target
         /\ Cardinality(ids) = Len(cpCorpus.events)
         /\ \A e \in ToSet(cpLoaded.events) :
              e.id \in ids \/ Reached(cpCorpus.total) \/ cpCorpus.total + e.tokens > cpWorld.target

\* From a benchmark's rows to a corpus of a given size.
CorpusSound == RelevantGrounded /\ SampleSound
=============================================================================
