------------------------------ MODULE BeamJudge ------------------------------
(***************************************************************************)
(* The free judge of BEAM answers (src/eval/beamJudge.ts, the judgeRow of  *)
(* scripts/calibrate-judge.ts): a reply of the model is searched for its   *)
(* JSON object, the verdicts or positions in it become a score, a row is   *)
(* asked for at most twice, and the scores are held against the official   *)
(* ones.  Scores are in thousandths.                                       *)
(***************************************************************************)
EXTENDS Integers, Sequences, FiniteSets, SequencesExt, FiniteSetsExt

CONSTANTS
    BjRuns,       \* bound: the rows of a calibration: mode, rubric length, official score
    BjReplies,    \* bound: what the model may reply to a row of a mode
    BjQuotes      \* bound: answers and rubrics the literal matcher is given

VARIABLES
    bjWorld,      \* the rows, or an answer and a rubric
    bjStage,      \* judging, judged, reported; or literal, matched
    bjTries,      \* replies of the current row that were of no use
    bjFree,       \* the scores of the rows judged so far, or NoScore
    bjHeard,      \* history: the useful reply of every judged row
    bjReport      \* the agreement, or the positions of the literal matcher

judgeVars == <<bjWorld, bjStage, bjTries, bjFree, bjHeard, bjReport>>

NoScore == -1
Absent == -1
NothingHeard == [mode |-> "none"]
NoReport == << >>
BjIdle == /\ bjWorld = << >> /\ bjStage = "off" /\ bjTries = 0
          /\ bjFree = << >> /\ bjHeard = << >> /\ bjReport = NoReport
BjInit == /\ \/ bjWorld \in BjRuns /\ bjStage = "judging"
             \/ bjWorld \in BjQuotes /\ bjStage = "literal"
          /\ bjTries = 0 /\ bjFree = << >> /\ bjHeard = << >> /\ bjReport = NoReport

-----------------------------------------------------------------------------
\* Slip: an escaped quote ends the string.
Scanned_NoEscape(acc, c) ==
    IF acc.depth = 0 /\ acc.seen THEN acc
    ELSE [acc EXCEPT !.seen = @ \/ c = "{",
                     !.depth = IF acc.inStr THEN @ ELSE IF c = "{" THEN @ + 1
                               ELSE IF c = "}" THEN @ - 1 ELSE @,
                     !.inStr = (c = "q") # @,
                     !.text = Append(@, c)]

\* One character of the object: braces count outside of strings, a quote that is not
\* escaped opens or closes one, and the object ends where its depth returns to zero.
Scanned(acc, c) ==
    IF acc.depth = 0 /\ acc.seen THEN acc
    ELSE [seen |-> acc.seen \/ c = "{",
          depth |-> IF acc.inStr THEN acc.depth ELSE IF c = "{" THEN acc.depth + 1
                    ELSE IF c = "}" THEN acc.depth - 1 ELSE acc.depth,
          inStr |-> IF acc.inStr THEN c # "q" \/ acc.esc ELSE c = "q",
          esc |-> acc.inStr /\ ~acc.esc /\ c = "\\",
          text |-> Append(acc.text, c)]

\* extractJsonObject: the first balanced object, or nothing.
ExtractJsonObject(raw) ==
    LET start == SelectInSeq(raw, LAMBDA c : c = "{")
        scan == FoldLeft(Scanned, [seen |-> FALSE, depth |-> 0, inStr |-> FALSE, esc |-> FALSE, text |-> << >>],
                         IF start = 0 THEN << >> ELSE SubSeq(raw, start, Len(raw)))
    IN IF scan.seen /\ scan.depth = 0 THEN scan.text ELSE << >>

Raw(reply) == reply.before \o reply.body \o reply.after

\* parseVerdicts, parseOrderingPositions: the object must be the JSON it should be, with the
\* mode's key and as many values as the rubric has items; a verdict must be a number.
Usable(row, reply) ==
    /\ ExtractJsonObject(Raw(reply)) = reply.body /\ reply.body # << >>
    /\ reply.key = row.mode
    /\ Len(reply.values) = row.items
    /\ row.mode = "rubric" => \A i \in DOMAIN reply.values : reply.values[i] # Absent

-----------------------------------------------------------------------------
Isqrt(n) == CHOOSE k \in 0..1000 : k * k <= n /\ (k + 1) * (k + 1) > n

\* Kendall's tau-b against the gold order, in thousandths; the gold has no ties.
KendallTauB(got) ==
    LET pairs == {p \in (DOMAIN got) \X (DOMAIN got) : p[1] < p[2]}
        concordant == Cardinality({p \in pairs : got[p[1]] < got[p[2]]})
        discordant == Cardinality({p \in pairs : got[p[1]] > got[p[2]]})
        untied == concordant + discordant
        size == IF untied = 0 THEN 0
                ELSE Isqrt((1000000 * (concordant - discordant) * (concordant - discordant))
                             \div (Cardinality(pairs) * untied))
    IN IF concordant >= discordant THEN size ELSE -size

\* Slip: an item the answer lacks stands before the others.
Placed_First(positions) == [i \in DOMAIN positions |-> IF positions[i] = Absent THEN 0 ELSE positions[i]]
\* Items the answer lacks share a place behind all others.
Placed(positions) ==
    [i \in DOMAIN positions |-> IF positions[i] = Absent THEN Max({0} \cup ToSet(positions)) + 1 ELSE positions[i]]

OrderingScore(positions) ==
    IF Len(positions) < 2 THEN IF positions = <<Absent>> THEN 0 ELSE 1000
    ELSE (1000 + KendallTauB(Placed(positions))) \div 2

\* A verdict in hundredths is rounded to nothing, half or full, and they are averaged.
Credit(v) == IF v <= 0 THEN 0 ELSE IF v < 75 THEN 500 ELSE 1000
RubricFractionScore(verdicts) ==
    FoldLeft(LAMBDA n, v : n + Credit(v), 0, verdicts) \div Len(verdicts)

RowScore(row, reply) ==
    IF row.mode = "ordering" THEN OrderingScore(reply.values) ELSE RubricFractionScore(reply.values)

-----------------------------------------------------------------------------
Judging == bjStage = "judging" /\ Len(bjFree) < Len(bjWorld)
Row == bjWorld[Len(bjFree) + 1]

\* A row without a rubric is not asked.
NoRubric ==
    /\ Judging /\ Row.items = 0
    /\ bjFree' = Append(bjFree, NoScore) /\ bjHeard' = Append(bjHeard, NothingHeard)
    /\ UNCHANGED <<bjWorld, bjStage, bjTries, bjReport>>

\* Slip: the second reply that is of no use scores nothing.
Attempt_Zeroes ==
    /\ Judging /\ Row.items > 0
    /\ \E reply \in BjReplies :
         IF Usable(Row, reply)
         THEN bjFree' = Append(bjFree, RowScore(Row, reply)) /\ bjHeard' = Append(bjHeard, reply) /\ bjTries' = 0
         ELSE IF bjTries = 1
         THEN bjFree' = Append(bjFree, 0) /\ bjHeard' = Append(bjHeard, NothingHeard) /\ bjTries' = 0
         ELSE bjTries' = 1 /\ UNCHANGED <<bjFree, bjHeard>>
    /\ UNCHANGED <<bjWorld, bjStage, bjReport>>

\* A reply is scored, or the row asked once more, or left out.
Attempt ==
    /\ Judging /\ Row.items > 0
    /\ \E reply \in BjReplies :
         IF Usable(Row, reply)
         THEN bjFree' = Append(bjFree, RowScore(Row, reply)) /\ bjHeard' = Append(bjHeard, reply) /\ bjTries' = 0
         ELSE IF bjTries = 1
         THEN bjFree' = Append(bjFree, NoScore) /\ bjHeard' = Append(bjHeard, NothingHeard) /\ bjTries' = 0
         ELSE bjTries' = 1 /\ UNCHANGED <<bjFree, bjHeard>>
    /\ UNCHANGED <<bjWorld, bjStage, bjReport>>

\* Slip: equal scores get the ranks of their places.
RankAvg_ByPlace(scores) ==
    [i \in DOMAIN scores |->
       2 * Quantify(DOMAIN scores, LAMBDA j : scores[j] < scores[i] \/ (scores[j] = scores[i] /\ j <= i))]

\* Twice the rank of every score, equal ones sharing the mean of their places.
RankAvg(scores) ==
    [i \in DOMAIN scores |->
       2 * Quantify(DOMAIN scores, LAMBDA j : scores[j] < scores[i])
         + Quantify(DOMAIN scores, LAMBDA j : scores[j] = scores[i]) + 1]

\* The rows with a score, in order, against the official scores of the same rows.
AgreementReport ==
    /\ bjStage = "judging" /\ Len(bjFree) = Len(bjWorld)
    /\ bjStage' = "reported"
    /\ LET judged == SelectSeq([i \in DOMAIN bjFree |-> i], LAMBDA i : bjFree[i] # NoScore)
           free == [n \in DOMAIN judged |-> bjFree[judged[n]]]
           official == [n \in DOMAIN judged |-> bjWorld[judged[n]].official]
       IN bjReport' = [n |-> Len(judged), excluded |-> Len(bjFree) - Len(judged),
                       bias |-> FoldLeft(LAMBDA s, n : s + free[n] - official[n], 0, [n \in DOMAIN judged |-> n]),
                       agree |-> Quantify(DOMAIN judged, LAMBDA n : (free[n] >= 500) = (official[n] >= 500)),
                       ranks |-> RankAvg(free)]
    /\ UNCHANGED <<bjWorld, bjTries, bjFree, bjHeard>>

-----------------------------------------------------------------------------
\* Slip: the last place a word of the item stands at.
LiteralItemPositions_Last(answer, rubric) ==
    [i \in DOMAIN rubric |->
       LET there == SelectSeq(rubric[i], LAMBDA w : Contains(answer, w))
       IN IF rubric[i] = << >> \/ 100 * Len(there) < 34 * Len(rubric[i]) THEN Absent
          ELSE Max({n \in DOMAIN answer : Contains(there, answer[n])})]

\* An item with a third of its words in the answer stands where the first of them does.
LiteralItemPositions(answer, rubric) ==
    [i \in DOMAIN rubric |->
       LET there == SelectSeq(rubric[i], LAMBDA w : Contains(answer, w))
       IN IF rubric[i] = << >> \/ 100 * Len(there) < 34 * Len(rubric[i]) THEN Absent
          ELSE Min({n \in DOMAIN answer : Contains(there, answer[n])})]

MatchLiterally ==
    /\ bjStage = "literal"
    /\ bjStage' = "matched"
    /\ bjReport' = LiteralItemPositions(bjWorld.answer, bjWorld.rubric)
    /\ UNCHANGED <<bjWorld, bjTries, bjFree, bjHeard>>

BjNext == NoRubric \/ Attempt \/ AgreementReport \/ MatchLiterally

-----------------------------------------------------------------------------
\* The object of a reply is read whatever chatter without a brace stands around it, with
\* braces and quotes in its strings.
FirstObjectRead ==
    bjStage = "judging" =>
      \A reply \in BjReplies :
        reply.body # << >> /\ ~Contains(reply.before, "{") => ExtractJsonObject(Raw(reply)) = reply.body

\* "EXCLUDED from the mean, never silently zeroed" (beamJudge.ts:153): a row has a score
\* exactly when one of its two replies was usable, a score of nothing is one the reply
\* gave, and the rows left out are counted and enter no statistic.
NeverZeroed ==
    /\ \A i \in DOMAIN bjFree :
         /\ bjFree[i] = NoScore <=> bjHeard[i] = NothingHeard
         /\ bjFree[i] = 0 /\ bjWorld[i].mode = "rubric" =>
              \A v \in ToSet(bjHeard[i].values) : v <= 0
    /\ bjStage = "reported" =>
         LET judged == {i \in DOMAIN bjFree : bjHeard[i] # NothingHeard}
         IN /\ bjReport.n + bjReport.excluded = Len(bjWorld)
            /\ bjReport.bias = MapThenSumSet(LAMBDA i : bjFree[i] - bjWorld[i].official, judged)

\* Ranks are fair to ties: they sum to those of distinct scores, and equal scores share one.
RanksBalanced ==
    bjStage = "reported" =>
      LET free == SelectSeq(bjFree, LAMBDA s : s # NoScore)
          r == bjReport.ranks
      IN /\ FoldLeft(+, 0, r) = Len(free) * (Len(free) + 1)
         /\ \A i, j \in DOMAIN free : free[i] < free[j] <=> r[i] < r[j]

\* Order is rewarded: putting two topics that stand in the wrong order right never costs,
\* and only an answer with every topic in order, the last perhaps missing, gets full marks.
Exchanged(p, i, j) == [p EXCEPT ![i] = p[j], ![j] = p[i]]
OrderRewarded ==
    \A n \in DOMAIN bjHeard : bjHeard[n] # NothingHeard /\ bjWorld[n].mode = "ordering" =>
      LET p == bjHeard[n].values
      IN /\ \A i \in 1..(Len(p) - 1) :
              p[i] # Absent /\ p[i + 1] # Absent /\ p[i] > p[i + 1]
                => OrderingScore(Exchanged(p, i, i + 1)) >= bjFree[n]
         /\ Len(p) > 1 => (bjFree[n] = 1000 <=>
              /\ \A i \in 1..(Len(p) - 1) : p[i] # Absent
              /\ \A i, j \in DOMAIN p : i < j /\ p[j] # Absent => p[i] < p[j])

\* An answer that quotes the items of a rubric without common words, in any order and some
\* of them not at all, is given that very order by the literal matcher.
Quoted(i) == \E n \in DOMAIN bjWorld.answer : Contains(bjWorld.rubric[i], bjWorld.answer[n])
LiteralExact ==
    bjStage = "matched" =>
      \A i, j \in DOMAIN bjWorld.rubric :
        /\ bjReport[i] = Absent <=> ~Quoted(i)
        /\ i # j /\ Quoted(i) /\ Quoted(j) =>
             (bjReport[i] < bjReport[j] <=> \E m \in DOMAIN bjWorld.order : \E n \in m..Len(bjWorld.order) :
                                              bjWorld.order[m] = i /\ bjWorld.order[n] = j)

\* From a judge's reply to the report on the judge.
JudgeSound == FirstObjectRead /\ NeverZeroed /\ RanksBalanced /\ OrderRewarded /\ LiteralExact
=============================================================================
