------------------------------- MODULE Grading -------------------------------
(***************************************************************************)
(* How an answer of the benchmark is read and graded (src/eval/mcq.ts) and *)
(* how two systems are compared over many of them (src/eval/scorer.ts).    *)
(*                                                                         *)
(* A reply is the sequence of marks the parser's patterns find in it, one  *)
(* per line; a free-form answer and a cited id are sequences of pieces, of *)
(* which some are words or ids and some are punctuation.                   *)
(***************************************************************************)
EXTENDS Integers, Sequences, FiniteSets, SequencesExt, FiniteSetsExt, Combinatorics

CONSTANTS
    GdReplies,    \* bound: questions and the replies to them
    GdContests    \* bound: paired outcomes of two systems, and p-values reported together

VARIABLES
    gdWorld,      \* a question and its reply, or a contest
    gdStage,      \* asked, parsed, scored; or paired, tested, adjusted
    gdAnswer,     \* the parsed answer: chosen, cited
    gdScore,      \* correct, and precision, recall and F1 as fractions
    gdTest        \* the winner, and the adjusted p-values

gradingVars == <<gdWorld, gdStage, gdAnswer, gdScore, gdTest>>

None == 0
Blank == << >>
NoGrade == << >>
GdIdle == /\ gdWorld = << >> /\ gdStage = "off" /\ gdAnswer = NoGrade
          /\ gdScore = NoGrade /\ gdTest = NoGrade
GdInit == /\ \/ gdWorld \in GdReplies /\ gdStage = "asked"
             \/ gdWorld \in GdContests /\ gdStage = "paired"
          /\ gdAnswer = NoGrade /\ gdScore = NoGrade /\ gdTest = NoGrade

-----------------------------------------------------------------------------
Of(reply, kind) == SelectSeq(reply, LAMBDA m : m.kind = kind)
Within(n, options) == n \in 1..options

\* Slip: the first ANSWER counts.
ChosenOption_First(reply, options) ==
    LET answers == Of(reply, "answer")
        spoken == Of(reply, "option")
        numbers == SelectSeq(reply, LAMBDA m : m.kind \in {"option", "number"} /\ Within(m.value, options))
    IN IF answers # << >> THEN IF Within(answers[1].value, options) THEN answers[1].value ELSE None
       ELSE IF spoken # << >> /\ Within(Last(spoken).value, options) THEN Last(spoken).value
       ELSE IF numbers # << >> THEN numbers[1].value ELSE None

\* The last "ANSWER: n"; without one the last "Option n", without that the first number;
\* an ANSWER out of range is not replaced.
ChosenOption(reply, options) ==
    LET answers == Of(reply, "answer")
        spoken == Of(reply, "option")
        numbers == SelectSeq(reply, LAMBDA m : m.kind \in {"option", "number"} /\ Within(m.value, options))
    IN IF answers # << >> THEN IF Within(Last(answers).value, options) THEN Last(answers).value ELSE None
       ELSE IF spoken # << >> /\ Within(Last(spoken).value, options) THEN Last(spoken).value
       ELSE IF numbers # << >> THEN numbers[1].value ELSE None

LineText(m) == IF m.kind = "answer" THEN <<"answer:">> \o m.value ELSE m.value

\* The first "ANSWER: text"; the pattern runs on to the next text when its own line is blank.
\* Without a match, the first line that is neither blank nor the citations.
ChosenText(reply) ==
    LET at == {i \in DOMAIN reply : reply[i].kind = "answer"}
        after == {i \in DOMAIN reply : i > Min(at) /\ LineText(reply[i]) # Blank}
        lines == SelectSeq(reply, LAMBDA m : m.kind # "citations" /\ LineText(m) # Blank)
    IN IF at # {} /\ reply[Min(at)].value # Blank THEN reply[Min(at)].value
       ELSE IF at # {} /\ after # {} THEN LineText(reply[Min(after)])
       ELSE IF lines = << >> THEN Blank ELSE LineText(lines[1])

Stops == {".", "!", ",", ":"}
\* Trailing punctuation goes, then a leading article.
NormaliseFreeFormAnswer(text) ==
    LET cut == SubSeq(text, 1, Max({0} \cup {i \in DOMAIN text : text[i] \notin Stops}))
    IN IF Len(cut) > 1 /\ cut[1] = "the" THEN Tail(cut) ELSE cut

Wrappers == {"[", "]", "(", ")", "*", ".", ":"}
\* Slip: only what stands before the id is stripped.
NormalizeCitationId_Front(token) ==
    SubSeq(token, Min({Len(token) + 1} \cup {i \in DOMAIN token : token[i] \notin Wrappers}), Len(token))
\* What wraps an id, on either side, is stripped.
NormalizeCitationId(token) ==
    LET kept == {i \in DOMAIN token : token[i] \notin Wrappers}
    IN IF kept = {} THEN Blank ELSE SubSeq(token, Min(kept), Max(kept))

\* An id is its pieces; blank ones and "none" are dropped.
ParseCitationList(tokens) ==
    SelectSeq([i \in DOMAIN tokens |-> NormalizeCitationId(tokens[i])],
              LAMBDA id : id # Blank /\ id # <<"none">>)

\* The last CITATIONS line of a multiple choice, the first of a free-form answer.
Cited(query, reply) ==
    LET lines == Of(reply, "citations")
    IN IF lines = << >> THEN << >>
       ELSE ParseCitationList(IF query.kind = "mcq" THEN Last(lines).tokens ELSE lines[1].tokens)

ParseOutput ==
    /\ gdStage = "asked"
    /\ gdStage' = "parsed"
    /\ gdAnswer' = [chosen |-> IF gdWorld.query.kind = "mcq"
                               THEN ChosenOption(gdWorld.reply, gdWorld.query.options)
                               ELSE ChosenText(gdWorld.reply),
                    cited |-> Cited(gdWorld.query, gdWorld.reply)]
    /\ UNCHANGED <<gdWorld, gdScore, gdTest>>

-----------------------------------------------------------------------------
\* Slip: an id cited twice counts twice.
ScoreCitations_Twice(cited, relevant) ==
    LET tp == Len(SelectSeq(cited, LAMBDA id : id \in relevant))
        p == IF relevant = {} \/ cited = << >> THEN <<IF relevant = {} /\ cited = << >> THEN 1 ELSE 0, 1>>
             ELSE <<tp, Len(cited)>>
        r == IF cited = << >> /\ relevant # {} THEN <<0, 1>>
             ELSE IF relevant = {} THEN <<1, 1>> ELSE <<tp, Cardinality(relevant)>>
        down == p[1] * r[2] + r[1] * p[2]
    IN [precision |-> p, recall |-> r, f1 |-> IF down = 0 THEN <<0, 1>> ELSE <<2 * p[1] * r[1], down>>]

\* Precision and recall with their conventions for empty sets, and their harmonic mean.
ScoreCitations(cited, relevant) ==
    LET tp == Cardinality(ToSet(cited) \cap relevant)
        p == IF relevant = {} \/ cited = << >> THEN <<IF relevant = {} /\ cited = << >> THEN 1 ELSE 0, 1>>
             ELSE <<tp, Cardinality(ToSet(cited))>>
        r == IF cited = << >> /\ relevant # {} THEN <<0, 1>>
             ELSE IF relevant = {} THEN <<1, 1>> ELSE <<tp, Cardinality(relevant)>>
        down == p[1] * r[2] + r[1] * p[2]
    IN [precision |-> p, recall |-> r, f1 |-> IF down = 0 THEN <<0, 1>> ELSE <<2 * p[1] * r[1], down>>]

\* scoreMcq, scoreFreeForm: an answer that could not be read is a miss.
Correct(query, chosen) ==
    IF query.kind = "mcq" THEN chosen # None /\ chosen = query.correct
    ELSE chosen # Blank /\ NormaliseFreeFormAnswer(chosen) \in
                             {NormaliseFreeFormAnswer(x) : x \in query.expected}

ScoreAnswer ==
    /\ gdStage = "parsed"
    /\ gdStage' = "scored"
    /\ gdScore' = [correct |-> Correct(gdWorld.query, gdAnswer.chosen)]
                  @@ ScoreCitations(gdAnswer.cited, gdWorld.query.relevant)
    /\ UNCHANGED <<gdWorld, gdAnswer, gdTest>>

-----------------------------------------------------------------------------
Below(n, k) == MapThenSumSet(LAMBDA i : choose(n, i), 0..k)

\* Slip: one tail of the distribution.
Significant_OneTail(a, b) == a + b > 0 /\ 20 * Below(a + b, Min({a, b})) < 2 ^ (a + b)
\* The exact two-tailed binomial test on the discordant pairs, at 0.05.
Significant(a, b) == a + b > 0 /\ 40 * Below(a + b, Min({a, b})) < 2 ^ (a + b)

\* Only the pairs on which the systems differ decide.
McNemar(pairs) ==
    LET a == Cardinality({i \in DOMAIN pairs : pairs[i][1] /\ ~pairs[i][2]})
        b == Cardinality({i \in DOMAIN pairs : ~pairs[i][1] /\ pairs[i][2]})
    IN IF ~Significant(a, b) THEN "tie" ELSE IF a > b THEN "A" ELSE "B"

Compare ==
    /\ gdStage = "paired"
    /\ gdStage' = "tested"
    /\ gdTest' = [winner |-> McNemar(gdWorld.pairs), adjusted |-> << >>]
    /\ UNCHANGED <<gdWorld, gdAnswer, gdScore>>

\* All p-values below are scaled by lcm(1..4), so that dividing by a rank is exact.
Scale == 12
SortedPlaces(ps) == SetToSortSeq(DOMAIN ps, LAMBDA i, j : ps[i] < ps[j] \/ (ps[i] = ps[j] /\ i < j))

\* Slip: no minimum is carried down the ranks.
BenjaminiHochberg_Raw(ps) ==
    LET at == SortedPlaces(ps)
        rank == [i \in DOMAIN ps |-> CHOOSE r \in DOMAIN at : at[r] = i]
    IN [i \in DOMAIN ps |-> Min({Scale * 100, (Scale * ps[i] * Len(ps)) \div rank[i]})]

\* From the largest down: p n / rank, never above what the rank above it got, and 1 at most
\* (a p-value is in hundredths).
BenjaminiHochberg(ps) ==
    LET at == SortedPlaces(ps)
        Step(acc, r) ==
          LET adj == Min({acc.prev, (Scale * ps[at[r]] * Len(ps)) \div r})
          IN [prev |-> adj, out |-> [acc.out EXCEPT ![at[r]] = adj]]
    IN FoldRight(LAMBDA r, acc : Step(acc, r), [r \in DOMAIN ps |-> r],
                 [prev |-> Scale * 100, out |-> [i \in DOMAIN ps |-> 0]]).out

Adjust ==
    /\ gdStage = "tested"
    /\ gdStage' = "adjusted"
    /\ gdTest' = [gdTest EXCEPT !.adjusted = BenjaminiHochberg(gdWorld.ps)]
    /\ UNCHANGED <<gdWorld, gdAnswer, gdScore>>

GdNext == ParseOutput \/ ScoreAnswer \/ Compare \/ Adjust

-----------------------------------------------------------------------------
\* The conclusion of a multiple choice is what counts: whatever the model reasons before
\* it, an ANSWER it ends with is taken, and a later mention without ANSWER changes nothing.
ConclusionCounts ==
    gdStage = "parsed" /\ gdWorld.query.kind = "mcq" =>
      LET options == gdWorld.query.options
          End(kind, n) == Append(gdWorld.reply, [kind |-> kind, value |-> n])
      IN /\ gdAnswer.chosen \in 0..options
         /\ \A n \in 1..options :
              /\ ChosenOption(End("answer", n), options) = n
              /\ Of(gdWorld.reply, "answer") # << >> =>
                   ChosenOption(End("option", n), options) = gdAnswer.chosen

\* What an answer cites does not depend on how it writes the ids: in brackets, quoted, with
\* a full stop, twice (mcq.ts:257-266).
Meant(tokens) == {id \in UNION {ToSet(t) : t \in ToSet(tokens)} : id \in gdWorld.ids}
CitedAsMeant ==
    gdStage = "parsed" =>
      LET lines == Of(gdWorld.reply, "citations")
          line == IF gdWorld.query.kind = "mcq" THEN lines[Len(lines)] ELSE lines[1]
      IN ToSet(gdAnswer.cited) = (IF lines = << >> THEN {} ELSE {<<id>> : id \in Meant(line.tokens)})

\* F1 is full exactly for a citation of what is relevant, and nothing else, and it is
\* nothing exactly when no relevant event is cited although there are some, or some are
\* cited although none is; precision and recall are fractions of one.
F1Exact ==
    gdStage = "scored" =>
      LET cited == ToSet(gdAnswer.cited)
          relevant == gdWorld.query.relevant
      IN /\ gdScore.f1[1] = gdScore.f1[2] <=> cited = relevant
         /\ gdScore.f1[1] = 0 <=> cited # relevant /\ cited \cap relevant = {}
         /\ \A f \in {gdScore.precision, gdScore.recall, gdScore.f1} : f[1] <= f[2] /\ f[2] > 0

\* A winner has at least six more wins than the other, is the other's loser, and keeps
\* winning when it wins once more.
Flipped(pairs) == [i \in DOMAIN pairs |-> <<pairs[i][2], pairs[i][1]>>]
Opposite == [A |-> "B", B |-> "A", tie |-> "tie"]
Wins(pairs, x, y) == Quantify(DOMAIN pairs, LAMBDA i : pairs[i][x] /\ ~pairs[i][y])
WinnerEarned ==
    gdStage = "tested" =>
      /\ gdTest.winner = "A" => /\ Wins(gdWorld.pairs, 1, 2) >= Wins(gdWorld.pairs, 2, 1) + 6
                                /\ McNemar(Append(gdWorld.pairs, <<TRUE, FALSE>>)) = "A"
      /\ McNemar(Flipped(gdWorld.pairs)) = Opposite[gdTest.winner]
      /\ \A same \in BOOLEAN : McNemar(Append(gdWorld.pairs, <<same, same>>)) = gdTest.winner

\* Adjusted p-values keep the order of the p-values, equal ones stay equal, none shrinks,
\* and a result is reported at a level exactly when the step-up rule rejects it there: some
\* p-value not below it has p n <= level * rank.
AdjustedStepUp ==
    gdStage = "adjusted" =>
      LET ps == gdWorld.ps
          adj == gdTest.adjusted
          upTo(i) == Quantify(DOMAIN ps, LAMBDA j : ps[j] <= ps[i])
      IN \A i \in DOMAIN ps :
           /\ adj[i] >= Scale * ps[i]
           /\ \A j \in DOMAIN ps : ps[i] <= ps[j] => adj[i] <= adj[j]
           /\ \A level \in {5, 20, 50} :
                adj[i] <= Scale * level <=>
                  \E j \in DOMAIN ps : ps[j] >= ps[i] /\ ps[j] * Len(ps) <= level * upTo(j)

\* From a reply to a test of two systems.
GradingSound == ConclusionCounts /\ CitedAsMeant /\ F1Exact /\ WinnerEarned /\ AdjustedStepUp
=============================================================================
