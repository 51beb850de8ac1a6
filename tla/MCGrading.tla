----------------------------- MODULE MCGrading -----------------------------
(***************************************************************************)
(* Bounds for what the benchmark asks and what it does with an answer:     *)
(* Corpus, Grading, BeamJudge and BeamScore, composed into one part of     *)
(* MCKernels.                                                              *)
(***************************************************************************)
EXTENDS Corpus, Grading, BeamJudge, BeamScore

\* Lines that answer, mention an option or a number, or cite; at most three of them.
Mark(kind, value) == [kind |-> kind, value |-> value]
CiteLine(tokens) == [kind |-> "citations", value |-> <<"cites">>, tokens |-> tokens]
CitedPlain == CiteLine(<<(<<"[", "e1", "]", ".">>), <<"none">>, <<"e1">>>>)
CitedQuoted == CiteLine(<<(<<"(", "e2", ")">>), <<"]">>, <<"e1", ":">>>>)
McqMarks == {Mark("answer", 2), Mark("answer", 5), Mark("option", 3), Mark("option", 9), Mark("number", 1),
             CitedPlain, CitedQuoted}
TextMarks == {Mark("answer", <<"the", "kitchen", ".">>), Mark("answer", Blank),
              Mark("text", <<"garden">>), Mark("text", Blank), CitedPlain, CitedQuoted}
UpToThree(marks) == UNION {[1..n -> marks] : n \in 0..3}
SomeRelevant == {{}, {<<"e1">>}, {<<"e1">>, <<"e2">>}}
SomeGdReplies ==
    [query : [kind : {"mcq"}, options : {3}, correct : {2}, relevant : SomeRelevant],
     reply : UpToThree(McqMarks), ids : {{"e1", "e2"}}]
    \cup
    [query : [kind : {"free-form"}, expected : {{<<"kitchen">>, <<"the", "garden">>}}, relevant : {{<<"e1">>}}],
     reply : UpToThree(TextMarks), ids : {{"e1", "e2"}}]

\* Up to eleven pairs on which the systems differ; three or four p-values, ties among them.
Paired(a, b, both) == [i \in 1..(a + b + both) |-> <<i <= a \/ i > a + b, i > a>>]
SomeGdContests ==
    {[pairs |-> Paired(a, b, both), ps |-> <<5>>] : a \in 0..9, b \in 0..2, both \in 0..1}
    \cup {[pairs |-> << >>, ps |-> ps] : ps \in [1..3 -> {1, 2, 5, 20, 50}] \cup [1..4 -> {2, 5, 20}]}

-----------------------------------------------------------------------------
\* Braces and quotes inside of strings, objects in objects, chatter with braces around them.
Plain == <<"{", "q", "x", "q", "x", "}">>
SomeBodies == {<<"{", "q", "}", "q", "}">>, <<"{", "q", "\\", "q", "}", "q", "}">>, <<"{", "{", "x", "}", "}">>}
Reply(before, body, after, key, values) ==
    [before |-> before, body |-> body, after |-> after, key |-> key, values |-> values]
SomeBjReplies ==
    {Reply(<<"x">>, Plain, << >>, "ordering", v) : v \in [1..3 -> {Absent, 1, 2, 3}]}
    \cup {Reply(<< >>, Plain, <<"x">>, "rubric", v) : v \in [1..1 -> {0, 30, 80}] \cup [1..2 -> {Absent, 0, 60}]}
    \cup {Reply(before, body, after, "rubric", <<100>>) :
            before \in {<<"q", "x">>, <<"{", "x">>}, body \in SomeBodies, after \in {<<"}", "x">>, <<"{", "}">>}}
    \cup {Reply(<<"x">>, << >>, << >>, "none", << >>)}
BjRow(mode, items, official) == [mode |-> mode, items |-> items, official |-> official]
SomeBjRuns ==
    {<<BjRow("ordering", 3, 700)>>,
     <<BjRow("rubric", 2, 0), BjRow("ordering", 0, 400), BjRow("ordering", 3, 1000)>>,
     <<BjRow("rubric", 1, 500), BjRow("rubric", 1, 1000), BjRow("rubric", 1, 250)>>}

\* An answer that quotes items in an order and comes back to one of them in the end.
BjRubric == <<(<<"a1", "a2">>), <<"b1", "b2", "b3">>, <<"c1">>>>
QuoteOf(order, again) ==
    [answer |-> FlattenSeq([n \in DOMAIN order |-> Append(BjRubric[order[n]], "z")])
                  \o (IF again = 0 THEN << >> ELSE <<Last(BjRubric[order[again]])>>),
     rubric |-> BjRubric, order |-> order]
SomeOrders == {<< >>, <<2>>, <<1, 2>>, <<3, 1>>, <<2, 1, 3>>, <<3, 2, 1>>}
SomeBjQuotes == UNION {{QuoteOf(order, again) : again \in {0} \cup DOMAIN order} : order \in SomeOrders}

-----------------------------------------------------------------------------
\* Two units; a document with turns, one with a single marker, one without; queries of three
\* categories, one of them abstention, whose units alternate.
Doc(id, unit, head, turns, context) == [id |-> id, unit |-> unit, head |-> head, turns |-> turns, context |-> context]
Question(id, unit, meta, named, rubric, ordering, answer) ==
    [id |-> id, unit |-> unit, meta |-> meta, named |-> named, rubric |-> rubric,
     ordering |-> ordering, times |-> << >>, answer |-> answer]
SomeSlices ==
    {[docs |-> <<Doc(1, 1, {"h"}, <<{"a", "b"}, {"b", "c"}, {"d"}>>, {"x"}), Doc(2, 2, {"a"}, <<{"b"}>>, {}),
                 Doc(3, 1, {"c", "d"}, << >>, {})>>,
      queries |-> <<Question(1, 1, 0, 2, <<(<<"a", "b">>), <<"b", "d">>>>, <<(<<"c", "of">>), << >>>>, << >>),
                    Question(2, 2, 3, 2, << >>, << >>, <<(<<"a", "b">>), <<"z", "a", "of", "a", "b", "c">>>>),
                    Question(3, 2, 0, 2, <<(<<"of">>)>>, << >>, << >>),
                    Question(4, 2, 0, 1, <<(<<"a">>)>>, << >>, << >>),
                    Question(5, 1, 0, 3, << >>, << >>, << >>),
                    Question(6, 1, 1, 2, <<(<<"c", "d", "x", "a">>), <<"b">>>>, << >>, << >>)>>]}
SomeFlags == [cats : {{}, {2, 3}}, units : {{}, {2}}, perCategory : {1, 9}, limit : {3, 9},
              seed : {0, 1}, abstention : BOOLEAN]
SomeReturns == {[returned |-> <<2, 1, 9, 3>>, packed |-> <<1, 2>>], [returned |-> << >>, packed |-> <<4>>],
                [returned |-> <<1, 1, 2>>, packed |-> << >>]}

-----------------------------------------------------------------------------
\* Rows with a blank line, a line of two sentences, a fact beyond the end, no facts named;
\* targets too small for the facts, just enough, and more than there is.
CpRow(lines, supporting, says) == [lines |-> lines, supporting |-> supporting, says |-> says]
SomeRows ==
    <<CpRow(<<(<<1, 2>>), << >>, <<2>>, <<3>>>>, {2, 9}, [n \in 1..4 |-> FALSE]),
      CpRow(<<(<< >>), <<1>>, <<1, 1>>>>, NotGiven, <<FALSE, FALSE, TRUE>>),
      CpRow(<<(<<2>>)>>, {}, <<TRUE>>)>>
SomeSplits == [rows : {SomeRows}, size : {1, 2, 30}, target : {1, 4, 6, 7, 8, 20}]

-----------------------------------------------------------------------------
gradeVars == <<corpusVars, gradingVars, judgeVars, beamVars>>
GradeIdle == CpIdle /\ GdIdle /\ BjIdle /\ BmIdle
GradeInit == \/ CpInit /\ GdIdle /\ BjIdle /\ BmIdle
             \/ CpIdle /\ GdInit /\ BjIdle /\ BmIdle
             \/ CpIdle /\ GdIdle /\ BjInit /\ BmIdle
             \/ CpIdle /\ GdIdle /\ BjIdle /\ BmInit
GradeNext == \/ CpNext /\ UNCHANGED <<gradingVars, judgeVars, beamVars>>
             \/ GdNext /\ UNCHANGED <<corpusVars, judgeVars, beamVars>>
             \/ BjNext /\ UNCHANGED <<corpusVars, gradingVars, beamVars>>
             \/ BmNext /\ UNCHANGED <<corpusVars, gradingVars, judgeVars>>
=============================================================================
