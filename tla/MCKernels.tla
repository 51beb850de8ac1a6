------------------------------ MODULE MCKernels ------------------------------
(***************************************************************************)
(* The TLC instance of the retrieval kernels: the router's cut for two     *)
(* queries at once, the router index, the citations of ask(), the          *)
(* chronicle, the evidence of the CSM baseline, what the AMB bridge        *)
(* returns, the calls they make (embeddings, chats, write-time passes),    *)
(* the settings they run with, and the grading of answers.  They share no  *)
(* state, so a behaviour is one of them, chosen at the start; the worlds   *)
(* below are their inputs.                                                 *)
(***************************************************************************)
EXTENDS Evidence, Chronicle, RouterIndex, Citations, AmbReturn, EmbedCache, ChatClient, OrganizePool,
        Settings, MCGrading, Routing

VARIABLE kernel     \* which part runs; never changes

EvCorpus5 == <<"a1", "a2", "b1", "b2", "b3">>
EvShards5 == "a1" :> "a" @@ "a2" :> "a" @@ "b1" :> "b" @@ "b2" :> "b" @@ "b3" :> "b"
EvCosts5 == "a1" :> 1 @@ "a2" :> 2 @@ "b1" :> 3 @@ "b2" :> 1 @@ "b3" :> 1

\* Packets that cite nothing, an event twice, an event of each shard, a phantom.
SomePackets == {<< >>, <<"b2", "none", "b2">>, <<"a2", "b1">>, <<"x", "a1">>}
SomeRecalls == {<< >>, <<[shard |-> "b", support |-> <<"b3", "b1">>],
                         [shard |-> "a", support |-> <<"a2">>]>>}
SomeTimelines == {<< >>, <<"a1", "b2">>}
SomeCandidates == [shards : {<<"a", "b">>, <<"b">>, << >>}, confident : BOOLEAN]
SomeSims == {"a1" :> 2 @@ "a2" :> 1 @@ "b1" :> 0 @@ "b2" :> 1 @@ "b3" :> 0,
             "a1" :> 0 @@ "a2" :> 0 @@ "b1" :> 1 @@ "b2" :> 2 @@ "b3" :> 2,
             "a1" :> 1 @@ "a2" :> 1 @@ "b1" :> 1 @@ "b2" :> 1 @@ "b3" :> 1}
SomeTerms == {"a1" :> {"t"} @@ "a2" :> {"t", "u"} @@ "b1" :> {} @@ "b2" :> {"u"} @@ "b3" :> {"t"},
              "a1" :> {} @@ "a2" :> {"u"} @@ "b1" :> {"u"} @@ "b2" :> {"u", "v"} @@ "b3" :> {"v"}}
Off == [floorK |-> 0, unionK |-> 0, minCos |-> 0, beatsBest |-> FALSE, expandK |-> 0,
        expandMax |-> 0, lexicalK |-> 0, lexicalMax |-> 0, entityK |-> 0, entityMax |-> 0,
        budget |-> 6, header |-> 1]
SomeConfigs ==
    {Off,
     [Off EXCEPT !.floorK = 3, !.expandK = 1, !.expandMax = 4, !.entityK = 2, !.entityMax = 5],
     [Off EXCEPT !.floorK = 2, !.entityK = 1, !.entityMax = 4, !.budget = 3],
     [Off EXCEPT !.unionK = 1, !.beatsBest = TRUE, !.lexicalK = 1, !.lexicalMax = 4],
     [Off EXCEPT !.unionK = 2, !.minCos = 1, !.expandK = 2, !.expandMax = 5, !.header = 7]}

-----------------------------------------------------------------------------
\* Five events in two shards; their ids repeat.
FiveEvents == {<<1, 1>>, <<1, 2>>, <<1, 3>>, <<2, 1>>, <<2, 2>>}
ByEvent(a, b, c, d, e) ==
    <<1, 1>> :> a @@ <<1, 2>> :> b @@ <<1, 3>> :> c @@ <<2, 1>> :> d @@ <<2, 2>> :> e

\* A storyline and an interloper; one shared term; two storylines; no overlap at all.
SomeTexts ==
    {ByEvent(<<"q", "s", "t">>, <<"s", "u", "u">>, <<"t", "v">>, <<"q", "w", "x", "y">>, <<"q", "s", "t", "t">>),
     ByEvent(<<"q">>, <<"q", "s">>, <<"q">>, <<"r", "q">>, << >>),
     ByEvent(<<"q", "s", "u">>, <<"s", "u">>, <<"r", "w">>, <<"w", "x">>, <<"x", "r", "P">>),
     ByEvent(<<"s", "t", "u", "v">>, <<"q", "s">>, <<"q", "u", "w">>, <<"q", "v", "x">>, <<"w", "x", "q">>)}
SomeTimes == {ByEvent(0, 0, 1, 1, 2), ByEvent(3, 1, Undated, 0, 1), ByEvent(2, 1, 0, 2, Undated)}
SomeDates == {ByEvent({}, {}, {}, {}, {}), ByEvent({1, 4}, {}, {}, {4}, {}), ByEvent({2}, {2}, {}, {5}, {7})}
SomeWorlds ==
    [words : SomeTexts, time : SomeTimes, dates : {ByEvent({}, {}, {}, {}, {})},
     footholds : {<< >>, <<1>>, <<3, 2>>}, query : {<<"q", "r">>, <<"q", "P">>},
     spread : BOOLEAN, temporal : {FALSE}, max : {1, 2, 3, 4, 6}, tokens : {3, 8, 30},
     segments : {<< >>}]
    \cup
    [words : SomeTexts, time : SomeTimes, dates : SomeDates,
     footholds : {<< >>, <<2>>}, query : {<<"q", "r">>, <<"z">>},
     spread : {TRUE}, temporal : {TRUE}, max : {2}, tokens : {30},
     segments : {<< >>, <<{"q"}, {"w", "s"}>>, <<{"s"}, {"z"}>>}]

-----------------------------------------------------------------------------
\* Three shards; their events name a topic, a common word and a short form.
Ev(near, words, tags) == [near |-> near, words |-> words, tags |-> tags]
MCTerms == <<"amb", "auth", "authentication", "tea", "user">>
MCAlike == {<<"auth", "authentication">>}
SomeShards ==
    {1 :> <<Ev(FALSE, <<"auth">>, {}), Ev(FALSE, <<"amb", "user">>, {}), Ev(TRUE, <<"tea">>, {})>>
       @@ 2 :> <<Ev(TRUE, <<"user">>, {}), Ev(FALSE, <<"user", "auth">>, {"amb"})>>
       @@ 3 :> <<Ev(FALSE, <<"user", "user">>, {"amb"})>>,
     1 :> <<Ev(TRUE, <<"user">>, {"amb"}), Ev(TRUE, <<"authentication", "user">>, {"amb"})>>
       @@ 2 :> <<Ev(FALSE, <<"tea", "tea", "user", "user", "user">>, {})>>
       @@ 3 :> <<Ev(TRUE, <<"auth">>, {"tea"}), Ev(FALSE, << >>, {}), Ev(FALSE, <<"user">>, {}), Ev(FALSE, << >>, {})>>}
SomeRouterWorlds ==
    [events : SomeShards, unitSize : {0, 1, 2}, enrich : BOOLEAN, hybrid : BOOLEAN,
     query : {{"tea"}, {"auth", "user"}, {"authentication"}, {"user"}, {"tea", "amb", "user"}}]

-----------------------------------------------------------------------------
\* Three shards whose event ids repeat; the best event of the first comes last.
CtEv(id, text, tags, head, frags) == [id |-> id, text |-> text, tags |-> tags, head |-> head, frags |-> frags]
Frag(length, weight) == [len |-> length, score |-> weight]
OneLine == <<Frag(2, 0)>>
CitedLines == <<Frag(2, 1), Frag(1, 9), Frag(4, 0), Frag(5, 2), Frag(2, 9)>>
SomeCtEvents ==
    {1 :> <<CtEv(1, {}, {"amb"}, 2, OneLine), CtEv(2, {"q"}, {"amb"}, 2, CitedLines), CtEv(3, {"q", "r"}, {"amb"}, 1, OneLine)>>
       @@ 2 :> <<CtEv(1, {"q"}, {"r"}, 2, <<Frag(9, 9)>>), CtEv(2, {"q"}, {"s"}, 1, OneLine)>>
       @@ 3 :> <<CtEv(1, {"r"}, {}, 3, <<Frag(7, 9), Frag(3, 1)>>)>>}
CtSomeWorlds ==
    [shards : {<<2, 1, 3>>, <<3>>}, events : SomeCtEvents, indexBudget : {3, 5},
     digestBudget : {5, 9}, signals : BOOLEAN]
Solo(valid, knows, ids) == [valid |-> valid, knows |-> knows, ids |-> ids]
MCSolos == {[parts |-> <<Solo(TRUE, TRUE, <<2, 7>>)>>], [parts |-> <<Solo(TRUE, FALSE, << >>), Solo(FALSE, TRUE, << >>)>>],
            [parts |-> << >>]}
Said(s, knows, ids) == [shard |-> s, knows |-> knows, ids |-> ids]
Batch(verdicts) == [parts |-> <<[valid |-> TRUE, verdicts |-> verdicts]>>]
MCBatches == {Batch(<<Said(3, TRUE, <<1>>), Said(1, TRUE, <<3, 9>>), Said(3, FALSE, <<1>>)>>),
              Batch(<<Said(1, FALSE, <<2>>), Said(8, TRUE, <<1>>), Said(1, TRUE, <<2>>), Said(3, TRUE, <<1>>)>>),
              [parts |-> <<[valid |-> FALSE, verdicts |-> << >>]>>]}
Claim(good, support) == [good |-> good, support |-> support]
Recall(echo, claims) == [parts |-> <<[valid |-> TRUE, echo |-> echo, claims |-> claims]>>]
MCRecalls == {Recall(1, <<Claim(TRUE, <<3, 9>>), Claim(FALSE, <<1>>), Claim(TRUE, <<1>>)>>),
              Recall(3, <<Claim(TRUE, <<2>>)>>),
              [parts |-> <<[valid |-> FALSE, echo |-> 1, claims |-> << >>]>>]}
MCPackets == {[parts |-> <<[valid |-> TRUE, claims |-> <<Claim(TRUE, <<<<1, 3>>, <<8, 1>>>>), Claim(FALSE, << >>)>>]>>],
              [parts |-> << >>]}
-----------------------------------------------------------------------------
\* Two sessions of three documents; the second document is split, its dates tell a story.
Turn(doc, n, words, dates, user, salience) ==
    [doc |-> doc, turn |-> n, words |-> words, dates |-> dates, user |-> user, tokens |-> 1 + Cardinality(words),
     cue |-> user, preamble |-> doc % 2, salience |-> salience]
SomeMemories ==
    [turns : {<<Turn(1, 1, {"q"}, {}, TRUE, 1), Turn(1, 2, {"w"}, {2}, FALSE, 3),
                Turn(2, 3, {"q", "long"}, {}, TRUE, 1), Turn(2, 4, {}, {}, FALSE, 0), Turn(2, 5, {"q"}, {7}, TRUE, 4),
                Turn(2, 6, {"q", "w"}, {2, 9}, FALSE, 2), Turn(3, 7, {"w", "x"}, {}, TRUE, 9)>>,
              <<Turn(3, 4, {"x"}, {3}, TRUE, 0), Turn(3, 5, {"q"}, {3}, FALSE, 5), Turn(1, 1, {"long"}, {}, TRUE, 2)>>},
     shardSize : {0, 2}]
SomeQueries ==
    [words : {{"q", "long"}}, segments : {<< >>}, k : {2},
     intent : {{}, {"count", "mine"}, {"broad"}, {"contradiction"}, {"temporal", "abstain"}}]
    \cup [words : {{"q", "w"}}, segments : {<< >>, <<{"x"}, {"q"}>>, <<{"w"}, {"long"}>>}, k : {3},
          intent : {{"temporal"}}]
SomeFinds == {[retrieved |-> <<-1, 3, 5, -1, 3>>, packed |-> <<3, 1>>, timeline |-> t] : t \in {0, 2}}
             \cup {[retrieved |-> <<-1, -2>>, packed |-> <<2, 6, 5, 1>>, timeline |-> 0],
                   [retrieved |-> << >>, packed |-> <<1, -1>>, timeline |-> 1],
                   [retrieved |-> << >>, packed |-> << >>, timeline |-> 0]}
SomeLevers ==
    {{}, {"repair"}, {"repair", "rerank"}, {"repair", "fold", "folded", "profile", "digests"},
     {"repair", "fold", "facts", "facts paid"}, {"repair", "facts", "facts paid"}, {"repair", "observation", "observation paid", "profile"},
     {"repair", "synth", "rerank"}, {"repair", "fold", "folded", "digests", "lean", "dedupe", "excerpt", "rerank"}}
MCLimits == [summaryK |-> 3, reasoningK |-> 4, window |-> 1, buckets |-> 2, perBucket |-> 1, coverageK |-> 3,
             topK |-> 3, summarySnippets |-> 3, reasoningSnippets |-> 2, snippets |-> 1, pinned |-> 1,
             rawDocs |-> 1, returnTokens |-> 2, sessions |-> 2, sessionLines |-> 2, lean |-> 1]
MCSessionOf == <<1, 1, 2>>

-----------------------------------------------------------------------------
\* What somebody writes into an environment: words, numbers at their limits, typos.
Said0(n) == Text("number", n, "")
Word(kind, word) == Text(kind, 0 - 1, word)
FlagTexts == {Word("no", "off"), Word("yes", "on"), Said0(0), Word("other", "offf")}
MCRaw == [v \in {"descriptors", "hybrid", "parallel", "coverage"} |-> FlagTexts]
         @@ ("tokens" :> {Said0(0), Said0(600)})
         @@ ("floor" :> {Said0(0), Said0(1)})
         @@ ("entries" :> {Said0(8), Word("other", "6O")})
         @@ ("bridgeK" :> {Said0(0), Word("other", "6O")})
         @@ ("bridgeMax" :> {Said0(3)})
         @@ ("thinkingMin" :> {Word("level", "low"), Word("level", "none")})
         @@ ("thinking" :> {Word("level", "none"), Word("level", "default"), Word("other", "mimimal")})
AskedAs(cov, wide, gemini3, classify, local, cited) ==
    [coverage |-> cov, wide |-> wide, gemini3 |-> gemini3, classify |-> classify, local |-> local, cited |-> cited]
MCAsked == {AskedAs(TRUE, FALSE, TRUE, FALSE, FALSE, 2), AskedAs(TRUE, TRUE, TRUE, TRUE, TRUE, 0),
            AskedAs(FALSE, FALSE, FALSE, FALSE, FALSE, 3), AskedAs(FALSE, FALSE, TRUE, FALSE, FALSE, 5)}

-----------------------------------------------------------------------------
\* The router's cut: four entries, of which three become candidates, so that a tie can lie
\* inside the cut, at it or behind it and the floor of two probes can bind.
FourEntries == 1..4
TwoScores == {0, 2}
TwoActive == {{2, 3}}
Interchangeable == Permutations(Asks)
\* No query has arrived: where the cut starts, and stays when another part runs.
RouteIdle == Init

-----------------------------------------------------------------------------
routeVars == <<active, asked, last, stats>>
callVars == <<embVars, chatVars, poolVars, settingVars>>
CallsIdle == EmbInit /\ ChatInit /\ PoolInit /\ SettingsIdle
kernelVars == <<kernel, evidenceVars, chronicleVars, routerVars, citationVars, returnVars, callVars,
                gradeVars, routeVars>>

KernelInit ==
    \/ kernel = "route" /\ RouteIdle /\ EvIdle /\ ChIdle /\ RxIdle /\ CtIdle /\ ArIdle /\ CallsIdle /\ GradeIdle
    \/ kernel = "evidence" /\ RouteIdle /\ EvInit /\ ChIdle /\ RxIdle /\ CtIdle /\ ArIdle /\ CallsIdle /\ GradeIdle
    \/ kernel = "chronicle" /\ RouteIdle /\ EvIdle /\ ChInit /\ RxIdle /\ CtIdle /\ ArIdle /\ CallsIdle /\ GradeIdle
    \/ kernel = "router" /\ RouteIdle /\ EvIdle /\ ChIdle /\ RxInit /\ CtIdle /\ ArIdle /\ CallsIdle /\ GradeIdle
    \/ kernel = "citations" /\ RouteIdle /\ EvIdle /\ ChIdle /\ RxIdle /\ CtInit /\ ArIdle /\ CallsIdle /\ GradeIdle
    \/ kernel = "return" /\ RouteIdle /\ EvIdle /\ ChIdle /\ RxIdle /\ CtIdle /\ ArInit /\ CallsIdle /\ GradeIdle
    \/ kernel = "grade" /\ RouteIdle /\ EvIdle /\ ChIdle /\ RxIdle /\ CtIdle /\ ArIdle /\ CallsIdle /\ GradeInit
    \/ kernel \in {"vectors", "chat", "pool"} /\ RouteIdle /\ EvIdle /\ ChIdle /\ RxIdle /\ CtIdle /\ ArIdle /\ CallsIdle /\ GradeIdle
    \/ kernel = "settings" /\ RouteIdle /\ EvIdle /\ ChIdle /\ RxIdle /\ CtIdle /\ ArIdle /\ GradeIdle
         /\ EmbInit /\ ChatInit /\ PoolInit /\ SettingsInit

KernelNext ==
    \/ /\ kernel = "route" /\ Next
       /\ UNCHANGED <<kernel, evidenceVars, chronicleVars, routerVars, citationVars, returnVars, callVars, gradeVars>>
    \/ /\ kernel = "evidence" /\ EvNext
       /\ UNCHANGED <<kernel, chronicleVars, routerVars, citationVars, returnVars, callVars, gradeVars, routeVars>>
    \/ /\ kernel = "chronicle" /\ ChNext
       /\ UNCHANGED <<kernel, evidenceVars, routerVars, citationVars, returnVars, callVars, gradeVars, routeVars>>
    \/ /\ kernel = "router" /\ RxNext
       /\ UNCHANGED <<kernel, evidenceVars, chronicleVars, citationVars, returnVars, callVars, gradeVars, routeVars>>
    \/ /\ kernel = "citations" /\ CtNext
       /\ UNCHANGED <<kernel, evidenceVars, chronicleVars, routerVars, returnVars, callVars, gradeVars, routeVars>>
    \/ /\ kernel = "return" /\ ArNext
       /\ UNCHANGED <<kernel, evidenceVars, chronicleVars, routerVars, citationVars, callVars, gradeVars, routeVars>>
    \/ /\ UNCHANGED <<kernel, evidenceVars, chronicleVars, routerVars, citationVars, returnVars, gradeVars, routeVars>>
       /\ \/ kernel = "vectors" /\ EmbNext /\ UNCHANGED <<chatVars, poolVars, settingVars>>
          \/ kernel = "chat" /\ ChatNext /\ UNCHANGED <<embVars, poolVars, settingVars>>
          \/ kernel = "pool" /\ PoolNext /\ UNCHANGED <<embVars, chatVars, settingVars>>
          \/ kernel = "settings" /\ SettingsNext /\ UNCHANGED <<embVars, chatVars, poolVars>>
    \/ /\ kernel = "grade" /\ GradeNext
       /\ UNCHANGED <<kernel, evidenceVars, chronicleVars, routerVars, citationVars, returnVars, callVars, routeVars>>

KernelSpec == KernelInit /\ [][KernelNext]_kernelVars

\* A chat ends within its budget and hides no cut, and what is called runs with the
\* settings its environment says.
CallsSound == ChatSound /\ SettingsSound

\* Work that several callers share: chunks that a pool takes and vectors that several
\* calls want.
SharedWorkSound == MergedWhole /\ FailsFast /\ VectorsWhole /\ EmbeddedOnce
=============================================================================
