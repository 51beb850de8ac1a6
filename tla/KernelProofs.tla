--------------------------- MODULE KernelProofs ----------------------------
(***************************************************************************)
(* That every report the router writes is true of its own cut, and that    *)
(* its keepers are always probed; that the stages of the evidence each     *)
(* keep their limit and what an earlier stage found; that the router's     *)
(* index is built once, its units tile, and rare terms route; and that the *)
(* calls, the citations and the router index of CallProofs keep their      *)
(* promises beside these kernels.  What the cut and the sequences do is    *)
(* proved in SelectionProofs.                                              *)
(***************************************************************************)
EXTENDS MCKernels, SelectionProofs, CallProofs

-----------------------------------------------------------------------------
\* The cut of a query with the scores sc and the tie-break key.
LEMMA EligibleComparable ==
  ASSUME NEW sc \in [Entries -> Score], NEW key \in TieOrders
  PROVE  /\ Eligible(sc) \subseteq Entries
         /\ Comparable(Eligible(sc), sc, key)
<1>1. Eligible(sc) \in SUBSET Entries
  BY DEF Eligible
<1>2. IsFiniteSet(Eligible(sc))
  BY <1>1, RoutingBounds, FS_Subset
<1>3. \A e \in Eligible(sc) : sc[e] \in Int /\ key[e] \in Int
  <2>1. Score \subseteq Int /\ Entries \subseteq Nat
    BY RoutingBounds
  <2>2. key \in [Entries -> Entries]
    BY DEF TieOrders
  <2>3. ASSUME NEW e \in Eligible(sc) PROVE sc[e] \in Int /\ key[e] \in Int
    <3>1. e \in Entries
      BY <1>1
    <3>2. sc[e] \in Score /\ key[e] \in Entries
      BY <2>2, <3>1
    <3>3. sc[e] \in Int
      BY <2>1, <3>2
    <3>4. key[e] \in Nat
      BY <2>1, <3>2
    <3> QED BY <3>3, <3>4
  <2> QED BY <2>3
<1>4. \A d, e \in Eligible(sc) : key[d] = key[e] => d = e
  BY <1>1 DEF TieOrders
<1> QED BY <1>1, <1>2, <1>3, <1>4 DEF Comparable

LEMMA ByIdIsTieOrder == ById \in TieOrders
BY DEF ById, TieOrders

\* What a query's record says of its cut.
CutMatches(q) == /\ q.score \in [Entries -> Score]
                 /\ \E key \in TieOrders :
                      /\ q.cand = Selected(Eligible(q.score), q.score, key, MaxCand)
                      /\ q.discriminated = Discriminated(Eligible(q.score), q.score, key, MaxCand)

LEMMA RoutedMatches ==
  ASSUME NEW q \in Asked, NEW path \in Paths,
         NEW sc \in [Entries -> Score], NEW key \in TieOrders
  PROVE  /\ Routed(q, path, sc, key) \in Asked
         /\ Routed(q, path, sc, key).pc = q.pc
         /\ Routed(q, path, sc, key).probes = q.probes
         /\ CutMatches(Routed(q, path, sc, key))
<1> DEFINE S == Eligible(sc)
           p == Routed(q, path, sc, key)
<1>1. S \subseteq Entries /\ Comparable(S, sc, key) /\ MaxCand \in Nat
  BY EligibleComparable, RoutingBounds
<1>2. Selected(S, sc, key, MaxCand) \in Seq(Entries)
  BY <1>1, CutTakesBest
<1>3. Discriminated(S, sc, key, MaxCand) \in BOOLEAN
  BY DEF Discriminated, NoSignal, TiesAtCut
<1>4. /\ p.path = path /\ p.score = sc /\ p.pc = q.pc /\ p.probes = q.probes
      /\ p.cand = Selected(S, sc, key, MaxCand)
      /\ p.discriminated = Discriminated(S, sc, key, MaxCand)
  BY DEF Routed, Asked
<1>5. sc \in [Entries -> Score \cup {0}]
  OBVIOUS
<1>6. p \in Asked
  BY <1>2, <1>3, <1>5 DEF Routed, Asked
<1>7. CutMatches(p)
  BY <1>4 DEF CutMatches
<1> QED BY <1>4, <1>6, <1>7

\* A record is well typed, has no probes before the gate, and has the cut of
\* its own scores.
RecordInv(q) == /\ q \in Asked
                /\ q.probes <= Len(q.cand)
                /\ q.pc # "probing" => q.probes = 0
                /\ CutMade(q) => CutMatches(q)

RoutingInv == TypeOK /\ \A a \in Asks : RecordInv(asked[a])

LEMMA AtMostBounds ==
  ASSUME NEW n \in Nat, NEW max \in Nat
  PROVE  AtMost(n, max) \in Nat /\ AtMost(n, max) <= n /\ AtMost(n, max) <= max
BY DEF AtMost

LEMMA InitRouting == Init => RoutingInv
<1> SUFFICES ASSUME Init PROVE RoutingInv
  OBVIOUS
<1>1. \A a \in Asks : /\ asked[a] \in Asked /\ asked[a].pc = "idle"
                      /\ asked[a].probes = 0 /\ asked[a].cand = <<>>
  BY RoutingBounds DEF Init, Asked, Paths
<1>2. asked \in [Asks -> Asked] /\ \A a \in Asks : asked[a].probes <= Len(asked[a].cand)
  <2>1. asked = [a \in Asks |-> asked[a]]
    BY DEF Init
  <2> QED BY <1>1, <2>1
<1>3. active \in Actives /\ last = {} /\ stats \in [hybrid : Nat, fallbackEmbedFailed : Nat]
  BY DEF Init
<1>4. TypeOK
  BY <1>2, <1>3 DEF TypeOK
<1> QED BY <1>1, <1>2, <1>4 DEF RoutingInv, RecordInv, CutMade

\* One record changes, to one that satisfies the invariant.
LEMMA RecordStep ==
  ASSUME RoutingInv, NEW a \in Asks, NEW q, RecordInv(q),
         asked' = [asked EXCEPT ![a] = q], active' = active,
         last' \in {{}, {TRUE}, {FALSE}}, stats' \in [hybrid : Nat, fallbackEmbedFailed : Nat]
  PROVE  RoutingInv'
<1>1. \A b \in Asks : asked'[b] = IF b = a THEN q ELSE asked[b]
  BY DEF RoutingInv, TypeOK
<1>2. q \in Asked /\ q.probes <= Len(q.cand)
  BY DEF RecordInv
<1>3. TypeOK'
  BY <1>1, <1>2 DEF RoutingInv, TypeOK
<1>4. ASSUME NEW b \in Asks PROVE RecordInv(asked'[b])
  BY <1>1 DEF RoutingInv
<1>5. ASSUME NEW b \in Asks PROVE RecordInv(asked[b])'
  BY <1>4 DEF RecordInv, CutMade, CutMatches, Eligible
<1> QED BY <1>3, <1>5 DEF RoutingInv

\* A fresh cut that moves on to pc with a number of probes.
LEMMA FreshCut ==
  ASSUME NEW p \in Asked, CutMatches(p), NEW pc \in {"ranked", "probing"},
         NEW k \in 0..MaxProbe, k <= Len(p.cand), pc = "ranked" => k = 0
  PROVE  RecordInv([p EXCEPT !.pc = pc, !.probes = k])
<1> DEFINE q == [p EXCEPT !.pc = pc, !.probes = k]
<1>1. /\ q.pc = pc /\ q.probes = k /\ q.score = p.score /\ q.cand = p.cand
      /\ q.discriminated = p.discriminated
  BY DEF Asked
<1>2. q \in Asked
  BY DEF Asked
<1>3. CutMatches(q)
  BY <1>1 DEF CutMatches
<1> QED BY <1>1, <1>2, <1>3 DEF RecordInv

LEMMA RankedRecord ==
  ASSUME NEW p \in Asked, CutMatches(p), p.probes = 0
  PROVE  RecordInv([p EXCEPT !.pc = "ranked"])
<1> DEFINE q == [p EXCEPT !.pc = "ranked"]
<1>1. /\ q.pc = "ranked" /\ q.probes = 0 /\ q.score = p.score /\ q.cand = p.cand
      /\ q.discriminated = p.discriminated
  BY DEF Asked
<1>2. q \in Asked
  BY DEF Asked
<1>3. CutMatches(q)
  BY <1>1 DEF CutMatches
<1>4. Len(q.cand) \in Nat
  BY <1>2 DEF Asked
<1> QED BY <1>1, <1>2, <1>3, <1>4 DEF RecordInv

\* The heuristic recommends a number of probes.
LEMMA RecommendedNat ==
  ASSUME NEW q \in Asked
  PROVE  Recommended(q) \in Nat
<1>1. q.cand \in Seq(Entries) /\ Len(q.cand) \in Nat /\ DOMAIN q.cand = 1..Len(q.cand)
  BY DEF Asked
<1>2. Close(q) \in SUBSET (1..Len(q.cand))
  BY <1>1 DEF Close
<1>3. Cardinality(Close(q)) \in Nat
  <2>1. IsFiniteSet(1..Len(q.cand))
    BY <1>1, FS_Interval, 1 \in Int, Len(q.cand) \in Int
  <2>2. IsFiniteSet(Close(q))
    BY <1>2, <2>1, FS_Subset
  <2> QED BY <2>2, FS_CardinalityType
<1>4. AtMost(MinProbes, Len(q.cand)) \in Nat
  BY <1>1, RoutingBounds, AtMostBounds
<1> QED BY <1>3, <1>4 DEF Recommended

LEMMA StepRouting == RoutingInv /\ [Next]_vars => RoutingInv'
<1> SUFFICES ASSUME RoutingInv, [Next]_vars PROVE RoutingInv'
  OBVIOUS
<1>t. \A a \in Asks : RecordInv(asked[a])
  BY DEF RoutingInv
<1>s. /\ last \in {{}, {TRUE}, {FALSE}}
      /\ stats \in [hybrid : Nat, fallbackEmbedFailed : Nat]
      /\ MaxProbe \in Nat
  BY RoutingBounds DEF RoutingInv, TypeOK
<1>1. ASSUME NEW a \in Asks, RouteLexically(a) PROVE RoutingInv'
  <2>1. PICK sc \in [Entries -> Score] :
          asked' = [asked EXCEPT ![a] =
            [Routed(asked[a], "lexical", sc, ById) EXCEPT
               !.pc = "probing",
               !.probes = AtMost(Len(Routed(asked[a], "lexical", sc, ById).cand), MaxProbe)]]
    BY <1>1 DEF RouteLexically
  <2> DEFINE p == Routed(asked[a], "lexical", sc, ById)
             q == [p EXCEPT !.pc = "probing", !.probes = AtMost(Len(p.cand), MaxProbe)]
  <2>2. p \in Asked /\ CutMatches(p)
    BY <1>t, RoutedMatches, ByIdIsTieOrder DEF Paths, RecordInv
  <2>3. Len(p.cand) \in Nat
    BY <2>2 DEF Asked
  <2>4. AtMost(Len(p.cand), MaxProbe) \in 0..MaxProbe /\ AtMost(Len(p.cand), MaxProbe) <= Len(p.cand)
    BY <1>s, <2>3 DEF AtMost
  <2>5. RecordInv(q)
    BY <2>2, <2>4, FreshCut
  <2> QED BY <1>1, <1>s, <2>1, <2>5, RecordStep DEF RouteLexically
<1>2. ASSUME NEW a \in Asks, EmbedQuery(a) PROVE RoutingInv'
  <2> DEFINE q == [asked[a] EXCEPT !.pc = "embed"]
  <2>1. RecordInv(q)
    BY <1>2, <1>t DEF RecordInv, Asked, CutMade, EmbedQuery
  <2> QED BY <1>2, <1>s, <2>1, RecordStep DEF EmbedQuery
<1>3. ASSUME NEW a \in Asks, EmbedReturns(a) PROVE RoutingInv'
  <2>1. PICK sc \in [Entries -> Score], key \in TieOrders :
          LET p == Routed(asked[a], "hybrid", sc, key)
          IN asked' = [asked EXCEPT ![a] = [p EXCEPT !.pc = "ranked"]] /\ last' = {p.discriminated}
    BY <1>3 DEF EmbedReturns
  <2> DEFINE p == Routed(asked[a], "hybrid", sc, key)
  <2>2. p \in Asked /\ CutMatches(p) /\ p.probes = 0
    <3>1. asked[a] \in Asked /\ asked[a].probes = 0
      BY <1>3, <1>t DEF RecordInv, EmbedReturns
    <3> QED BY <3>1, RoutedMatches DEF Paths
  <2>3. RecordInv([p EXCEPT !.pc = "ranked"])
    BY <1>s, <2>2, RankedRecord
  <2>4. last' \in {{}, {TRUE}, {FALSE}}
    BY <2>1, <2>2 DEF Asked
  <2>5. stats' \in [hybrid : Nat, fallbackEmbedFailed : Nat] /\ active' = active
    BY <1>3, <1>s DEF EmbedReturns
  <2> QED BY <2>1, <2>3, <2>4, <2>5, RecordStep
<1>4. ASSUME NEW a \in Asks, EmbedFails(a) PROVE RoutingInv'
  <2>1. PICK sc \in [Entries -> Score] :
          asked' = [asked EXCEPT ![a] =
            [Routed(asked[a], "hybrid-fallback-embed-failed", sc, ById) EXCEPT !.pc = "ranked"]]
    BY <1>4 DEF EmbedFails
  <2> DEFINE p == Routed(asked[a], "hybrid-fallback-embed-failed", sc, ById)
  <2>2. p \in Asked /\ CutMatches(p) /\ p.probes = 0
    <3>1. asked[a] \in Asked /\ asked[a].probes = 0
      BY <1>4, <1>t DEF RecordInv, EmbedFails
    <3> QED BY <3>1, RoutedMatches, ByIdIsTieOrder DEF Paths
  <2>3. RecordInv([p EXCEPT !.pc = "ranked"])
    BY <1>s, <2>2, RankedRecord
  <2>4. /\ stats' \in [hybrid : Nat, fallbackEmbedFailed : Nat]
        /\ active' = active /\ last' = last
    BY <1>4, <1>s DEF EmbedFails
  <2> QED BY <1>s, <2>1, <2>3, <2>4, RecordStep
<1>5. ASSUME NEW a \in Asks, ShrinkGate(a) PROVE RoutingInv'
  <2> DEFINE q == asked[a]
             budget == IF last = {TRUE} THEN AtMost(Recommended(q), MaxProbe) ELSE MaxProbe
             k == AtMost(Len(q.cand), budget)
  <2>1. q \in Asked /\ CutMatches(q) /\ Len(q.cand) \in Nat
    BY <1>5, <1>t DEF ShrinkGate, RecordInv, CutMade, Asked
  <2>2. Recommended(q) \in Nat
    BY <2>1, RecommendedNat
  <2>3. budget \in Nat /\ budget <= MaxProbe
    <3>1. /\ AtMost(Recommended(q), MaxProbe) \in Nat
          /\ AtMost(Recommended(q), MaxProbe) <= MaxProbe
      BY <1>s, <2>2, AtMostBounds
    <3>2. CASE last = {TRUE}
      BY <3>1, <3>2
    <3>3. CASE last # {TRUE}
      BY <1>s, <3>3
    <3> QED BY <3>2, <3>3
  <2>4. k \in 0..MaxProbe /\ k <= Len(q.cand)
    <3> HIDE DEF budget
    <3>1. k \in Nat /\ k <= Len(q.cand) /\ k <= budget
      BY <2>1, <2>3, AtMostBounds
    <3> QED BY <1>s, <2>3, <3>1
  <2>5. RecordInv([q EXCEPT !.pc = "probing", !.probes = k])
    BY <2>1, <2>4, FreshCut
  <2>6. /\ asked' = [asked EXCEPT ![a] = [q EXCEPT !.pc = "probing", !.probes = k]]
        /\ active' = active /\ last' = last /\ stats' = stats
    BY <1>5 DEF ShrinkGate
  <2> QED BY <1>s, <2>5, <2>6, RecordStep
<1>6. ASSUME UNCHANGED vars PROVE RoutingInv'
  BY <1>6 DEF vars, RoutingInv, TypeOK, RecordInv, CutMade, CutMatches, Eligible
<1> QED BY <1>1, <1>2, <1>3, <1>4, <1>5, <1>6 DEF Next, Rest

\* Every file of the type invariant: the records of the queries, the shared
\* report and the counters keep their types, and no query probes more shards
\* than it has candidates or maxProbeShards allows.
THEOREM RoutingTypeCorrect == Spec => []TypeOK
<1>1. RoutingInv => TypeOK
  BY DEF RoutingInv
<1> QED BY <1>1, InitRouting, StepRouting, PTL DEF Spec

\* A record that has the cut of its own scores has a true report.
LEMMA MatchedIsHonest ==
  ASSUME NEW q \in Asked, CutMatches(q)
  PROVE  q.discriminated <=> Forced(q)
<1> DEFINE S == Eligible(q.score)
<1>1. PICK key \in TieOrders :
        /\ q.cand = Selected(S, q.score, key, MaxCand)
        /\ q.discriminated = Discriminated(S, q.score, key, MaxCand)
  BY DEF CutMatches
<1>2. q.score \in [Entries -> Score]
  BY DEF CutMatches
<1>3. Comparable(S, q.score, key) /\ MaxCand \in Nat \ {0}
  BY <1>2, EligibleComparable, RoutingBounds
<1> DEFINE T == {e \in S : Rank(S, q.score, key, e) < Cut(S, MaxCand)}
<1>4. Chosen(q) = T
  BY <1>1, <1>3, CutTakesBest DEF Chosen
<1>5. Discriminated(S, q.score, key, MaxCand)
        <=> /\ T # {}
            /\ \E e \in S : q.score[e] > 0
            /\ \A x \in T, y \in S \ T : q.score[x] > q.score[y]
  BY <1>3, ReportExact
<1> QED BY <1>1, <1>4, <1>5 DEF Forced

\* Whatever the directory, the scores, the tie-breaks and the order in which
\* queries run and embeddings fail: the report a query carries into its run
\* record says "discriminated" exactly when the scores alone chose its
\* candidates.
THEOREM ReportsAreHonest == Spec => []ReportHonest
<1>1. RoutingInv => ReportHonest
  BY MatchedIsHonest DEF RoutingInv, RecordInv, ReportHonest
<1> QED BY <1>1, InitRouting, StepRouting, PTL DEF Spec
-----------------------------------------------------------------------------
(* The gate.  Candidates are ranked by score, so the close ones are the      *)
(* first ones, and as many probes as there are close ones reach them all.    *)

Careful(q) == q.pc = "probing" =>
                \A i \in DOMAIN q.cand :
                  \/ i <= q.probes
                  \/ i > MaxProbe
                  \/ i > MinProbes /\ q.score[q.cand[1]] - q.score[q.cand[i]] > KeepWithin

\* The candidates of a cut have integer scores that never grow.
LEMMA CutDescends ==
  ASSUME NEW q \in Asked, CutMatches(q)
  PROVE  \A i, j \in DOMAIN q.cand :
           /\ q.score[q.cand[i]] \in Int
           /\ i <= j => q.score[q.cand[i]] >= q.score[q.cand[j]]
<1> DEFINE S == Eligible(q.score)
<1>1. PICK key \in TieOrders : q.cand = Selected(S, q.score, key, MaxCand)
  BY DEF CutMatches
<1>2. Comparable(S, q.score, key)
  BY EligibleComparable DEF CutMatches
<1> DEFINE n == Cardinality(S)
           edge == Cut(S, MaxCand)
           r == Ranked(S, q.score, key)
<1>3. n \in Nat /\ edge \in Nat /\ edge <= n
  BY <1>2, FS_CardinalityType, RoutingBounds DEF Comparable, Cut
<1>4. r \in [1..n -> S]
  BY <1>2, RankedByRank DEF Ranked
<1>5. r \in Seq(S) /\ Len(r) = n
  BY <1>3, <1>4
<1>6. DOMAIN q.cand = 1..edge /\ \A i \in 1..edge : q.cand[i] = r[i]
  BY <1>1, <1>3, <1>4, <1>5 DEF Selected
<1>7. ASSUME NEW i \in 1..edge, NEW j \in 1..edge
      PROVE  /\ q.score[r[i]] \in Int
             /\ i <= j => q.score[r[i]] >= q.score[r[j]]
  <2>1. i \in 1..n /\ j \in 1..n
    BY <1>3
  <2>2. /\ r[i] \in S /\ Rank(S, q.score, key, r[i]) = i - 1
        /\ r[j] \in S /\ Rank(S, q.score, key, r[j]) = j - 1
    BY <1>2, <2>1, RankedByRank
  <2>3. i <= j => Rank(S, q.score, key, r[i]) <= Rank(S, q.score, key, r[j])
    BY <2>2
  <2> QED BY <1>2, <2>2, <2>3, RankOrdersScores DEF Comparable
<1> QED BY <1>6, <1>7

\* A candidate behind as many others as the heuristic recommends is behind the
\* floor and not close.
LEMMA BeyondRecommended ==
  ASSUME NEW q \in Asked, CutMatches(q), NEW i \in DOMAIN q.cand, i > Recommended(q)
  PROVE  i > MinProbes /\ q.score[q.cand[1]] - q.score[q.cand[i]] > KeepWithin
<1> DEFINE n == Len(q.cand)
           close == Cardinality(Close(q))
           floor == AtMost(MinProbes, n)
<1>1. n \in Nat /\ DOMAIN q.cand = 1..n /\ i \in 1..n /\ MinProbes \in Nat /\ KeepWithin \in Nat
  BY RoutingBounds DEF Asked
<1>2. Close(q) \in SUBSET (1..n) /\ IsFiniteSet(Close(q)) /\ close \in Nat
  <2>1. Close(q) \in SUBSET (1..n)
    BY <1>1 DEF Close
  <2>2. IsFiniteSet(1..n)
    BY <1>1, FS_Interval, 1 \in Int, n \in Int
  <2>3. IsFiniteSet(Close(q))
    BY <2>1, <2>2, FS_Subset
  <2> QED BY <2>1, <2>3, FS_CardinalityType
<1>3. floor \in Nat /\ floor <= n /\ (floor < n => floor = MinProbes)
  BY <1>1 DEF AtMost
<1> HIDE DEF n, close, floor
<1>4. i > close /\ i > floor
  BY <1>1, <1>2, <1>3 DEF Recommended, n, close, floor
<1>5. i > MinProbes
  BY <1>1, <1>3, <1>4
<1>6. i \notin Close(q)
  <2> SUFFICES ASSUME i \in Close(q) PROVE FALSE
    OBVIOUS
  <2>1. ASSUME NEW j \in 1..i PROVE j \in Close(q)
    <3>1. j \in 1..n /\ 1 \in 1..n /\ j <= i
      BY <1>1
    <3>2. /\ q.score[q.cand[1]] \in Int /\ q.score[q.cand[j]] \in Int /\ q.score[q.cand[i]] \in Int
          /\ q.score[q.cand[j]] >= q.score[q.cand[i]]
      BY <1>1, <3>1, CutDescends
    <3>3. q.score[q.cand[1]] - q.score[q.cand[i]] <= KeepWithin
      BY DEF Close
    <3>4. q.score[q.cand[1]] - q.score[q.cand[j]] <= KeepWithin
      BY <1>1, <3>2, <3>3, SMTT(30)
    <3> QED BY <1>1, <3>1, <3>4 DEF Close
  <2>2. IsFiniteSet(1..i) /\ Cardinality(1..i) = i
    <3>1. i \in Int /\ 1 \in Int /\ i >= 1
      BY <1>1
    <3> QED BY <3>1, FS_Interval
  <2>3. Cardinality(1..i) <= close
    BY <1>2, <2>1, FS_Subset, 1..i \in SUBSET Close(q) DEF close
  <2> QED BY <1>1, <1>2, <1>4, <2>2, <2>3
<1>7. ~(q.score[q.cand[1]] - q.score[q.cand[i]] <= KeepWithin)
  BY <1>1, <1>6 DEF Close
<1>8. 1 \in 1..n
  BY <1>1
<1>9. q.score[q.cand[1]] \in Int /\ q.score[q.cand[i]] \in Int
  BY <1>1, <1>8, CutDescends
<1> QED BY <1>1, <1>5, <1>7, <1>9

\* What the gate, or a query without one, makes of a cut.
LEMMA GateIsCareful ==
  ASSUME NEW q \in Asked, CutMatches(q), NEW budget,
         budget = MaxProbe \/ budget = AtMost(Recommended(q), MaxProbe)
  PROVE  Careful([q EXCEPT !.pc = "probing", !.probes = AtMost(Len(q.cand), budget)])
<1> DEFINE k == AtMost(Len(q.cand), budget)
           p == [q EXCEPT !.pc = "probing", !.probes = k]
<1>1. p.cand = q.cand /\ p.score = q.score /\ p.probes = k
  BY DEF Asked
<1>2. MaxProbe \in Nat /\ Recommended(q) \in Nat /\ Len(q.cand) \in Nat /\ DOMAIN q.cand = 1..Len(q.cand)
  BY RecommendedNat, RoutingBounds DEF Asked
<1>3. ASSUME NEW i \in DOMAIN q.cand, ~(i <= k), ~(i > MaxProbe)
      PROVE  i > Recommended(q)
  BY <1>2, <1>3 DEF AtMost
<1>4. \A i \in DOMAIN q.cand :
        \/ i <= k
        \/ i > MaxProbe
        \/ i > MinProbes /\ q.score[q.cand[1]] - q.score[q.cand[i]] > KeepWithin
  BY <1>3, BeyondRecommended
<1> QED BY <1>1, <1>4 DEF Careful

LEMMA StepCareful ==
  ASSUME RoutingInv, KeepersProbed, [Next]_vars
  PROVE  KeepersProbed'
<1>1. \A a \in Asks : Careful(asked[a])
  BY DEF KeepersProbed, Careful
<1>2. ASSUME NEW a \in Asks, NEW q, asked' = [asked EXCEPT ![a] = q], Careful(q)
      PROVE  KeepersProbed'
  <2>1. \A b \in Asks : asked'[b] = IF b = a THEN q ELSE asked[b]
    BY <1>2 DEF RoutingInv, TypeOK
  <2>2. \A b \in Asks : Careful(asked'[b])
    BY <1>1, <1>2, <2>1
  <2> QED BY <2>2 DEF Careful, KeepersProbed
<1>3. \A a \in Asks : asked[a] \in Asked /\ (CutMade(asked[a]) => CutMatches(asked[a]))
  BY DEF RoutingInv, RecordInv
<1>4. ASSUME NEW a \in Asks, RouteLexically(a) PROVE KeepersProbed'
  <2>1. PICK sc \in [Entries -> Score] :
          asked' = [asked EXCEPT ![a] =
            [Routed(asked[a], "lexical", sc, ById) EXCEPT
               !.pc = "probing",
               !.probes = AtMost(Len(Routed(asked[a], "lexical", sc, ById).cand), MaxProbe)]]
    BY <1>4 DEF RouteLexically
  <2> DEFINE p == Routed(asked[a], "lexical", sc, ById)
  <2>2. p \in Asked /\ CutMatches(p)
    BY <1>3, RoutedMatches, ByIdIsTieOrder DEF Paths
  <2> HIDE DEF p
  <2>3. Careful([p EXCEPT !.pc = "probing", !.probes = AtMost(Len(p.cand), MaxProbe)])
    BY <2>2, GateIsCareful
  <2> QED BY <1>2, <2>1, <2>3 DEF p
<1>5. ASSUME NEW a \in Asks, EmbedQuery(a) PROVE KeepersProbed'
  <2> DEFINE q == [asked[a] EXCEPT !.pc = "embed"]
  <2>1. asked' = [asked EXCEPT ![a] = q] /\ q.pc = "embed"
    BY <1>3, <1>5 DEF EmbedQuery, Asked
  <2> QED BY <1>2, <2>1 DEF Careful
<1>6. ASSUME NEW a \in Asks, EmbedReturns(a) \/ EmbedFails(a) PROVE KeepersProbed'
  <2>1. PICK p \in Asked : asked' = [asked EXCEPT ![a] = [p EXCEPT !.pc = "ranked"]]
    BY <1>3, <1>6, RoutedMatches, ByIdIsTieOrder DEF EmbedReturns, EmbedFails, Paths
  <2> DEFINE q == [p EXCEPT !.pc = "ranked"]
  <2>2. q.pc = "ranked"
    BY DEF Asked
  <2> QED BY <1>2, <2>1, <2>2 DEF Careful
<1>7. ASSUME NEW a \in Asks, ShrinkGate(a) PROVE KeepersProbed'
  <2> DEFINE q == asked[a]
             budget == IF last = {TRUE} THEN AtMost(Recommended(q), MaxProbe) ELSE MaxProbe
  <2>1. q \in Asked /\ CutMatches(q)
    BY <1>3, <1>7 DEF ShrinkGate, CutMade
  <2>2. asked' = [asked EXCEPT ![a] = [q EXCEPT !.pc = "probing",
                                                !.probes = AtMost(Len(q.cand), budget)]]
    BY <1>7 DEF ShrinkGate
  <2>3. budget = MaxProbe \/ budget = AtMost(Recommended(q), MaxProbe)
    OBVIOUS
  <2> HIDE DEF budget, q
  <2>4. Careful([q EXCEPT !.pc = "probing", !.probes = AtMost(Len(q.cand), budget)])
    BY <2>1, <2>3, GateIsCareful
  <2> QED BY <1>2, <2>2, <2>4 DEF q
<1>8. CASE UNCHANGED vars
  BY <1>8 DEF vars, KeepersProbed
<1> QED BY <1>4, <1>5, <1>6, <1>7, <1>8 DEF Next, Rest

\* Whatever report the gate has read, its own or another query's: a candidate
\* that is not probed is beyond maxProbeShards, or behind minProbes others and
\* further than keepWithin from the first.
THEOREM KeepersAlwaysProbed == Spec => []KeepersProbed
<1>1. Init => KeepersProbed
  BY DEF Init, KeepersProbed
<1> QED BY <1>1, InitRouting, StepRouting, StepCareful, PTL DEF Spec
-----------------------------------------------------------------------------
(* The order of the evidence.  What a stage inserts is described by where   *)
(* the events of the old order are in the new one: f[k] is the new place of *)
(* the k-th.                                                                *)
\* The k-th old event is the last one before place i, and of the shard of what is there.
Behind(old, new, f, i, k) ==
    /\ f[k] < i /\ \A m \in 1..Len(old) : f[m] < i => f[m] <= f[k]
    /\ old[k] \in EvEvents /\ new[i] \in EvEvents /\ EvShardOf[old[k]] = EvShardOf[new[i]]

Near(old, new, f) ==
    /\ Holds(old, new, f)
    /\ \A i \in 1..Len(new) : (\E k \in 1..Len(old) : f[k] = i) \/ \E k \in 1..Len(old) : Behind(old, new, f, i, k)

\* The last old event up to a place.
Foothold(old, new, i) == SelectLastInSubSeq(new, 1, i, LAMBDA id : Contains(old, id))

\* What stands behind an old event of its shard is behind a foothold of its shard.
LEMMA NearIsLocal ==
  ASSUME NEW S, NEW old \in Seq(S), NEW new \in Seq(S), IsInjective(new), NEW f, Near(old, new, f),
         NEW i \in DOMAIN new, ~Contains(old, new[i])
  PROVE  /\ Foothold(old, new, i) > 0 /\ new[Foothold(old, new, i)] \in EvEvents
         /\ EvShardOf[new[Foothold(old, new, i)]] = EvShardOf[new[i]]
<1> DEFINE I == {j \in 1..i : Contains(old, new[j])}
<1>1. Len(old) \in Nat /\ DOMAIN new = 1..Len(new) /\ Len(new) \in Nat /\ i \in 1..Len(new)
  OBVIOUS
<1>2. /\ f \in [1..Len(old) -> 1..Len(new)]
      /\ \A k \in 1..Len(old) : new[f[k]] = old[k]
  BY DEF Near, Holds
<1>3. \A k \in 1..Len(old) : f[k] # i
  BY <1>2 DEF Contains
<1>4. PICK k \in 1..Len(old) : Behind(old, new, f, i, k)
  BY <1>1, <1>3 DEF Near
<1>5. /\ f[k] < i /\ (\A m \in 1..Len(old) : f[m] < i => f[m] <= f[k])
      /\ old[k] \in EvEvents /\ EvShardOf[old[k]] = EvShardOf[new[i]]
  BY <1>4 DEF Behind
<1>6. f[k] \in I
  <2>1. f[k] \in 1..i /\ new[f[k]] = old[k]
    BY <1>1, <1>2, <1>5
  <2> QED BY <2>1 DEF Contains
<1>7. ASSUME NEW j \in I PROVE j <= f[k]
  <2>1. PICK m \in 1..Len(old) : new[j] = old[m]
    BY DEF Contains
  <2>2. f[m] \in DOMAIN new /\ j \in DOMAIN new /\ new[f[m]] = new[j]
    <3>1. f[m] \in DOMAIN new /\ new[f[m]] = old[m]
      BY <1>1, <1>2
    <3>2. j \in DOMAIN new
      BY <1>1
    <3> QED BY <2>1, <3>1, <3>2
  <2>3. f[m] = j
    BY <2>2 DEF IsInjective
  <2>4. j <= i /\ j # i
    BY <1>1, <1>3, <2>3
  <2> QED BY <1>1, <1>5, <2>3, <2>4
<1>8. I \subseteq Int
  BY <1>1
<1> HIDE DEF I
<1>9. Max(I) = f[k]
  BY <1>6, <1>7, <1>8, MaxIs
<1>10. Foothold(old, new, i) = f[k]
  <2>1. I # {}
    BY <1>6
  <2> QED BY <1>9, <2>1 DEF Foothold, SelectLastInSubSeq, I
<1>11. f[k] > 0 /\ new[f[k]] = old[k]
  BY <1>1, <1>2
<1> QED BY <1>5, <1>10, <1>11

-----------------------------------------------------------------------------
(* The expansions.                                                          *)
EvGroup == [after : EvEvents, ranked : Seq(EvEvents)]

\* A group whose foothold is in the order and whose events are of the foothold's shard.
GroupFits(order, g) ==
    /\ \E k \in 1..Len(order) : order[k] = g.after
    /\ IsInjective(g.ranked)
    /\ \A i \in 1..Len(g.ranked) : EvShardOf[g.ranked[i]] = EvShardOf[g.after]

LEMMA EventsAreIds == EvEvents \subseteq EvIds /\ IsFiniteSet(EvEvents) /\ Seq(EvEvents) \subseteq Seq(EvIds)
<1>1. EvCorpus \in Seq(EvIds)
  BY EvidenceConstants
<1>2. EvEvents \subseteq EvIds
  <2>1. \A i \in DOMAIN EvCorpus : EvCorpus[i] \in EvIds
    BY <1>1
  <2> QED BY <2>1 DEF EvEvents, ToSet
<1>3. IsFiniteSet(EvEvents)
  <2>1. Len(EvCorpus) \in Nat /\ DOMAIN EvCorpus = 1..Len(EvCorpus)
    BY <1>1
  <2> DEFINE D == DOMAIN EvCorpus
             E == {EvCorpus[i] : i \in D}
  <2>2. IsFiniteSet(D)
    BY <2>1, UpToFinite
  <2>3. EvCorpus \in Surjection(D, E)
    <3>1. EvCorpus = [i \in D |-> EvCorpus[i]]
      BY <1>1
    <3>2. EvCorpus \in [D -> E] /\ \A e \in E : \E i \in D : EvCorpus[i] = e
      <4> HIDE DEF D
      <4> QED BY <3>1
    <3> HIDE DEF D, E
    <3> QED BY <3>2 DEF Surjection
  <2> HIDE DEF D, E
  <2>4. IsFiniteSet(E)
    BY <2>2, <2>3, FS_Surjection
  <2> QED BY <2>4 DEF EvEvents, ToSet, D, E
<1>4. Seq(EvEvents) \subseteq Seq(EvIds)
  <2> HIDE DEF EvEvents
  <2> QED BY <1>2
<1> QED BY <1>2, <1>3, <1>4

\* What an order does not have yet, of some events in order.
LEMMA FreshKeeps ==
  ASSUME NEW order \in Seq(EvIds), NEW ids \in Seq(EvEvents)
  PROVE  LET r == Fresh(order, ids)
         IN /\ r \in Seq(EvEvents) /\ (IsInjective(ids) => IsInjective(r))
            /\ \A i \in 1..Len(r) : ~Contains(order, r[i]) /\ r[i] \in ToSet(ids)
            /\ \A x \in ToSet(ids) : ~Contains(order, x) => x \in ToSet(r)
<1> DEFINE P == {i \in DOMAIN ids : ~Contains(order, ids[i])}
           r == ItemsAt(ids, P)
<1>1. P \subseteq DOMAIN ids
  OBVIOUS
<1>2. \A i \in P : ~Contains(order, ids[i]) /\ ids[i] \in ToSet(ids)
  BY DEF ToSet
<1>3. \A x \in ToSet(ids) : ~Contains(order, x) => \E i \in P : ids[i] = x
  BY DEF ToSet
<1> HIDE DEF P
<1>4. r \in Seq(EvEvents) /\ ToSet(r) = {ids[i] : i \in P} /\ (IsInjective(ids) => IsInjective(r))
  BY <1>1, FilterKeeps
<1> HIDE DEF r
<1>5. \A i \in 1..Len(r) : r[i] \in ToSet(r)
  BY <1>4 DEF ToSet
<1>6. Fresh(order, ids) = r
  BY DEF Fresh, r, P
<1> QED BY <1>2, <1>3, <1>4, <1>5, <1>6

\* What a group brings.
Brought(order, g, max, perGroup) == FirstOf(Fresh(order, g.ranked), Min({perGroup, max - Len(order)}))

LEMMA BroughtKeeps ==
  ASSUME NEW order \in Seq(EvIds), NEW g \in EvGroup, NEW max \in Nat, NEW perGroup \in Nat
  PROVE  LET n == Brought(order, g, max, perGroup)
         IN /\ n \in Seq(EvEvents) /\ (IsInjective(g.ranked) => IsInjective(n))
            /\ \A i \in 1..Len(n) : ~Contains(order, n[i]) /\ n[i] \in ToSet(g.ranked)
            /\ Len(order) < max => Len(order) + Len(n) <= max
<1> DEFINE r == Fresh(order, g.ranked)
           room == Min({perGroup, max - Len(order)})
           n == FirstOf(r, room)
<1>1. Len(order) \in Nat /\ max - Len(order) \in Int /\ g.ranked \in Seq(EvEvents)
  BY DEF EvGroup
<1>2. room \in Int /\ (Len(order) < max => room <= max - Len(order) /\ room >= 0)
  BY <1>1, LesserOf
<1>3. /\ r \in Seq(EvEvents) /\ (IsInjective(g.ranked) => IsInjective(r))
      /\ \A i \in 1..Len(r) : ~Contains(order, r[i]) /\ r[i] \in ToSet(g.ranked)
  BY <1>1, FreshKeeps
<1> HIDE DEF r, room
<1>4. /\ n \in Seq(EvEvents) /\ Len(n) <= Len(r)
      /\ Len(n) = IF room < 0 THEN 0 ELSE IF room < Len(r) THEN room ELSE Len(r)
      /\ \A i \in 1..Len(n) : n[i] = r[i]
      /\ IsInjective(r) => IsInjective(n)
  BY <1>2, <1>3, FirstOfKeeps
<1>5. Len(r) \in Nat /\ Len(n) \in Nat
  BY <1>3, <1>4
<1> HIDE DEF n
<1>6. \A i \in 1..Len(n) : i \in 1..Len(r)
  BY <1>4, <1>5
<1>7. Len(order) < max => Len(order) + Len(n) <= max
  BY <1>1, <1>2, <1>4, <1>5
<1>8. Brought(order, g, max, perGroup) = n
  BY DEF Brought, n, r, room
<1> QED BY <1>3, <1>4, <1>6, <1>7, <1>8

\* The place of a group's foothold.
At(order, g) == SelectLastInSeq(order, LAMBDA id : id = g.after)

LEMMA InsertCases ==
  ASSUME NEW order \in Seq(EvIds), NEW g \in EvGroup, NEW max \in Nat, NEW perGroup \in Nat
  PROVE  /\ At(order, g) \in 0..Len(order)
         /\ InsertGroup(order, g, max, perGroup) =
              IF Len(order) >= max \/ At(order, g) = 0 THEN order
              ELSE SubSeq(order, 1, At(order, g)) \o Brought(order, g, max, perGroup)
                     \o SubSeq(order, At(order, g) + 1, Len(order))
         /\ InsertGroup(order, g, max, perGroup) \in Seq(EvIds)
<1>1. At(order, g) \in 0..Len(order)
  <2> DEFINE I == {i \in 1..Len(order) : order[i] = g.after}
  <2>1. Len(order) \in Nat /\ I \subseteq 1..Len(order)
    OBVIOUS
  <2> HIDE DEF I
  <2>2. (IF I # {} THEN Max(I) ELSE 0) \in 0..Len(order)
    BY <2>1, LastPlace
  <2> QED BY <2>2 DEF At, SelectLastInSeq, I
<1>2. InsertGroup(order, g, max, perGroup) =
              IF Len(order) >= max \/ At(order, g) = 0 THEN order
              ELSE SubSeq(order, 1, At(order, g)) \o Brought(order, g, max, perGroup)
                     \o SubSeq(order, At(order, g) + 1, Len(order))
  BY DEF InsertGroup, At, Brought
<1>3. Brought(order, g, max, perGroup) \in Seq(EvIds)
  BY BroughtKeeps, EventsAreIds
<1>4. SubSeq(order, 1, At(order, g)) \o Brought(order, g, max, perGroup)
                     \o SubSeq(order, At(order, g) + 1, Len(order)) \in Seq(EvIds)
  BY <1>1, <1>3, Spliced
<1> QED BY <1>1, <1>2, <1>4

LEMMA InsertNear ==
  ASSUME NEW old \in Seq(EvIds), NEW order \in Seq(EvIds), IsInjective(order), NEW f, Near(old, order, f),
         NEW g \in EvGroup, GroupFits(old, g), NEW max \in Nat, NEW perGroup \in Nat
  PROVE  LET new == InsertGroup(order, g, max, perGroup)
         IN IsInjective(new) /\ (\E h : Near(old, new, h)) /\ (new = order \/ Len(new) <= max)
<1> DEFINE at == At(order, g)
           n == Brought(order, g, max, perGroup)
           new == InsertGroup(order, g, max, perGroup)
           L == Len(n)
<1> SUFFICES IsInjective(new) /\ (\E h : Near(old, new, h)) /\ (new = order \/ Len(new) <= max)
  OBVIOUS
<1>1. /\ at \in 0..Len(order) /\ new \in Seq(EvIds)
      /\ new = IF Len(order) >= max \/ at = 0 THEN order
               ELSE SubSeq(order, 1, at) \o n \o SubSeq(order, at + 1, Len(order))
  BY InsertCases
<1>2. CASE Len(order) >= max \/ at = 0
  BY <1>1, <1>2
<1>3. CASE Len(order) < max /\ at # 0
  <2>1. Len(order) \in Nat /\ Len(old) \in Nat /\ ~(Len(order) >= max \/ at = 0)
    BY <1>3
  <2>2. /\ n \in Seq(EvEvents) /\ IsInjective(n) /\ Len(order) + L <= max /\ L \in Nat
        /\ \A i \in 1..L : ~Contains(order, n[i]) /\ n[i] \in ToSet(g.ranked)
    <3>1. /\ n \in Seq(EvEvents) /\ (IsInjective(g.ranked) => IsInjective(n))
          /\ \A i \in 1..Len(n) : ~Contains(order, n[i]) /\ n[i] \in ToSet(g.ranked)
          /\ Len(order) < max => Len(order) + Len(n) <= max
      BY BroughtKeeps
    <3> QED BY <1>3, <3>1 DEF GroupFits
  <2>3. \A i \in 1..L : n[i] \in EvEvents /\ EvShardOf[n[i]] = EvShardOf[g.after]
    <3>1. g.ranked \in Seq(EvEvents) /\ g.after \in EvEvents
      BY DEF EvGroup
    <3>2. \A i \in DOMAIN g.ranked : i \in 1..Len(g.ranked)
      BY <3>1
    <3>3. \A x \in ToSet(g.ranked) : EvShardOf[x] = EvShardOf[g.after]
      BY <3>2 DEF GroupFits, ToSet
    <3> QED BY <2>2, <3>3
  <2>4. /\ Len(new) = Len(order) + L
        /\ \A i \in 1..Len(new) :
              new[i] = IF i <= at THEN order[i] ELSE IF i <= at + L THEN n[i - at] ELSE order[i - L]
    <3> DEFINE sp == SubSeq(order, 1, at) \o n \o SubSeq(order, at + 1, Len(order))
    <3>1. n \in Seq(EvIds)
      BY <2>2, EventsAreIds
    <3>2. /\ Len(sp) = Len(order) + L
          /\ \A i \in 1..Len(sp) :
                sp[i] = IF i <= at THEN order[i] ELSE IF i <= at + L THEN n[i - at] ELSE order[i - L]
      BY <1>1, <3>1, Spliced
    <3>3. new = sp
      BY <1>1, <2>1
    <3> HIDE DEF sp, new, n, L, at
    <3> QED BY <3>2, <3>3
  <2>5. /\ at \in 1..Len(order) /\ order[at] = g.after
    <3> DEFINE I == {i \in 1..Len(order) : order[i] = g.after}
    <3>1. at = IF I # {} THEN Max(I) ELSE 0
      BY DEF At, SelectLastInSeq
    <3>2. I # {}
      BY <1>3, <3>1
    <3>3. IsFiniteSet(I) /\ I \subseteq Int
      BY <2>1, UpToFinite
    <3>4. Max(I) \in I
      BY <3>2, <3>3, MaxExists
    <3> QED BY <3>1, <3>2, <3>4
  <2>new. DOMAIN new = 1..Len(new)
    <3> HIDE DEF new
    <3> QED BY <1>1
  <2> HIDE DEF at, n, new, L
  <2>6. g.after \in EvEvents
    BY DEF EvGroup
  <2> DEFINE O == 1..Len(old)
  <2>7. /\ f \in [O -> 1..Len(order)] /\ (\A i, j \in O : i < j => f[i] < f[j])
        /\ \A k \in O : order[f[k]] = old[k]
    BY DEF Near, Holds
  <2>8. PICK k0 \in O : f[k0] = at
    <3>1. PICK k0 \in O : old[k0] = g.after
      BY DEF GroupFits
    <3>2. f[k0] \in DOMAIN order /\ at \in DOMAIN order /\ order[f[k0]] = order[at]
      BY <2>1, <2>5, <2>7, <3>1
    <3>3. f[k0] = at
      BY <3>2 DEF IsInjective
    <3> QED BY <3>3
  <2>9. old[k0] = g.after
    BY <2>5, <2>7, <2>8
  <2>10. \A i \in 1..Len(order) : (\E k \in O : f[k] = i) \/ \E k \in O : Behind(old, order, f, i, k)
    BY DEF Near
  <2> DEFINE to(i) == IF i <= at THEN i ELSE i + L
             h == [k \in O |-> to(f[k])]
  <2>11. \A k \in O : f[k] \in 1..Len(order)
    BY <2>7
  <2>12. \A i \in 1..Len(order) : to(i) \in 1..Len(new) /\ new[to(i)] = order[i]
    <3> TAKE i \in 1..Len(order)
    <3>1. CASE i <= at
      <4>1. i \in 1..Len(new) /\ to(i) = i
        BY <2>1, <2>2, <2>4, <2>5, <3>1
      <4> QED BY <2>4, <3>1, <4>1
    <3>2. CASE ~(i <= at)
      <4>1. i + L \in 1..Len(new) /\ to(i) = i + L /\ ~(i + L <= at) /\ ~(i + L <= at + L) /\ (i + L) - L = i
        BY <2>1, <2>2, <2>4, <2>5, <3>2
      <4> QED BY <2>4, <4>1
    <3> QED BY <3>1, <3>2
  <2>13. \A i, j \in 1..Len(order) : (i < j <=> to(i) < to(j)) /\ (i <= j <=> to(i) <= to(j))
    BY <2>1, <2>2, <2>5
  <2>14. \A i \in 1..Len(new) : (\E j \in 1..Len(order) : to(j) = i) \/ (i > at /\ i <= at + L)
    <3> SUFFICES ASSUME NEW i \in 1..Len(new), ~(i > at /\ i <= at + L)
                 PROVE  \E j \in 1..Len(order) : to(j) = i
      OBVIOUS
    <3>1. CASE i <= at
      <4>1. i \in 1..Len(order) /\ to(i) = i
        BY <2>1, <2>5, <3>1
      <4> QED BY <4>1
    <3>2. CASE i > at + L
      <4>1. i - L \in 1..Len(order) /\ to(i - L) = i
        BY <2>1, <2>2, <2>4, <2>5, <3>2
      <4> QED BY <4>1
    <3> QED BY <2>2, <2>5, <3>1, <3>2
  <2>15. \A k \in O : h[k] = to(f[k])
    OBVIOUS
  <2>16. h \in [O -> 1..Len(new)]
    BY <2>11, <2>12
  <2>17. \A j \in 1..Len(order) : ~(to(j) > at /\ to(j) <= at + L)
    BY <2>1, <2>2, <2>5
  <2>at. to(at) = at /\ at \in Nat
    BY <2>5
  <2> HIDE DEF to, h
  <2>18. Holds(old, new, h)
    <3>1. \A i, j \in O : i < j => h[i] < h[j]
      BY <2>7, <2>11, <2>13, <2>15
    <3>2. \A k \in O : new[h[k]] = old[k]
      BY <2>7, <2>11, <2>12, <2>15
    <3> QED BY <2>16, <3>1, <3>2 DEF Holds
  <2>19. ASSUME NEW i \in 1..Len(new)
         PROVE  (\E k \in O : h[k] = i) \/ \E k \in O : Behind(old, new, h, i, k)
    <3>1. CASE i > at /\ i <= at + L
      <4>1. i - at \in 1..L /\ new[i] = n[i - at]
        BY <2>1, <2>2, <2>4, <2>5, <3>1
      <4>2. new[i] \in EvEvents /\ EvShardOf[old[k0]] = EvShardOf[new[i]] /\ old[k0] \in EvEvents
        BY <2>3, <2>6, <2>9, <4>1
      <4>3. h[k0] = at
        BY <2>8, <2>15, <2>at
      <4>4. ASSUME NEW m \in O, h[m] < i PROVE h[m] <= h[k0]
        <5>1. f[m] \in 1..Len(order) /\ h[m] = to(f[m])
          BY <2>11, <2>15
        <5>2. ~(h[m] > at /\ h[m] <= at + L)
          BY <2>17, <5>1
        <5>3. h[m] \in Nat /\ i \in Nat
          BY <2>16
        <5> QED BY <2>2, <2>at, <3>1, <4>3, <4>4, <5>2, <5>3
      <4>5. Behind(old, new, h, i, k0)
        BY <3>1, <4>2, <4>3, <4>4 DEF Behind
      <4> QED BY <4>5
    <3>2. CASE ~(i > at /\ i <= at + L)
      <4>1. PICK j \in 1..Len(order) : to(j) = i
        BY <2>14, <3>2
      <4>2. CASE \E k \in O : f[k] = j
        BY <2>15, <4>1, <4>2
      <4>3. CASE \E k \in O : Behind(old, order, f, j, k)
        <5>1. PICK k \in O : Behind(old, order, f, j, k)
          BY <4>3
        <5>2. /\ f[k] < j /\ (\A m \in O : f[m] < j => f[m] <= f[k])
              /\ old[k] \in EvEvents /\ order[j] \in EvEvents /\ EvShardOf[old[k]] = EvShardOf[order[j]]
          BY <5>1 DEF Behind
        <5>3. new[i] = order[j]
          BY <2>12, <4>1
        <5>4. h[k] < i
          BY <2>11, <2>13, <2>15, <4>1, <5>2
        <5>5. ASSUME NEW m \in O, h[m] < i PROVE h[m] <= h[k]
          <6>1. f[m] < j
            BY <2>11, <2>13, <2>15, <4>1, <5>5
          <6>2. f[m] <= f[k]
            BY <5>2, <6>1
          <6> QED BY <2>11, <2>13, <2>15, <6>2
        <5>6. Behind(old, new, h, i, k)
          BY <5>2, <5>3, <5>4, <5>5 DEF Behind
        <5> QED BY <5>6
      <4> QED BY <2>10, <4>2, <4>3
    <3> QED BY <3>1, <3>2
  <2>20. Near(old, new, h)
    BY <2>18, <2>19 DEF Near
  <2>21. IsInjective(new)
    <3>1. ASSUME NEW i \in 1..Len(new), NEW j \in 1..Len(new), new[i] = new[j], i > at, i <= at + L
          PROVE  i = j
      <4>1. i - at \in 1..L /\ new[i] = n[i - at] /\ ~Contains(order, n[i - at])
        BY <2>1, <2>2, <2>4, <2>5, <3>1
      <4>2. j > at /\ j <= at + L
        <5> SUFFICES ASSUME ~(j > at /\ j <= at + L) PROVE FALSE
          OBVIOUS
        <5>1. PICK k \in 1..Len(order) : to(k) = j
          BY <2>14
        <5>2. order[k] = n[i - at]
          BY <2>12, <3>1, <4>1, <5>1
        <5> QED BY <4>1, <5>2 DEF Contains
      <4>3. j - at \in 1..L /\ new[j] = n[j - at]
        BY <2>1, <2>2, <2>4, <2>5, <4>2
      <4>4. DOMAIN n = 1..L
        BY <2>2 DEF L
      <4>5. i - at = j - at
        BY <2>2, <3>1, <4>1, <4>3, <4>4 DEF IsInjective
      <4> QED BY <2>5, <4>5
    <3>2. ASSUME NEW i \in 1..Len(new), NEW j \in 1..Len(new), new[i] = new[j],
                 ~(i > at /\ i <= at + L), ~(j > at /\ j <= at + L)
          PROVE  i = j
      <4>1. PICK a \in 1..Len(order) : to(a) = i
        BY <2>14, <3>2
      <4>2. PICK b \in 1..Len(order) : to(b) = j
        BY <2>14, <3>2
      <4>3. order[a] = order[b] /\ a \in DOMAIN order /\ b \in DOMAIN order
        BY <2>1, <2>12, <3>2, <4>1, <4>2
      <4>4. a = b
        BY <4>3 DEF IsInjective
      <4> QED BY <4>1, <4>2, <4>4
    <3>3. \A i, j \in 1..Len(new) : new[i] = new[j] => i = j
      BY <3>1, <3>2
    <3>4. DOMAIN new = 1..Len(new)
      BY <2>new
    <3> QED BY <3>3, <3>4 DEF IsInjective
  <2>22. Len(new) <= max
    BY <2>2, <2>4
  <2> QED BY <2>20, <2>21, <2>22
<1> HIDE DEF at, new
<1>4. \E h : Near(old, order, h)
  OBVIOUS
<1>5. at \in Nat /\ Len(order) \in Nat
  BY <1>1
<1>6. (Len(order) < max /\ at # 0) \/ Len(order) >= max \/ at = 0
  BY <1>5
<1> QED BY <1>2, <1>3, <1>6

\* What is defined by adding groups from the first on exists and adds them one by one.
AddsGroups(f, base, groups, max, perGroup) ==
    /\ f \in [0..Len(groups) -> Seq(EvIds)] /\ f[0] = base
    /\ \A i \in 1..Len(groups) : f[i] = InsertGroup(f[i - 1], groups[i], max, perGroup)
    /\ ApplyExpansion(base, groups, max, perGroup) =
          IF max <= Len(base) \/ perGroup = 0 THEN base ELSE f[Len(groups)]

LEMMA ExpansionSteps ==
  ASSUME NEW base \in Seq(EvIds), NEW groups \in Seq(EvGroup), NEW max \in Nat, NEW perGroup \in Nat
  PROVE  \E f : AddsGroups(f, base, groups, max, perGroup)
<1> DEFINE n == Len(groups)
           S == Seq(EvIds)
           g == [i \in 1..n |-> [o \in S |-> InsertGroup(o, groups[i], max, perGroup)]]
<1>1. n \in Nat /\ \A i \in 1..n : groups[i] \in EvGroup
  OBVIOUS
<1>2. \A i \in 1..n : \A o \in S : InsertGroup(o, groups[i], max, perGroup) \in S
  BY <1>1, InsertCases
<1> HIDE DEF S, n
<1>3. g \in [1..n -> [S -> S]] /\ base \in S
  BY <1>2 DEF S
<1>4. \A i \in 1..n : \A o \in S : g[i][o] = InsertGroup(o, groups[i], max, perGroup)
  OBVIOUS
<1> HIDE DEF g
<1>5. \E f \in [0..n -> S] : Follows(f, n, base, g)
  BY <1>1, <1>3, Recursion
<1>6. PICK f \in [0..n -> S] : f[0] = base /\ \A i \in 1..n : f[i] = g[i][f[i - 1]]
  BY <1>5 DEF Follows
<1>7. \A i \in 1..n : f[i] = InsertGroup(f[i - 1], groups[i], max, perGroup)
  <2> TAKE i \in 1..n
  <2>1. i - 1 \in 0..n
    BY <1>1
  <2>2. f[i - 1] \in S
    BY <1>6, <2>1
  <2> QED BY <1>4, <1>6, <2>2
<1> DEFINE Runs(h) == h = [i \in 0..n |-> IF i = 0 THEN base ELSE InsertGroup(h[i - 1], groups[i], max, perGroup)]
           F == CHOOSE h : Runs(h)
<1>8. Runs(f)
  <2>1. \A i \in 0..n : i # 0 => i \in 1..n
    BY <1>1
  <2>2. f = [i \in 0..n |-> f[i]]
    BY <1>6
  <2>3. \A i \in 0..n : f[i] = IF i = 0 THEN base ELSE InsertGroup(f[i - 1], groups[i], max, perGroup)
    BY <1>6, <1>7, <2>1
  <2> QED BY <2>2, <2>3
<1>9. Runs(F)
  <2> HIDE DEF Runs
  <2> QED BY <1>8, Zenon
<1>10. ApplyExpansion(base, groups, max, perGroup) =
         IF max <= Len(base) \/ perGroup = 0 THEN base ELSE F[n]
  BY DEF ApplyExpansion, n
<1> HIDE DEF F
<1>11. \A i \in Nat : i \in 0..n => F[i] = f[i]
  <2> DEFINE T == {i \in Nat : i \in 0..n => F[i] = f[i]}
  <2>1. 0 \in T
    <3>1. 0 \in 0..n
      BY <1>1
    <3>2. F[0] = base
      BY <1>9, <3>1
    <3> QED BY <1>6, <3>2
  <2>2. ASSUME NEW i \in Nat, i \in T PROVE i + 1 \in T
    <3> SUFFICES ASSUME i + 1 \in 0..n PROVE F[i + 1] = f[i + 1]
      OBVIOUS
    <3>1. i \in 0..n /\ i + 1 \in 1..n /\ i + 1 # 0 /\ (i + 1) - 1 = i
      BY <1>1
    <3>2. F[i] = f[i]
      BY <2>2, <3>1
    <3>3. F[i + 1] = InsertGroup(F[(i + 1) - 1], groups[i + 1], max, perGroup)
      BY <1>9, <3>1
    <3>4. f[i + 1] = InsertGroup(f[(i + 1) - 1], groups[i + 1], max, perGroup)
      BY <1>7, <3>1
    <3> QED BY <3>1, <3>2, <3>3, <3>4
  <2> HIDE DEF T
  <2>3. Nat \subseteq T
    BY <2>1, <2>2, Induct
  <2> QED BY <2>3 DEF T
<1>12. F[n] = f[n]
  BY <1>1, <1>11
<1>13. ApplyExpansion(base, groups, max, perGroup) =
         IF max <= Len(base) \/ perGroup = 0 THEN base ELSE f[n]
  BY <1>10, <1>12
<1> HIDE DEF Runs
<1>14. AddsGroups(f, base, groups, max, perGroup)
  BY <1>6, <1>7, <1>13 DEF n, S, AddsGroups
<1> QED BY <1>14

\* An order holds itself.
LEMMA NearItself ==
  ASSUME NEW S, NEW old \in Seq(S)
  PROVE  Near(old, old, [k \in 1..Len(old) |-> k])
BY DEF Near, Holds

\* An expansion inserts behind footholds, nothing twice, and within its total.
LEMMA ExpansionNear ==
  ASSUME NEW base \in Seq(EvIds), IsInjective(base), NEW groups \in Seq(EvGroup),
         \A i \in 1..Len(groups) : GroupFits(base, groups[i]), NEW max \in Nat, NEW perGroup \in Nat
  PROVE  LET new == ApplyExpansion(base, groups, max, perGroup)
         IN /\ new \in Seq(EvIds) /\ IsInjective(new) /\ (\E h : Near(base, new, h))
            /\ new = base \/ Len(new) <= max
<1> DEFINE n == Len(groups)
           Good(o) == IsInjective(o) /\ (\E h : Near(base, o, h)) /\ (o = base \/ Len(o) <= max)
<1>1. n \in Nat /\ \A i \in 1..n : groups[i] \in EvGroup
  OBVIOUS
<1>p. PICK f : AddsGroups(f, base, groups, max, perGroup)
  BY ExpansionSteps
<1>2. /\ f \in [0..n -> Seq(EvIds)] /\ f[0] = base
      /\ \A i \in 1..n : f[i] = InsertGroup(f[i - 1], groups[i], max, perGroup)
      /\ ApplyExpansion(base, groups, max, perGroup) =
                  IF max <= Len(base) \/ perGroup = 0 THEN base ELSE f[n]
  BY <1>p DEF AddsGroups
<1> HIDE DEF n
<1>3. Good(base)
  BY NearItself
<1>4. ASSUME NEW i \in 1..n, Good(f[i - 1]) PROVE Good(f[i])
  <2> DEFINE o == f[i - 1]
             g == groups[i]
             new == InsertGroup(o, g, max, perGroup)
  <2>0. i - 1 \in 0..n
    BY <1>1
  <2>1. o \in Seq(EvIds) /\ g \in EvGroup /\ GroupFits(base, g) /\ new = f[i]
    BY <1>1, <1>2, <2>0 DEF n
  <2>2. PICK h : Near(base, o, h)
    BY <1>4
  <2>3. IsInjective(o) /\ (o = base \/ Len(o) <= max)
    BY <1>4
  <2> HIDE DEF o, g
  <2>4. IsInjective(new) /\ (\E hh : Near(base, new, hh)) /\ (new = o \/ Len(new) <= max)
    BY <2>1, <2>2, <2>3, InsertNear
  <2> HIDE DEF new
  <2> QED BY <2>1, <2>3, <2>4
<1> HIDE DEF Good
<1>5. \A i \in Nat : i \in 0..n => Good(f[i])
  <2> DEFINE T == {i \in Nat : i \in 0..n => Good(f[i])}
  <2>1. 0 \in T
    BY <1>2, <1>3
  <2>2. ASSUME NEW i \in Nat, i \in T PROVE i + 1 \in T
    <3> SUFFICES ASSUME i + 1 \in 0..n PROVE Good(f[i + 1])
      OBVIOUS
    <3>1. i \in 0..n /\ i + 1 \in 1..n /\ (i + 1) - 1 = i
      BY <1>1
    <3> QED BY <1>4, <2>2, <3>1
  <2> HIDE DEF T
  <2>3. Nat \subseteq T
    BY <2>1, <2>2, Induct
  <2> QED BY <2>3 DEF T
<1>6. n \in 0..n
  BY <1>1
<1>7. Good(f[n]) /\ f[n] \in Seq(EvIds)
  BY <1>1, <1>2, <1>5, <1>6
<1> DEFINE new == ApplyExpansion(base, groups, max, perGroup)
<1>8. new = base \/ new = f[n]
  BY <1>2
<1> HIDE DEF new
<1>9. Good(new) /\ new \in Seq(EvIds)
  BY <1>3, <1>7, <1>8
<1> QED BY <1>9 DEF Good, new

-----------------------------------------------------------------------------
(* The groups of the expansions fit the order they are made from.           *)

\* What a query brings.
EvAsks == [packet : Seq(EvIds), recalls : Seq(EvRecall), timeline : Seq(EvIds), candidates : Seq(EvShards),
           confident : BOOLEAN, sim : [EvEvents -> Int], terms : EvTerms, config : EvConfig]

LEMMA KnownKeeps ==
  ASSUME NEW order \in Seq(EvIds)
  PROVE  LET r == Known(order)
         IN /\ r \in Seq(EvEvents) /\ (IsInjective(order) => IsInjective(r))
            /\ \A k \in 1..Len(r) : \E i \in 1..Len(order) : order[i] = r[k]
            /\ \A i \in 1..Len(order) : order[i] \in EvEvents => \E k \in 1..Len(r) : r[k] = order[i]
<1> DEFINE P == {i \in DOMAIN order : order[i] \in EvEvents}
           r == ItemsAt(order, P)
<1>1. P \subseteq DOMAIN order /\ DOMAIN order = 1..Len(order)
  OBVIOUS
<1>2. \A i \in P : order[i] \in EvEvents
  OBVIOUS
<1>3. \A i \in 1..Len(order) : order[i] \in EvEvents => i \in P
  BY <1>1
<1> HIDE DEF P
<1>4. r \in Seq(EvIds) /\ ToSet(r) = {order[i] : i \in P} /\ (IsInjective(order) => IsInjective(r))
  BY <1>1, FilterKeeps
<1> HIDE DEF r
<1>5. DOMAIN r = 1..Len(r) /\ Len(r) \in Nat /\ r = [k \in 1..Len(r) |-> r[k]]
  BY <1>4
<1>6. \A k \in 1..Len(r) : \E i \in P : order[i] = r[k]
  <2>1. \A k \in 1..Len(r) : r[k] \in ToSet(r)
    BY <1>5 DEF ToSet
  <2> QED BY <1>4, <2>1
<1>7. \A i \in P : \E k \in 1..Len(r) : r[k] = order[i]
  <2>1. \A i \in P : order[i] \in ToSet(r)
    BY <1>4
  <2> QED BY <1>5, <2>1 DEF ToSet
<1>8. r \in Seq(EvEvents)
  <2>1. \A k \in 1..Len(r) : r[k] \in EvEvents
    BY <1>2, <1>6
  <2> QED BY <1>5, <2>1
<1>9. Known(order) = r
  BY DEF Known, r, P
<1> QED BY <1>1, <1>3, <1>4, <1>6, <1>7, <1>8, <1>9

LEMMA ShardsOfEvents == \A e \in EvEvents : EvShardOf[e] \in EvShards
BY DEF EvShards

LEMMA TouchedKeeps ==
  ASSUME NEW order \in Seq(EvIds)
  PROVE  /\ Touched(order) \in Seq(EvShards)
         /\ \A s \in ToSet(Touched(order)) : \E k \in 1..Len(Known(order)) : EvShardOf[Known(order)[k]] = s
<1> DEFINE r == Known(order)
           q == [i \in DOMAIN r |-> EvShardOf[r[i]]]
<1>1. r \in Seq(EvEvents)
  BY KnownKeeps
<1> HIDE DEF r
<1>2. DOMAIN r = 1..Len(r) /\ Len(r) \in Nat /\ \A i \in 1..Len(r) : r[i] \in EvEvents
  BY <1>1
<1>3. q \in Seq(EvShards) /\ DOMAIN q = 1..Len(r)
  BY <1>2, ShardsOfEvents
<1>4. \A i \in 1..Len(r) : q[i] = EvShardOf[r[i]]
  BY <1>2
<1> HIDE DEF q
<1>5. DedupeInOrder(q) \in Seq(EvShards) /\ ToSet(DedupeInOrder(q)) = ToSet(q)
  BY <1>3, DedupeKeeps
<1>6. Touched(order) = DedupeInOrder(q)
  BY DEF Touched, q, r
<1>7. \A s \in ToSet(q) : \E k \in 1..Len(r) : EvShardOf[r[k]] = s
  BY <1>3, <1>4 DEF ToSet
<1> QED BY <1>5, <1>6, <1>7 DEF r

\* The last event of a touched shard is an event of the order and of the shard.
LEMMA LastOfKeeps ==
  ASSUME NEW order \in Seq(EvIds), NEW s \in ToSet(Touched(order))
  PROVE  /\ LastOf(order, s) \in EvEvents /\ EvShardOf[LastOf(order, s)] = s
         /\ \E i \in 1..Len(order) : order[i] = LastOf(order, s)
<1> DEFINE r == Known(order)
           I == {i \in DOMAIN r : EvShardOf[r[i]] = s}
<1>1. r \in Seq(EvEvents) /\ \A k \in 1..Len(r) : \E i \in 1..Len(order) : order[i] = r[k]
  BY KnownKeeps
<1>2. \E k \in 1..Len(r) : EvShardOf[r[k]] = s
  BY TouchedKeeps
<1> HIDE DEF r
<1>3. DOMAIN r = 1..Len(r) /\ Len(r) \in Nat
  BY <1>1
<1>4. I \subseteq 1..Len(r) /\ I # {}
  BY <1>2, <1>3
<1>5. \A i \in I : EvShardOf[r[i]] = s
  OBVIOUS
<1> HIDE DEF I
<1>6. Max(I) \in I
  <2>1. IsFiniteSet(I) /\ I \subseteq Int
    BY <1>3, <1>4, UpToFinite
  <2> QED BY <1>4, <2>1, MaxExists
<1>7. LastOf(order, s) = r[Max(I)]
  BY DEF LastOf, r, I
<1>8. Max(I) \in 1..Len(r)
  BY <1>4, <1>6
<1>9. r[Max(I)] \in EvEvents
  BY <1>1, <1>8
<1> QED BY <1>1, <1>5, <1>6, <1>7, <1>8, <1>9

\* The events of a shard.
LEMMA InShardKeeps ==
  ASSUME NEW s
  PROVE  /\ InShard(s) \in Seq(EvEvents) /\ IsInjective(InShard(s))
         /\ ToSet(InShard(s)) = {e \in EvEvents : EvShardOf[e] = s}
<1> DEFINE P == {i \in DOMAIN EvCorpus : EvShardOf[EvCorpus[i]] = s}
<1>1. P \subseteq DOMAIN EvCorpus /\ EvCorpus \in Seq(EvEvents) /\ IsInjective(EvCorpus)
  <2>1. EvCorpus \in Seq(EvIds) /\ IsInjective(EvCorpus)
    BY EvidenceConstants
  <2>2. \A i \in DOMAIN EvCorpus : EvCorpus[i] \in EvEvents
    BY DEF EvEvents, ToSet
  <2>3. EvCorpus \in Seq(EvEvents)
    <3>1. EvCorpus = [i \in 1..Len(EvCorpus) |-> EvCorpus[i]] /\ Len(EvCorpus) \in Nat
          /\ DOMAIN EvCorpus = 1..Len(EvCorpus)
      BY <2>1
    <3> QED BY <2>2, <3>1
  <2> QED BY <2>1, <2>3
<1>2. {EvCorpus[i] : i \in P} = {e \in EvEvents : EvShardOf[e] = s}
  BY DEF EvEvents, ToSet
<1> HIDE DEF P
<1>3. /\ ItemsAt(EvCorpus, P) \in Seq(EvEvents) /\ ToSet(ItemsAt(EvCorpus, P)) = {EvCorpus[i] : i \in P}
      /\ IsInjective(ItemsAt(EvCorpus, P))
  BY <1>1, FilterKeeps
<1>4. InShard(s) = ItemsAt(EvCorpus, P)
  BY DEF InShard, P
<1> QED BY <1>2, <1>3, <1>4

LEMMA CorpusPlaces ==
  /\ \A e \in EvEvents : CorpusPos[e] \in 1..Len(EvCorpus) /\ EvCorpus[CorpusPos[e]] = e
  /\ Len(EvCorpus) \in Nat
<1>1. EvCorpus \in Seq(EvIds)
  BY EvidenceConstants
<1>2. DOMAIN EvCorpus = 1..Len(EvCorpus) /\ Len(EvCorpus) \in Nat
  BY <1>1
<1>3. ASSUME NEW e \in EvEvents PROVE CorpusPos[e] \in DOMAIN EvCorpus /\ EvCorpus[CorpusPos[e]] = e
  <2>1. \E i \in DOMAIN EvCorpus : EvCorpus[i] = e
    BY DEF EvEvents, ToSet
  <2>2. CorpusPos[e] = CHOOSE i \in DOMAIN EvCorpus : EvCorpus[i] = e
    BY DEF CorpusPos
  <2> QED BY <2>1, <2>2, Zenon
<1> QED BY <1>2, <1>3

\* The nearest events of a set: each of them at most once, and all if there is room.
LEMMA TopKKeeps ==
  ASSUME evAsk \in EvAsks, NEW S, S \subseteq EvEvents, NEW k \in Nat
  PROVE  LET r == TopKCosine(S, k)
         IN /\ r \in Seq(S) /\ r \in Seq(EvEvents) /\ IsInjective(r)
            /\ Cardinality(S) \in Nat /\ Len(r) = Cut(S, k)
            /\ k >= Cardinality(S) => ToSet(r) = S
<1> DEFINE sc == evAsk.sim
<1>1. sc \in [EvEvents -> Int]
  BY DEF EvAsks
<1> HIDE DEF sc
<1>2. Comparable(S, sc, CorpusPos)
  <2>1. IsFiniteSet(S)
    BY EventsAreIds, FS_Subset
  <2>2. \A e \in S : sc[e] \in Int /\ CorpusPos[e] \in Int
    BY <1>1, CorpusPlaces
  <2>3. \A d, e \in S : CorpusPos[d] = CorpusPos[e] => d = e
    BY CorpusPlaces
  <2> QED BY <2>1, <2>2, <2>3 DEF Comparable
<1> DEFINE r == Selected(S, sc, CorpusPos, k)
<1>3. /\ r \in Seq(S) /\ IsInjective(r) /\ Cardinality(S) \in Nat /\ Len(r) = Cut(S, k)
      /\ k >= Cardinality(S) => ToSet(r) = S
  BY <1>2, SelectedOnce
<1> HIDE DEF r
<1>4. r \in Seq(EvEvents)
  <2> DEFINE E == EvEvents
  <2> HIDE DEF E
  <2>1. S \subseteq E
    BY DEF E
  <2>2. r \in Seq(E)
    BY <1>3, <2>1
  <2> QED BY <2>2 DEF E
<1>5. TopKCosine(S, k) = r
  BY DEF TopKCosine, r, sc
<1> QED BY <1>3, <1>4, <1>5

\* The best events of a set by shared terms are events of the set, each at most once.
LEMMA ByTermsKeeps ==
  ASSUME evAsk \in EvAsks, NEW S, S \subseteq EvEvents, NEW words, NEW limit \in Nat
  PROVE  LET r == ByTerms(S, words, limit) IN r \in Seq(EvEvents) /\ IsInjective(r) /\ ToSet(r) \subseteq S
<1> DEFINE points == [e \in S |-> Cardinality(evAsk.terms[e] \cap words)]
           later == [e \in S |-> Len(EvCorpus) - CorpusPos[e]]
           U == {e \in S : points[e] > 0}
           r == Selected(U, points, later, limit)
<1>1. \A e \in S : points[e] \in Int
  <2> SUFFICES ASSUME NEW e \in S PROVE Cardinality(evAsk.terms[e] \cap words) \in Nat
    OBVIOUS
  <2>1. evAsk.terms \in EvTerms
    BY DEF EvAsks
  <2>2. IsFiniteSet(evAsk.terms[e])
    BY <2>1, EvidenceInputs
  <2>3. IsFiniteSet(evAsk.terms[e] \cap words)
    BY <2>2, FS_Subset
  <2> QED BY <2>3, FS_CardinalityType
<1>2. \A e \in S : later[e] \in Int
  BY CorpusPlaces
<1>3. \A d, e \in S : later[d] = later[e] => d = e
  <2> SUFFICES ASSUME NEW d \in S, NEW e \in S, later[d] = later[e] PROVE d = e
    OBVIOUS
  <2>1. Len(EvCorpus) - CorpusPos[d] = Len(EvCorpus) - CorpusPos[e]
    OBVIOUS
  <2>2. CorpusPos[d] \in Int /\ CorpusPos[e] \in Int /\ Len(EvCorpus) \in Int
    BY CorpusPlaces
  <2>3. CorpusPos[d] = CorpusPos[e]
    BY <2>1, <2>2
  <2> QED BY <2>3, CorpusPlaces
<1>4. U \subseteq S /\ IsFiniteSet(U)
  <2>1. IsFiniteSet(S)
    BY EventsAreIds, FS_Subset
  <2> QED BY <2>1, FS_Subset
<1> HIDE DEF points, later, U
<1>5. Comparable(U, points, later)
  BY <1>1, <1>2, <1>3, <1>4 DEF Comparable
<1>6. r \in Seq(U) /\ IsInjective(r)
  BY <1>5, SelectedOnce
<1> HIDE DEF r
<1>7. \A i \in DOMAIN r : r[i] \in U
  BY <1>6
<1>8. ToSet(r) \subseteq S
  BY <1>4, <1>7 DEF ToSet
<1>9. r \in Seq(EvEvents)
  <2> DEFINE E == EvEvents
  <2> HIDE DEF E
  <2>1. U \subseteq E
    BY <1>4 DEF E
  <2>2. r \in Seq(E)
    BY <1>6, <2>1
  <2> QED BY <2>2 DEF E
<1>10. ByTerms(S, words, limit) = r
  BY DEF ByTerms, r, U, points, later
<1> QED BY <1>6, <1>8, <1>9, <1>10

LEMMA SeedsKeep ==
  ASSUME evAsk \in EvAsks, floorAdded \in Seq(EvEvents), NEW order \in Seq(EvIds)
  PROVE  SeedShards(order) \in Seq(EvShards)
<1> DEFINE a == [i \in DOMAIN floorAdded |-> EvShardOf[floorAdded[i]]]
           b == FirstOf(evAsk.candidates, 1)
           c == [i \in DOMAIN evAsk.recalls |-> evAsk.recalls[i].shard]
           d == evAsk.candidates
           e == Touched(order)
<1>1. a \in Seq(EvShards)
  <2>1. DOMAIN floorAdded = 1..Len(floorAdded) /\ Len(floorAdded) \in Nat
        /\ \A i \in 1..Len(floorAdded) : floorAdded[i] \in EvEvents
    OBVIOUS
  <2> QED BY <2>1, ShardsOfEvents
<1>2. d \in Seq(EvShards) /\ evAsk.recalls \in Seq(EvRecall)
  BY DEF EvAsks
<1>3. b \in Seq(EvShards)
  <2>1. 1 \in Int
    OBVIOUS
  <2> QED BY <1>2, <2>1, FirstOfKeeps
<1>4. c \in Seq(EvShards)
  <2> DEFINE q == evAsk.recalls
  <2>1. q \in Seq(EvRecall)
    BY <1>2
  <2> HIDE DEF q
  <2>2. DOMAIN q = 1..Len(q) /\ Len(q) \in Nat /\ \A i \in 1..Len(q) : q[i] \in EvRecall
    BY <2>1
  <2>3. \A i \in 1..Len(q) : q[i].shard \in EvShards
    BY <2>2 DEF EvRecall
  <2>4. [i \in DOMAIN q |-> q[i].shard] \in Seq(EvShards)
    BY <2>2, <2>3
  <2> QED BY <2>4 DEF q
<1>5. e \in Seq(EvShards)
  BY TouchedKeeps
<1> HIDE DEF a, b, c, d, e
<1>6. a \o b \o c \o d \o e \in Seq(EvShards)
  BY <1>1, <1>2, <1>3, <1>4, <1>5
<1>7. SeedShards(order) = DedupeInOrder(a \o b \o c \o d \o e)
  BY DEF SeedShards, a, b, c, d, e
<1> QED BY <1>6, <1>7, DedupeKeeps

\* A group of a touched shard: its last event and some events of the shard.
LEMMA GroupOfShard ==
  ASSUME NEW order \in Seq(EvIds), NEW s \in ToSet(Touched(order)), NEW ranked \in Seq(EvEvents),
         IsInjective(ranked), ToSet(ranked) \subseteq ToSet(InShard(s))
  PROVE  LET g == [after |-> LastOf(order, s), ranked |-> ranked] IN g \in EvGroup /\ GroupFits(order, g)
<1> DEFINE g == [after |-> LastOf(order, s), ranked |-> ranked]
<1>1. /\ LastOf(order, s) \in EvEvents /\ EvShardOf[LastOf(order, s)] = s
      /\ \E i \in 1..Len(order) : order[i] = LastOf(order, s)
  BY LastOfKeeps
<1>2. g \in EvGroup /\ g.after = LastOf(order, s) /\ g.ranked = ranked
  BY <1>1 DEF EvGroup
<1>3. \A i \in 1..Len(ranked) : EvShardOf[ranked[i]] = s
  <2>1. DOMAIN ranked = 1..Len(ranked)
    OBVIOUS
  <2>2. \A i \in 1..Len(ranked) : ranked[i] \in ToSet(ranked)
    BY <2>1 DEF ToSet
  <2> QED BY <2>2, InShardKeeps
<1> HIDE DEF g
<1>4. GroupFits(order, g)
  BY <1>1, <1>2, <1>3 DEF GroupFits
<1> QED BY <1>2, <1>4 DEF g

\* All groups of a sequence fit.
GroupsFit(order, groups) ==
    groups \in Seq(EvGroup) /\ \A i \in 1..Len(groups) : GroupFits(order, groups[i])

LEMMA SemanticFits ==
  ASSUME evAsk \in EvAsks, floorAdded \in Seq(EvEvents), NEW order \in Seq(EvIds), NEW k \in Nat
  PROVE  GroupsFit(order, SemanticGroups(order, k))
<1> DEFINE first == SeedShards(order)
           P == {i \in DOMAIN first : Contains(Touched(order), first[i])}
           here == ItemsAt(first, P)
           Ranked0(s) == TopKCosine(ToSet(InShard(s)), 4 * k + 4)
           Group(s) == [after |-> LastOf(order, s), ranked |-> Ranked0(s)]
<1>1. first \in Seq(EvShards) /\ P \subseteq DOMAIN first
  BY SeedsKeep
<1>2. \A i \in P : first[i] \in ToSet(Touched(order))
  <2>1. Touched(order) \in Seq(EvShards)
    BY TouchedKeeps
  <2>2. DOMAIN Touched(order) = 1..Len(Touched(order))
    BY <2>1
  <2> QED BY <2>2 DEF Contains, ToSet
<1> HIDE DEF P, first
<1>3. here \in Seq(EvShards) /\ ToSet(here) = {first[i] : i \in P}
  BY <1>1, FilterKeeps
<1> HIDE DEF here
<1>4. DOMAIN here = 1..Len(here) /\ Len(here) \in Nat /\ \A i \in 1..Len(here) : here[i] \in ToSet(Touched(order))
  <2>1. DOMAIN here = 1..Len(here) /\ Len(here) \in Nat
    BY <1>3
  <2>2. \A i \in 1..Len(here) : here[i] \in ToSet(here)
    BY <2>1 DEF ToSet
  <2> QED BY <1>2, <1>3, <2>1, <2>2
<1>5. ASSUME NEW s \in ToSet(Touched(order)) PROVE Group(s) \in EvGroup /\ GroupFits(order, Group(s))
  <2>1. ToSet(InShard(s)) \subseteq EvEvents
    BY InShardKeeps
  <2>2. 4 * k + 4 \in Nat
    OBVIOUS
  <2>3. Ranked0(s) \in Seq(ToSet(InShard(s))) /\ Ranked0(s) \in Seq(EvEvents) /\ IsInjective(Ranked0(s))
    BY <2>1, <2>2, TopKKeeps
  <2>4. ToSet(Ranked0(s)) \subseteq ToSet(InShard(s))
    <3> HIDE DEF Ranked0
    <3>1. \A i \in DOMAIN Ranked0(s) : Ranked0(s)[i] \in ToSet(InShard(s))
      BY <2>3
    <3> QED BY <3>1 DEF ToSet
  <2> HIDE DEF Ranked0
  <2> QED BY <2>3, <2>4, GroupOfShard
<1> HIDE DEF Group
<1> DEFINE groups == [i \in DOMAIN here |-> Group(here[i])]
<1>6. groups \in Seq(EvGroup) /\ Len(groups) = Len(here)
  BY <1>4, <1>5
<1>7. \A i \in 1..Len(here) : GroupFits(order, groups[i])
  BY <1>4, <1>5
<1>8. SemanticGroups(order, k) = groups
  BY DEF SemanticGroups, groups, Group, Ranked0, here, P, first
<1> HIDE DEF groups
<1> QED BY <1>6, <1>7, <1>8 DEF GroupsFit

LEMMA NonemptyFits ==
  ASSUME NEW order, NEW groups, GroupsFit(order, groups)
  PROVE  GroupsFit(order, Nonempty(groups))
<1> DEFINE P == {i \in DOMAIN groups : groups[i].ranked # << >>}
           r == ItemsAt(groups, P)
<1>1. groups \in Seq(EvGroup) /\ P \subseteq DOMAIN groups /\ DOMAIN groups = 1..Len(groups)
  BY DEF GroupsFit
<1> HIDE DEF P
<1>2. r \in Seq(EvGroup) /\ ToSet(r) = {groups[i] : i \in P}
  BY <1>1, FilterKeeps
<1> HIDE DEF r
<1>3. \A i \in 1..Len(r) : r[i] \in {groups[j] : j \in P}
  <2>1. DOMAIN r = 1..Len(r)
    BY <1>2
  <2>2. \A i \in 1..Len(r) : r[i] \in ToSet(r)
    BY <2>1 DEF ToSet
  <2> QED BY <1>2, <2>2
<1>4. \A j \in P : GroupFits(order, groups[j])
  BY <1>1 DEF GroupsFit
<1>5. Nonempty(groups) = r
  BY DEF Nonempty, r, P
<1> QED BY <1>2, <1>3, <1>4, <1>5 DEF GroupsFit

LEMMA LexicalFits ==
  ASSUME evAsk \in EvAsks, NEW order \in Seq(EvIds)
  PROVE  GroupsFit(order, LexicalGroups(order))
<1> DEFINE t == Touched(order)
           Ranked0(s) == ByTerms(ToSet(InShard(s)), QueryTerms, 16)
           Group(s) == [after |-> LastOf(order, s), ranked |-> Ranked0(s)]
           groups == [i \in DOMAIN t |-> Group(t[i])]
<1>1. t \in Seq(EvShards)
  BY TouchedKeeps
<1>2. ASSUME NEW s \in ToSet(t) PROVE Group(s) \in EvGroup /\ GroupFits(order, Group(s))
  <2>1. ToSet(InShard(s)) \subseteq EvEvents /\ 16 \in Nat
    BY InShardKeeps
  <2>2. Ranked0(s) \in Seq(EvEvents) /\ IsInjective(Ranked0(s)) /\ ToSet(Ranked0(s)) \subseteq ToSet(InShard(s))
    BY <2>1, ByTermsKeeps
  <2> HIDE DEF Ranked0
  <2> QED BY <2>2, GroupOfShard
<1> HIDE DEF t, Group
<1>3. DOMAIN t = 1..Len(t) /\ Len(t) \in Nat /\ \A i \in 1..Len(t) : t[i] \in ToSet(t)
  <2>1. DOMAIN t = 1..Len(t) /\ Len(t) \in Nat
    BY <1>1
  <2> QED BY <2>1 DEF ToSet
<1>4. groups \in Seq(EvGroup) /\ Len(groups) = Len(t) /\ \A i \in 1..Len(t) : GroupFits(order, groups[i])
  BY <1>2, <1>3
<1> HIDE DEF groups
<1>5. GroupsFit(order, Nonempty(groups))
  BY <1>4, NonemptyFits DEF GroupsFit
<1>6. GroupsFit(order, << >>)
  BY DEF GroupsFit
<1>7. LexicalGroups(order) = IF QueryTerms = {} THEN << >> ELSE Nonempty(groups)
  BY DEF LexicalGroups, groups, Group, Ranked0, t
<1> QED BY <1>5, <1>6, <1>7

LEMMA EntityFits ==
  ASSUME evAsk \in EvAsks, NEW order \in Seq(EvIds)
  PROVE  GroupsFit(order, EntityGroups(order))
<1> DEFINE t == Known(order)
           Around(e) == ToSet(InShard(EvShardOf[e])) \ {e}
           Ranked0(e) == ByTerms(Around(e), QueryTerms \cup evAsk.terms[e], 24)
           Group(e) == [after |-> e, ranked |-> Ranked0(e)]
           groups == [i \in DOMAIN t |-> Group(t[i])]
<1>1. t \in Seq(EvEvents) /\ \A k \in 1..Len(t) : \E i \in 1..Len(order) : order[i] = t[k]
  BY KnownKeeps
<1> HIDE DEF t
<1>2. ASSUME NEW k \in 1..Len(t) PROVE Group(t[k]) \in EvGroup /\ GroupFits(order, Group(t[k]))
  <2> DEFINE e == t[k]
             g == Group(e)
  <2>1. e \in EvEvents /\ \E i \in 1..Len(order) : order[i] = e
    BY <1>1
  <2> HIDE DEF e
  <2>2. Around(e) \subseteq EvEvents /\ (\A x \in Around(e) : EvShardOf[x] = EvShardOf[e]) /\ 24 \in Nat
    BY InShardKeeps
  <2> HIDE DEF Around
  <2>3. Ranked0(e) \in Seq(EvEvents) /\ IsInjective(Ranked0(e)) /\ ToSet(Ranked0(e)) \subseteq Around(e)
    BY <2>2, ByTermsKeeps
  <2> HIDE DEF Ranked0
  <2>4. g \in EvGroup /\ g.after = e /\ g.ranked = Ranked0(e)
    BY <2>1, <2>3 DEF EvGroup
  <2>5. \A i \in 1..Len(Ranked0(e)) : Ranked0(e)[i] \in ToSet(Ranked0(e))
    <3>1. DOMAIN Ranked0(e) = 1..Len(Ranked0(e))
      BY <2>3
    <3> QED BY <3>1 DEF ToSet
  <2>6. \A i \in 1..Len(Ranked0(e)) : EvShardOf[Ranked0(e)[i]] = EvShardOf[e]
    BY <2>2, <2>3, <2>5
  <2> HIDE DEF g
  <2>7. GroupFits(order, g)
    BY <2>1, <2>3, <2>4, <2>6 DEF GroupFits
  <2> QED BY <2>4, <2>7 DEF g, e
<1> HIDE DEF Group
<1>3. DOMAIN t = 1..Len(t) /\ Len(t) \in Nat
  BY <1>1
<1>4. groups \in Seq(EvGroup) /\ Len(groups) = Len(t) /\ \A i \in 1..Len(t) : GroupFits(order, groups[i])
  BY <1>2, <1>3
<1> HIDE DEF groups
<1>5. GroupsFit(order, Nonempty(groups))
  BY <1>4, NonemptyFits DEF GroupsFit
<1>6. EntityGroups(order) = Nonempty(groups)
  BY DEF EntityGroups, groups, Group, Ranked0, Around, t
<1> QED BY <1>5, <1>6

-----------------------------------------------------------------------------
(* The floor and the net.                                                   *)

\* The new events of a ranking, cut at n.
LEMMA FreshFirst ==
  ASSUME NEW order \in Seq(EvIds), NEW ids \in Seq(EvEvents), IsInjective(ids), NEW n \in Int
  PROVE  LET r == FirstOf(Fresh(order, ids), n)
         IN /\ r \in Seq(EvEvents) /\ IsInjective(r)
            /\ \A i \in 1..Len(r) : ~Contains(order, r[i]) /\ r[i] \in ToSet(ids)
<1> DEFINE q == Fresh(order, ids)
           r == FirstOf(q, n)
<1>1. /\ q \in Seq(EvEvents) /\ IsInjective(q)
      /\ \A i \in 1..Len(q) : ~Contains(order, q[i]) /\ q[i] \in ToSet(ids)
  BY FreshKeeps
<1> HIDE DEF q
<1>2. /\ r \in Seq(EvEvents) /\ Len(r) <= Len(q) /\ IsInjective(r)
      /\ \A i \in 1..Len(r) : r[i] = q[i]
  BY <1>1, FirstOfKeeps
<1> HIDE DEF r
<1>3. Len(r) \in Nat /\ Len(q) \in Nat
  BY <1>1, <1>2
<1>4. \A i \in 1..Len(r) : i \in 1..Len(q)
  BY <1>2, <1>3
<1>5. \A i \in 1..Len(r) : ~Contains(order, r[i]) /\ r[i] \in ToSet(ids)
  BY <1>1, <1>2, <1>4
<1> QED BY <1>2, <1>5 DEF r, q

\* The floor adds new events; after it the order has k ids or every event is in it.
LEMMA FloorFills ==
  ASSUME evAsk \in EvAsks, NEW order \in Seq(EvIds), NEW k \in Nat, Len(order) < k
  PROVE  LET n == ApplyFloor(order, k)
         IN /\ n \in Seq(EvEvents) /\ IsInjective(n)
            /\ \A i \in 1..Len(n) : ~Contains(order, n[i])
            /\ Len(order) + Len(n) >= k \/ \A e \in EvEvents : Contains(order, e) \/ e \in ToSet(n)
<1> DEFINE r == TopKCosine(EvEvents, 3 * k)
           q == Fresh(order, r)
           c == k - Len(order)
           n == FirstOf(q, c)
           N == Cardinality(EvEvents)
<1>1. r \in Seq(EvEvents) /\ IsInjective(r) /\ N \in Nat /\ Len(r) = Cut(EvEvents, 3 * k)
      /\ (3 * k >= N => ToSet(r) = EvEvents)
  <2>1. 3 * k \in Nat
    OBVIOUS
  <2> QED BY <2>1, TopKKeeps
<1> HIDE DEF r
<1>2. Len(r) = IF 3 * k < N THEN 3 * k ELSE N
  BY <1>1 DEF Cut
<1>3. Len(order) \in Nat /\ c \in Nat /\ Len(order) + c = k /\ Len(r) \in Nat
  BY <1>1
<1>4. /\ q \in Seq(EvEvents) /\ IsInjective(q)
      /\ \A i \in 1..Len(q) : ~Contains(order, q[i])
      /\ \A x \in ToSet(r) : ~Contains(order, x) => x \in ToSet(q)
  BY <1>1, FreshKeeps
<1>5. Len(q) >= Len(r) - Len(order)
  <2> DEFINE P == {i \in DOMAIN r : ~Contains(order, r[i])}
             m == Len(r)
  <2>1. P \subseteq DOMAIN r /\ DOMAIN r = 1..m
    BY <1>1
  <2>2. P = {i \in 1..m : ~Contains(order, r[i])}
    BY <2>1
  <2> HIDE DEF P
  <2>3. Len(ItemsAt(r, P)) = Cardinality(P)
    BY <1>1, <2>1, FilterKeeps
  <2>4. q = ItemsAt(r, P)
    BY DEF Fresh, P
  <2>5. \A i, j \in 1..m : r[i] = r[j] => i = j
    BY <1>1, <2>1 DEF IsInjective
  <2>6. m \in Nat
    BY <1>3
  <2> HIDE DEF m, q
  <2>7. Cardinality(P) >= m - Len(order)
    BY <2>2, <2>5, <2>6, TakenPlaces
  <2> QED BY <2>3, <2>4, <2>7 DEF m
<1> HIDE DEF q
<1>6. c \in Int
  BY <1>3
<1> HIDE DEF c
<1>7. /\ n \in Seq(EvEvents) /\ Len(n) <= Len(q) /\ IsInjective(n)
      /\ Len(n) = IF c < 0 THEN 0 ELSE IF c < Len(q) THEN c ELSE Len(q)
      /\ \A i \in 1..Len(n) : n[i] = q[i]
  BY <1>4, <1>6, FirstOfKeeps
<1> HIDE DEF n
<1>8. Len(n) \in Nat /\ Len(q) \in Nat /\ DOMAIN n = 1..Len(n) /\ DOMAIN q = 1..Len(q)
  BY <1>4, <1>7
<1>9. \A i \in 1..Len(n) : ~Contains(order, n[i])
  <2>1. \A i \in 1..Len(n) : i \in 1..Len(q)
    BY <1>7, <1>8
  <2> QED BY <1>4, <1>7, <2>1
<1>10. Len(order) + Len(n) >= k \/ \A e \in EvEvents : Contains(order, e) \/ e \in ToSet(n)
  <2>1. CASE c < Len(q)
    <3>1. Len(n) = c
      BY <1>3, <1>7, <2>1
    <3> QED BY <1>3, <3>1
  <2>2. CASE ~(c < Len(q)) /\ 3 * k < N
    <3>1. Len(n) = Len(q) /\ Len(r) = 3 * k
      BY <1>2, <1>3, <1>7, <2>2
    <3> QED BY <1>3, <1>5, <1>8, <3>1
  <2>3. CASE ~(c < Len(q)) /\ ~(3 * k < N)
    <3>1. Len(n) = Len(q)
      BY <1>3, <1>7, <2>3
    <3>2. 3 * k >= N
      BY <1>1, <2>3
    <3>3. \A e \in EvEvents : ~Contains(order, e) => e \in ToSet(q)
      BY <1>1, <1>4, <3>2
    <3>4. ToSet(q) = ToSet(n)
      <4>1. \A i \in 1..Len(q) : q[i] = n[i]
        BY <1>7, <3>1
      <4> QED BY <1>8, <3>1, <4>1 DEF ToSet
    <3> QED BY <3>3, <3>4
  <2> QED BY <2>1, <2>2, <2>3
<1>11. ApplyFloor(order, k) = n
  BY DEF ApplyFloor, n, q, r, c
<1> QED BY <1>7, <1>9, <1>10, <1>11

\* No known event of an order is nearer than what the net has to reach.
LEMMA FloorAboveKnown ==
  ASSUME evAsk \in EvAsks, NEW order \in Seq(EvIds)
  PROVE  /\ UnionFloor(order) \in Int
         /\ evAsk.config.beatsBest => \A d \in ToSet(Known(order)) : evAsk.sim[d] <= UnionFloor(order)
<1> DEFINE r == Known(order)
           sim == evAsk.sim
           B == {sim[e] : e \in ToSet(r)}
           S == {0} \cup B
           best == Max(S)
           low == evAsk.config.minCos
<1>1. r \in Seq(EvEvents)
  BY KnownKeeps
<1>2. sim \in [EvEvents -> Int] /\ low \in Int /\ evAsk.config.beatsBest \in BOOLEAN
  BY DEF EvAsks, EvConfig
<1> HIDE DEF r, sim
<1>3. ToSet(r) \subseteq EvEvents
  <2>1. DOMAIN r = 1..Len(r) /\ \A i \in 1..Len(r) : r[i] \in EvEvents
    BY <1>1
  <2> QED BY <2>1 DEF ToSet
<1>4. B \subseteq Int /\ IsFiniteSet(B)
  <2> DEFINE T == ToSet(r)
             f == [e \in T |-> sim[e]]
  <2>1. IsFiniteSet(T)
    BY <1>3, EventsAreIds, FS_Subset
  <2>2. \A e \in T : sim[e] \in Int
    BY <1>2, <1>3
  <2> HIDE DEF T
  <2>3. f \in Surjection(T, B)
    BY DEF Surjection, T
  <2>4. B \subseteq Int
    BY <2>2 DEF T
  <2> HIDE DEF f, B
  <2>5. IsFiniteSet(B)
    BY <2>1, <2>3, FS_Surjection
  <2> QED BY <2>4, <2>5
<1>5. \A d \in ToSet(r) : sim[d] \in B
  OBVIOUS
<1> HIDE DEF B
<1>6. S \subseteq Int /\ S # {} /\ IsFiniteSet(S)
  <2>1. IsFiniteSet({0})
    BY FS_Singleton
  <2>2. IsFiniteSet({0} \cup B)
    BY <1>4, <2>1, FS_Union
  <2> QED BY <1>4, <2>2
<1>7. \A d \in ToSet(r) : sim[d] \in S
  BY <1>5
<1> HIDE DEF S
<1>8. best \in S /\ \A y \in S : y <= best
  BY <1>6, MaxExists
<1>9. best \in Int
  BY <1>6, <1>8
<1> HIDE DEF best, low
<1> DEFINE D == {low, best}
           top == Max(D)
<1>10. top \in D /\ \A y \in D : y <= top
  <2>1. D \subseteq Int /\ D # {}
    BY <1>2, <1>9
  <2>2. IsFiniteSet(D)
    <3>1. IsFiniteSet({low}) /\ IsFiniteSet({best})
      BY FS_Singleton
    <3>2. IsFiniteSet({low} \cup {best})
      BY <3>1, FS_Union
    <3>3. {low} \cup {best} = D
      OBVIOUS
    <3> QED BY <3>2, <3>3
  <2> HIDE DEF D
  <2> QED BY <2>1, <2>2, MaxExists
<1>11. top \in Int /\ best <= top
  <2>1. D \subseteq Int /\ best \in D
    BY <1>2, <1>9
  <2> HIDE DEF top
  <2> HIDE DEF D
  <2> QED BY <1>10, <2>1
<1>12. UnionFloor(order) = IF evAsk.config.beatsBest THEN top ELSE low
  BY DEF UnionFloor, top, low, best, S, B, r, sim
<1> HIDE DEF top, D
<1>13. \A d \in ToSet(r) : sim[d] <= top
  <2> TAKE d \in ToSet(r)
  <2>1. sim[d] <= best /\ sim[d] \in Int
    BY <1>6, <1>7, <1>8
  <2> QED BY <1>9, <1>11, <2>1
<1>14. UnionFloor(order) \in Int
  BY <1>2, <1>11, <1>12
<1>15. evAsk.config.beatsBest => \A d \in ToSet(r) : sim[d] <= UnionFloor(order)
  BY <1>12, <1>13
<1> QED BY <1>14, <1>15 DEF r, sim

\* The net puts new events in front, none less near than its floor.
LEMMA UnionKeeps ==
  ASSUME evAsk \in EvAsks, NEW order \in Seq(EvIds), NEW k \in Nat
  PROVE  LET n == ApplyUnion(order, k)
         IN /\ n \in Seq(EvEvents) /\ IsInjective(n)
            /\ \A i \in 1..Len(n) : ~Contains(order, n[i]) /\ evAsk.sim[n[i]] >= UnionFloor(order)
<1> DEFINE near == TopKCosine(EvEvents, 3 * k)
           least == UnionFloor(order)
           sim == evAsk.sim
           P == {i \in DOMAIN near : sim[near[i]] >= least}
           hits == ItemsAt(near, P)
           n == FirstOf(Fresh(order, hits), k)
<1>1. near \in Seq(EvEvents) /\ IsInjective(near)
  <2>1. 3 * k \in Nat
    OBVIOUS
  <2> QED BY <2>1, TopKKeeps
<1> HIDE DEF near, least, sim
<1>2. P \subseteq DOMAIN near /\ \A i \in P : sim[near[i]] >= least
  OBVIOUS
<1> HIDE DEF P
<1>3. hits \in Seq(EvEvents) /\ IsInjective(hits) /\ ToSet(hits) = {near[i] : i \in P}
  BY <1>1, <1>2, FilterKeeps
<1> HIDE DEF hits
<1>4. \A e \in ToSet(hits) : sim[e] >= least
  BY <1>2, <1>3
<1>5. k \in Int
  OBVIOUS
<1>6. /\ n \in Seq(EvEvents) /\ IsInjective(n)
      /\ \A i \in 1..Len(n) : ~Contains(order, n[i]) /\ n[i] \in ToSet(hits)
  BY <1>3, <1>5, FreshFirst
<1>7. ApplyUnion(order, k) = n
  BY DEF ApplyUnion, n, hits, P, near, least, sim
<1> HIDE DEF n
<1>8. \A i \in 1..Len(n) : ~Contains(order, n[i]) /\ sim[n[i]] >= least
  BY <1>4, <1>6
<1> QED BY <1>6, <1>7, <1>8 DEF sim, least

-----------------------------------------------------------------------------
(* The stages.                                                              *)

\* What the runs of a query keep: its own inputs, sequences of ids, and soundness.
EvInv == /\ evOrder \in Seq(EvIds) /\ floorAdded \in Seq(EvEvents) /\ evPacked \in Seq(EvEvents)
         /\ evStage # "answered" => evAsk \in EvAsks
         /\ EvidenceSound

\* What a stage does to the order.
OrderStep ==
    /\ evOrder' \in Seq(EvIds) /\ IsInjective(evOrder')
    /\ evStage # "asked" => \E f : Holds(evOrder, evOrder', f)
    /\ Expands => \E f : Near(evOrder, evOrder', f)
    /\ Expands /\ evOrder' # evOrder => Len(evOrder') <= CapOf(evStage)
    /\ evStage = "floor" /\ evAsk.config.beatsBest =>
          \A e \in ToSet(evOrder') \ ToSet(evOrder), d \in ToSet(Known(evOrder)) : evAsk.sim[e] >= evAsk.sim[d]

LEMMA SameOrder ==
  ASSUME NEW order \in Seq(EvIds)
  PROVE  \E f : Holds(order, order, f)
<1>1. Near(order, order, [k \in 1..Len(order) |-> k])
  BY NearItself
<1> QED BY <1>1 DEF Near

LEMMA BaseSteps == EvInv /\ BaseOrder => OrderStep
<1> SUFFICES ASSUME EvInv, BaseOrder PROVE OrderStep
  OBVIOUS
<1>1. evStage = "asked" /\ evAsk \in EvAsks
  BY DEF BaseOrder, Stage, EvInv
<1>2. evAsk.packet \in Seq(EvIds) /\ evAsk.timeline \in Seq(EvIds) /\ evAsk.recalls \in Seq(EvRecall)
  BY <1>1 DEF EvAsks
<1> DEFINE packet == evAsk.packet
           recalls == evAsk.recalls
           timeline == evAsk.timeline
           ss == [i \in DOMAIN recalls |-> recalls[i].support]
           P == {i \in DOMAIN packet : packet[i] # NoEvent}
           cited == CollectCited(packet)
           recalled == CollectRecalled(recalls)
<1>3. cited \in Seq(EvIds)
  <2> HIDE DEF packet
  <2>1. P \subseteq DOMAIN packet
    OBVIOUS
  <2>2. packet \in Seq(EvIds)
    BY <1>2 DEF packet
  <2> HIDE DEF P
  <2> DEFINE q == ItemsAt(packet, P)
  <2>3. q \in Seq(EvIds)
    BY <2>1, <2>2, FilterKeeps
  <2> HIDE DEF q
  <2>4. DedupeInOrder(q) \in Seq(EvIds)
    BY <2>3, DedupeKeeps
  <2> QED BY <2>4 DEF CollectCited, q, P
<1>4. recalled \in Seq(EvIds)
  <2> HIDE DEF recalls
  <2>1. recalls \in Seq(EvRecall)
    BY <1>2 DEF recalls
  <2>2. \A i \in DOMAIN recalls : recalls[i].support \in Seq(EvIds)
    <3>1. \A i \in DOMAIN recalls : recalls[i] \in EvRecall
      BY <2>1
    <3>2. \A x \in EvRecall : x.support \in Seq(EvIds)
      BY DEF EvRecall
    <3> QED BY <3>1, <3>2
  <2> DEFINE Q == Seq(EvIds)
  <2> HIDE DEF Q
  <2>3. ss \in Seq(Q)
    <3>1. \A i \in DOMAIN recalls : recalls[i].support \in Q
      BY <2>2 DEF Q
    <3> QED BY <2>1, <3>1
  <2> HIDE DEF ss
  <2>4. FlattenSeq(ss) \in Seq(EvIds)
    <3>1. << >> \in Seq(EvIds)
      OBVIOUS
    <3> QED BY <2>3, <3>1, FlattenAppend DEF Q
  <2> DEFINE q == FlattenSeq(ss)
  <2>5. q \in Seq(EvIds)
    BY <2>4
  <2> HIDE DEF q
  <2>6. DedupeInOrder(q) \in Seq(EvIds)
    BY <2>5, DedupeKeeps
  <2> QED BY <2>6 DEF CollectRecalled, q, ss
<1>5. evOrder' = DedupeInOrder(cited \o recalled \o timeline)
  BY DEF BaseOrder
<1>6. timeline \in Seq(EvIds)
  BY <1>2
<1> HIDE DEF cited, recalled, timeline
<1> DEFINE all == cited \o recalled \o timeline
<1>7. all \in Seq(EvIds)
  BY <1>3, <1>4, <1>6
<1> HIDE DEF all
<1>8. DedupeInOrder(all) \in Seq(EvIds) /\ IsInjective(DedupeInOrder(all))
  BY <1>7, DedupeKeeps
<1> QED BY <1>1, <1>5, <1>8 DEF OrderStep, Expands, all

\* New events behind the order are a step of it.
LEMMA AppendStep ==
  ASSUME EvInv, ~Expands, evStage # "floor", NEW n \in Seq(EvEvents), IsInjective(n),
         \A i \in 1..Len(n) : ~Contains(evOrder, n[i]), evOrder' = evOrder \o n
  PROVE  OrderStep
<1>1. evOrder \in Seq(EvIds) /\ IsInjective(evOrder)
  BY DEF EvInv, EvidenceSound, EvidenceOnce
<1>2. n \in Seq(EvIds)
  BY EventsAreIds
<1> DEFINE old == evOrder
           new == evOrder'
<1>3. new \in Seq(EvIds) /\ IsInjective(new) /\ Holds(old, new, [k \in 1..Len(old) |-> k])
  <2>1. old \in Seq(EvIds) /\ IsInjective(old) /\ (\A i \in 1..Len(n) : ~Contains(old, n[i]))
    BY <1>1
  <2> HIDE DEF old
  <2>2. old \o n \in Seq(EvIds) /\ IsInjective(old \o n) /\ Holds(old, old \o n, [k \in 1..Len(old) |-> k])
    BY <1>2, <2>1, Appended
  <2> QED BY <2>2 DEF old
<1> QED BY <1>3 DEF OrderStep

LEMMA NothingNew ==
  ASSUME EvInv, evOrder' = evOrder
  PROVE  OrderStep
<1>1. evOrder \in Seq(EvIds) /\ IsInjective(evOrder)
  BY DEF EvInv, EvidenceSound, EvidenceOnce
<1>2. Near(evOrder, evOrder, [k \in 1..Len(evOrder) |-> k])
  BY <1>1, NearItself
<1>3. \E f : Near(evOrder, evOrder, f)
  BY <1>2
<1>4. \E f : Holds(evOrder, evOrder, f)
  BY <1>2 DEF Near
<1> QED BY <1>1, <1>3, <1>4 DEF OrderStep

LEMMA RagSteps == EvInv /\ RagFloor => OrderStep
<1> SUFFICES ASSUME EvInv, RagFloor PROVE OrderStep
  OBVIOUS
<1>1. evStage = "base" /\ evAsk \in EvAsks /\ evOrder \in Seq(EvIds)
  BY DEF RagFloor, Stage, EvInv
<1> DEFINE short == evAsk.candidates # << >> /\ evAsk.confident /\ Len(evOrder) < MinFromTopShard
           ids == InShard(evAsk.candidates[1])
           n == FirstOf(Fresh(evOrder, ids), MinFromTopShard - Len(evOrder))
<1>2. evOrder' = IF short THEN evOrder \o n ELSE evOrder
  BY DEF RagFloor
<1>3. ids \in Seq(EvEvents) /\ IsInjective(ids)
  BY InShardKeeps
<1>4. MinFromTopShard - Len(evOrder) \in Int
  BY <1>1, EvidenceConstants
<1> HIDE DEF ids
<1>5. n \in Seq(EvEvents) /\ IsInjective(n) /\ \A i \in 1..Len(n) : ~Contains(evOrder, n[i])
  BY <1>1, <1>3, <1>4, FreshFirst
<1>6. ~Expands /\ evStage # "floor"
  BY <1>1 DEF Expands
<1> HIDE DEF short, n
<1>7. CASE short
  BY <1>2, <1>5, <1>6, <1>7, AppendStep
<1>8. CASE ~short
  BY <1>2, <1>8, NothingNew
<1> QED BY <1>7, <1>8

LEMMA FloorSteps ==
  EvInv /\ EmbedFloor =>
    /\ OrderStep /\ floorAdded' \in Seq(EvEvents)
    /\ Len(evOrder') >= evAsk.config.floorK \/ EvEvents \subseteq ToSet(evOrder')
<1> SUFFICES ASSUME EvInv, EmbedFloor
             PROVE  /\ OrderStep /\ floorAdded' \in Seq(EvEvents)
                    /\ Len(evOrder') >= evAsk.config.floorK \/ EvEvents \subseteq ToSet(evOrder')
  OBVIOUS
<1>1. evStage = "rag" /\ evAsk \in EvAsks /\ evOrder \in Seq(EvIds)
  BY DEF EmbedFloor, Stage, EvInv
<1> DEFINE k == evAsk.config.floorK
           n == floorAdded'
<1>2. /\ n = IF Len(evOrder) < k THEN ApplyFloor(evOrder, k) ELSE << >>
      /\ evOrder' = evOrder \o n
  BY DEF EmbedFloor
<1>3. k \in Nat
  BY <1>1 DEF EvAsks, EvConfig
<1>4. ~Expands /\ evStage # "floor"
  BY <1>1 DEF Expands
<1> HIDE DEF k, n
<1>5. /\ n \in Seq(EvEvents) /\ IsInjective(n) /\ \A i \in 1..Len(n) : ~Contains(evOrder, n[i])
      /\ Len(evOrder) + Len(n) >= k \/ \A e \in EvEvents : Contains(evOrder, e) \/ e \in ToSet(n)
  <2>1. CASE Len(evOrder) < k
    <3> DEFINE q == ApplyFloor(evOrder, k)
    <3>1. /\ q \in Seq(EvEvents) /\ IsInjective(q) /\ \A i \in 1..Len(q) : ~Contains(evOrder, q[i])
          /\ Len(evOrder) + Len(q) >= k \/ \A e \in EvEvents : Contains(evOrder, e) \/ e \in ToSet(q)
      BY <1>1, <1>3, <2>1, FloorFills
    <3>2. n = q
      BY <1>2, <2>1
    <3> HIDE DEF q
    <3> QED BY <3>1, <3>2
  <2>2. CASE ~(Len(evOrder) < k)
    <3>1. n = << >>
      BY <1>2, <2>2
    <3>2. Len(n) = 0 /\ IsInjective(n) /\ n \in Seq(EvEvents)
      BY <3>1 DEF IsInjective
    <3>3. Len(evOrder) \in Nat
      BY <1>1
    <3>4. Len(evOrder) + Len(n) >= k
      BY <1>3, <2>2, <3>2, <3>3
    <3>5. \A i \in 1..Len(n) : ~Contains(evOrder, n[i])
      BY <3>2
    <3> QED BY <3>2, <3>4, <3>5
  <2> QED BY <2>1, <2>2
<1>6. OrderStep
  BY <1>2, <1>4, <1>5, AppendStep
<1>7. n \in Seq(EvIds)
  BY <1>5, EventsAreIds
<1> DEFINE o == evOrder
           new == o \o n
<1>8. Len(new) = Len(o) + Len(n) /\ new \in Seq(EvIds)
      /\ (\A i \in 1..Len(o) : new[i] = o[i]) /\ \A i \in 1..Len(n) : new[Len(o) + i] = n[i]
  BY <1>1, <1>7
<1>9. Len(o) \in Nat /\ Len(n) \in Nat /\ DOMAIN n = 1..Len(n) /\ DOMAIN new = 1..Len(new)
  BY <1>1, <1>7, <1>8
<1>10. \A e : Contains(o, e) \/ e \in ToSet(n) => e \in ToSet(new)
  <2> HIDE DEF new, o
  <2> TAKE e
  <2>1. ASSUME Contains(o, e) PROVE e \in ToSet(new)
    <3>1. PICK i \in 1..Len(o) : o[i] = e
      BY <2>1 DEF Contains
    <3>2. i \in DOMAIN new /\ new[i] = e
      BY <1>8, <1>9, <3>1
    <3> QED BY <3>2 DEF ToSet
  <2>2. ASSUME e \in ToSet(n) PROVE e \in ToSet(new)
    <3>1. PICK i \in 1..Len(n) : n[i] = e
      BY <1>9, <2>2 DEF ToSet
    <3>2. Len(o) + i \in DOMAIN new /\ new[Len(o) + i] = e
      BY <1>8, <1>9, <3>1
    <3> QED BY <3>2 DEF ToSet
  <2> QED BY <2>1, <2>2
<1> HIDE DEF new
<1>11. Len(new) >= k \/ \A e \in EvEvents : e \in ToSet(new)
  BY <1>5, <1>8, <1>10
<1>12. evOrder' = new
  BY <1>2 DEF new
<1> QED BY <1>5, <1>6, <1>11, <1>12 DEF k, n

LEMMA UnionSteps == EvInv /\ EmbedUnion => OrderStep
<1> SUFFICES ASSUME EvInv, EmbedUnion PROVE OrderStep
  OBVIOUS
<1>1. evStage = "floor" /\ evAsk \in EvAsks /\ evOrder \in Seq(EvIds) /\ IsInjective(evOrder)
  BY DEF EmbedUnion, Stage, EvInv, EvidenceSound, EvidenceOnce
<1> DEFINE k == evAsk.config.unionK
           n == ApplyUnion(evOrder, k)
           o == evOrder
           new == n \o o
<1>2. evOrder' = IF k > 0 THEN new ELSE o
  BY DEF EmbedUnion
<1>3. k \in Nat
  BY <1>1 DEF EvAsks, EvConfig
<1>4. /\ n \in Seq(EvEvents) /\ IsInjective(n)
      /\ \A i \in 1..Len(n) : ~Contains(o, n[i]) /\ evAsk.sim[n[i]] >= UnionFloor(o)
  <2> HIDE DEF k
  <2> QED BY <1>1, <1>3, UnionKeeps
<1> HIDE DEF n, k
<1>5. n \in Seq(EvIds)
  BY <1>4, EventsAreIds
<1>6. new \in Seq(EvIds) /\ IsInjective(new) /\ Holds(o, new, [i \in 1..Len(o) |-> Len(n) + i])
  <2>1. o \in Seq(EvIds) /\ IsInjective(o) /\ \A i \in 1..Len(n) : ~Contains(o, n[i])
    BY <1>1, <1>4
  <2> HIDE DEF o
  <2> QED BY <1>4, <1>5, <2>1, Prepended
<1>7. \A e \in ToSet(new) \ ToSet(o) : \E i \in 1..Len(n) : n[i] = e
  <2> TAKE e \in ToSet(new) \ ToSet(o)
  <2>1. /\ Len(new) = Len(n) + Len(o) /\ Len(o) \in Nat /\ Len(n) \in Nat
        /\ DOMAIN new = 1..Len(new) /\ DOMAIN o = 1..Len(o)
        /\ \A i \in 1..Len(new) : new[i] = IF i <= Len(n) THEN n[i] ELSE o[i - Len(n)]
    BY <1>1, <1>5
  <2> HIDE DEF new, o
  <2>2. PICK i \in 1..Len(new) : new[i] = e
    BY <2>1 DEF ToSet
  <2>3. CASE i <= Len(n)
    <3>1. i \in 1..Len(n)
      BY <2>1, <2>3
    <3> QED BY <2>1, <2>2, <2>3, <3>1
  <2>4. CASE ~(i <= Len(n))
    <3>1. i - Len(n) \in DOMAIN o /\ o[i - Len(n)] = e
      BY <2>1, <2>2, <2>4
    <3> QED BY <3>1 DEF ToSet
  <2> QED BY <2>3, <2>4
<1>8. evAsk.config.beatsBest =>
         \A e \in ToSet(new) \ ToSet(o), d \in ToSet(Known(o)) : evAsk.sim[e] >= evAsk.sim[d]
  <2> SUFFICES ASSUME evAsk.config.beatsBest, NEW e \in ToSet(new) \ ToSet(o), NEW d \in ToSet(Known(o))
               PROVE  evAsk.sim[e] >= evAsk.sim[d]
    OBVIOUS
  <2>1. UnionFloor(o) \in Int /\ evAsk.sim[d] <= UnionFloor(o)
    BY <1>1, FloorAboveKnown
  <2>2. PICK i \in 1..Len(n) : n[i] = e
    BY <1>7
  <2>3. evAsk.sim[e] >= UnionFloor(o)
    BY <1>4, <2>2
  <2>4. evAsk.sim[e] \in Int /\ evAsk.sim[d] \in Int
    <3>1. e \in EvEvents
      BY <1>4, <2>2
    <3>2. d \in EvEvents
      <4> DEFINE q == Known(o)
      <4>1. q \in Seq(EvEvents)
        BY <1>1, KnownKeeps
      <4> HIDE DEF q
      <4>2. DOMAIN q = 1..Len(q) /\ \A j \in 1..Len(q) : q[j] \in EvEvents
        BY <4>1
      <4>3. ToSet(q) \subseteq EvEvents
        BY <4>2 DEF ToSet
      <4> QED BY <4>3 DEF q
    <3>3. evAsk.sim \in [EvEvents -> Int]
      BY <1>1 DEF EvAsks
    <3> QED BY <3>1, <3>2, <3>3
  <2> DEFINE a == evAsk.sim[e]
             b == evAsk.sim[d]
             c == UnionFloor(o)
  <2>5. a \in Int /\ b \in Int /\ c \in Int /\ a >= c /\ b <= c
    BY <2>1, <2>3, <2>4
  <2> HIDE DEF a, b, c
  <2>6. a >= b
    BY <2>5
  <2> QED BY <2>6 DEF a, b
<1>9. ~Expands /\ evStage # "asked"
  BY <1>1 DEF Expands
<1> HIDE DEF new
<1>10. CASE k > 0
  <2>1. evOrder' = new
    BY <1>2, <1>10
  <2>2. \E f : Holds(evOrder, new, f)
    BY <1>6
  <2> QED BY <1>6, <1>8, <1>9, <2>1, <2>2 DEF OrderStep
<1>11. CASE ~(k > 0)
  BY <1>2, <1>11, NothingNew
<1> QED BY <1>10, <1>11

\* An expansion whose groups fit is a step.
LEMMA ExpansionStep ==
  ASSUME EvInv, evAsk \in EvAsks, Expands, evStage # "floor", NEW groups, GroupsFit(evOrder, groups),
         NEW max \in Nat, CapOf(evStage) = max, NEW perGroup \in Nat,
         evOrder' = ApplyExpansion(evOrder, groups, max, perGroup)
  PROVE  OrderStep
<1>1. evOrder \in Seq(EvIds) /\ IsInjective(evOrder)
  BY DEF EvInv, EvidenceSound, EvidenceOnce
<1>2. groups \in Seq(EvGroup) /\ \A i \in 1..Len(groups) : GroupFits(evOrder, groups[i])
  BY DEF GroupsFit
<1> DEFINE new == ApplyExpansion(evOrder, groups, max, perGroup)
<1>3. /\ new \in Seq(EvIds) /\ IsInjective(new) /\ (\E h : Near(evOrder, new, h))
      /\ new = evOrder \/ Len(new) <= max
  BY <1>1, <1>2, ExpansionNear
<1> HIDE DEF new
<1>4. evOrder' = new
  BY DEF new
<1>5. \E f : Holds(evOrder, new, f)
  BY <1>3 DEF Near
<1> QED BY <1>3, <1>4, <1>5 DEF OrderStep

LEMMA ShardSteps == EvInv /\ ShardExpand => OrderStep
<1> SUFFICES ASSUME EvInv, ShardExpand PROVE OrderStep
  OBVIOUS
<1>1. evStage = "union" /\ evAsk \in EvAsks /\ evOrder \in Seq(EvIds) /\ floorAdded \in Seq(EvEvents)
  BY DEF ShardExpand, Stage, EvInv
<1> DEFINE k == evAsk.config.expandK
           max == evAsk.config.expandMax
           groups == SemanticGroups(evOrder, k)
<1>2. k \in Nat /\ max \in Nat
  BY <1>1 DEF EvAsks, EvConfig
<1>3. CapOf(evStage) = max /\ Expands /\ evStage # "floor"
  BY <1>1 DEF CapOf, Expands
<1>4. evOrder' = ApplyExpansion(evOrder, groups, max, k)
  BY DEF ShardExpand
<1> HIDE DEF k, max
<1>5. GroupsFit(evOrder, groups)
  BY <1>1, <1>2, SemanticFits
<1> HIDE DEF groups
<1> QED BY <1>1, <1>2, <1>3, <1>4, <1>5, ExpansionStep

LEMMA LexicalSteps == EvInv /\ LexicalBridge => OrderStep
<1> SUFFICES ASSUME EvInv, LexicalBridge PROVE OrderStep
  OBVIOUS
<1>1. evStage = "expand" /\ evAsk \in EvAsks /\ evOrder \in Seq(EvIds)
  BY DEF LexicalBridge, Stage, EvInv
<1> DEFINE k == evAsk.config.lexicalK
           max == evAsk.config.lexicalMax
           groups == LexicalGroups(evOrder)
<1>2. k \in Nat /\ max \in Nat
  BY <1>1 DEF EvAsks, EvConfig
<1>3. CapOf(evStage) = max /\ Expands /\ evStage # "floor"
  BY <1>1 DEF CapOf, Expands
<1>4. evOrder' = ApplyExpansion(evOrder, groups, max, k)
  BY DEF LexicalBridge
<1>5. GroupsFit(evOrder, groups)
  BY <1>1, LexicalFits
<1> HIDE DEF groups, k, max
<1> QED BY <1>1, <1>2, <1>3, <1>4, <1>5, ExpansionStep

LEMMA EntitySteps == EvInv /\ EntityBridge => OrderStep
<1> SUFFICES ASSUME EvInv, EntityBridge PROVE OrderStep
  OBVIOUS
<1>1. evStage = "lexical" /\ evAsk \in EvAsks /\ evOrder \in Seq(EvIds)
  BY DEF EntityBridge, Stage, EvInv
<1> DEFINE k == evAsk.config.entityK
           max == evAsk.config.entityMax
           groups == EntityGroups(evOrder)
<1>2. k \in Nat /\ max \in Nat
  BY <1>1 DEF EvAsks, EvConfig
<1>3. CapOf(evStage) = max /\ Expands /\ evStage # "floor"
  BY <1>1 DEF CapOf, Expands
<1>4. evOrder' = ApplyExpansion(evOrder, groups, max, k)
  BY DEF EntityBridge
<1>5. GroupsFit(evOrder, groups)
  BY <1>1, EntityFits
<1> HIDE DEF groups, k, max
<1> QED BY <1>1, <1>2, <1>3, <1>4, <1>5, ExpansionStep

\* The stages before packing keep the invariant.
LEMMA EarlyKeeps ==
  ASSUME EvInv, OrderStep, evStage # "answered", evStage' \in EvStages \ {"packed", "answered"},
         evAsk' = evAsk, evPacked' = evPacked, floorAdded' \in Seq(EvEvents),
         evStage' = "floor" => Len(evOrder') >= evAsk.config.floorK \/ EvEvents \subseteq ToSet(evOrder')
  PROVE  EvInv'
<1>1. evOrder' \in Seq(EvIds) /\ IsInjective(evOrder')
  BY DEF OrderStep
<1>2. evAsk \in EvAsks /\ evPacked \in Seq(EvEvents) /\ IsInjective(evPacked) /\ ToSet(evPacked) \subseteq EvEvents
  BY DEF EvInv, EvidenceSound, EvidenceOnce
<1>3. EvidenceOnce'
  BY <1>1, <1>2 DEF EvidenceOnce
<1>4. FloorReached'
  BY DEF FloorReached
<1>5. PackedPrefix' /\ CitesWhatWasRead'
  BY DEF PackedPrefix, CitesWhatWasRead
<1> QED BY <1>1, <1>2, <1>3, <1>4, <1>5 DEF EvInv, EvidenceSound

LEMMA PackSteps == EvInv /\ PackContext => EvInv'
<1> SUFFICES ASSUME EvInv, PackContext PROVE EvInv'
  OBVIOUS
<1>1. /\ evStage = "entity" /\ evStage' = "packed" /\ evAsk \in EvAsks /\ evOrder \in Seq(EvIds) /\ IsInjective(evOrder)
      /\ UNCHANGED <<evAsk, evOrder, floorAdded, evCites>> /\ floorAdded \in Seq(EvEvents)
  BY DEF PackContext, Stage, EvInv, EvidenceSound, EvidenceOnce
<1> DEFINE items == Known(evOrder)
           budget == evAsk.config.budget
           header == evAsk.config.header
           r == PackToBudget(items, EvCost, budget, header)
<1>2. evPacked' = r
  BY DEF PackContext
<1>3. budget \in Nat /\ header \in Nat
  BY <1>1 DEF EvAsks, EvConfig
<1>4. EvCost \in [EvEvents -> Nat]
  BY EvidenceConstants
<1>5. items \in Seq(EvEvents) /\ IsInjective(items)
  BY <1>1, KnownKeeps
<1> HIDE DEF items, budget, header
<1>6. PICK m \in 0..Len(items) :
         r = SubSeq(items, 1, m) /\ (m # 0 => header + Used(SubSeq(items, 1, m), EvCost, 0)[m] <= budget)
  BY <1>3, <1>4, <1>5, PackKeeps, ZenonT(60)
<1> HIDE DEF r
<1>7. /\ r \in Seq(EvEvents) /\ Len(r) = m /\ m \in Nat /\ Len(items) \in Nat /\ m <= Len(items)
      /\ \A i \in 1..m : r[i] = items[i]
  BY <1>5, <1>6
<1>8. DOMAIN r = 1..m /\ DOMAIN items = 1..Len(items)
  BY <1>5, <1>7
<1>9. IsInjective(r)
  <2>1. \A i \in 1..m : i \in DOMAIN items
    BY <1>7, <1>8
  <2> QED BY <1>5, <1>7, <1>8, <2>1 DEF IsInjective
<1>10. ToSet(r) \subseteq EvEvents
  <2>1. \A i \in 1..m : r[i] \in EvEvents
    BY <1>7, <1>8
  <2> QED BY <1>8, <2>1 DEF ToSet
<1>11. IsPrefix(r, items)
  <2>1. SubSeq(r, 1, m) = r
    BY <1>7
  <2> QED BY <1>6, <1>7, <2>1 DEF IsPrefix
<1>12. r # << >> => header + LinesCost(r) <= budget
  <2>1. r # << >> => m # 0
    BY <1>7
  <2>2. LinesCost(r) = Used(r, EvCost, 0)[Len(r)]
    BY DEF LinesCost, Used
  <2> QED BY <1>6, <1>7, <2>1, <2>2
<1>13. EvidenceOnce'
  BY <1>1, <1>2, <1>9, <1>10 DEF EvidenceOnce, EvStages
<1>14. FloorReached' /\ CitesWhatWasRead'
  BY <1>1 DEF FloorReached, CitesWhatWasRead
<1>15. PackedPrefix'
  <2>1. IsPrefix(evPacked', Known(evOrder'))
    BY <1>1, <1>2, <1>11 DEF items
  <2>2. evPacked' # << >> => evAsk'.config.header + LinesCost(evPacked') <= evAsk'.config.budget
    BY <1>1, <1>2, <1>12 DEF header, budget
  <2> QED BY <2>1, <2>2 DEF PackedPrefix
<1> QED BY <1>1, <1>2, <1>7, <1>13, <1>14, <1>15 DEF EvInv, EvidenceSound

LEMMA AnswerSteps == EvInv /\ EvAnswer => EvInv'
<1> SUFFICES ASSUME EvInv, EvAnswer PROVE EvInv'
  OBVIOUS
<1>1. /\ evStage = "packed" /\ evStage' = "answered" /\ UNCHANGED <<evAsk, evOrder, floorAdded, evPacked>>
      /\ evOrder \in Seq(EvIds) /\ floorAdded \in Seq(EvEvents) /\ evPacked \in Seq(EvEvents)
      /\ IsInjective(evOrder) /\ IsInjective(evPacked) /\ ToSet(evPacked) \subseteq EvEvents
  BY DEF EvAnswer, Stage, EvInv, EvidenceSound, EvidenceOnce
<1>2. PICK cited \in {{}, ToSet(FirstOf(evPacked, 1))}, usable \in BOOLEAN :
         evCites' = IF usable /\ cited = {}
                    THEN ToSet(IF evPacked # << >> THEN evPacked ELSE evOrder) ELSE cited
  BY DEF EvAnswer
<1>3. ToSet(FirstOf(evPacked, 1)) \subseteq ToSet(evPacked)
  <2> DEFINE q == FirstOf(evPacked, 1)
             p == evPacked
  <2>1. q \in Seq(EvEvents) /\ Len(q) <= Len(p) /\ \A i \in 1..Len(q) : q[i] = p[i]
    BY <1>1, FirstOfKeeps
  <2>2. DOMAIN p = 1..Len(p) /\ Len(p) \in Nat
    BY <1>1
  <2> HIDE DEF q, p
  <2>3. DOMAIN q = 1..Len(q) /\ Len(q) \in Nat
    BY <2>1
  <2>4. \A i \in DOMAIN q : i \in DOMAIN p /\ q[i] = p[i]
    BY <2>1, <2>2, <2>3
  <2>5. ToSet(q) \subseteq ToSet(p)
    BY <2>4 DEF ToSet
  <2> QED BY <2>5 DEF q, p
<1>4. evPacked # << >> => evCites' \subseteq ToSet(evPacked)
  BY <1>2, <1>3
<1>5. EvidenceOnce' /\ FloorReached' /\ CitesWhatWasRead'
  BY <1>1, <1>4 DEF EvidenceOnce, FloorReached, CitesWhatWasRead, EvStages
<1>6. PackedPrefix'
  <2>1. PackedPrefix
    BY DEF EvInv, EvidenceSound
  <2> QED BY <1>1, <2>1 DEF PackedPrefix
<1> QED BY <1>1, <1>5, <1>6 DEF EvInv, EvidenceSound

\* Every stage before packing is a step of the order that leaves the rest alone.
LEMMA StageSteps ==
  ASSUME EvInv, EvNext
  PROVE  OrderStep /\ EvInv'
<1>1. CASE BaseOrder
  <2>1. OrderStep
    BY <1>1, BaseSteps
  <2>2. evStage = "asked" /\ evStage' = "base" /\ UNCHANGED <<evAsk, floorAdded, evPacked>>
    BY <1>1 DEF BaseOrder, Stage
  <2> QED BY <2>1, <2>2, EarlyKeeps DEF EvInv, EvStages
<1>2. CASE RagFloor
  <2>1. OrderStep
    BY <1>2, RagSteps
  <2>2. evStage = "base" /\ evStage' = "rag" /\ UNCHANGED <<evAsk, floorAdded, evPacked>>
    BY <1>2 DEF RagFloor, Stage
  <2> QED BY <2>1, <2>2, EarlyKeeps DEF EvInv, EvStages
<1>3. CASE EmbedFloor
  <2>1. /\ OrderStep /\ floorAdded' \in Seq(EvEvents)
        /\ Len(evOrder') >= evAsk.config.floorK \/ EvEvents \subseteq ToSet(evOrder')
    BY <1>3, FloorSteps
  <2>2. evStage = "rag" /\ evStage' = "floor" /\ UNCHANGED <<evAsk, evPacked>>
    BY <1>3 DEF EmbedFloor, Stage
  <2> QED BY <2>1, <2>2, EarlyKeeps DEF EvStages
<1>4. CASE EmbedUnion
  <2>1. OrderStep
    BY <1>4, UnionSteps
  <2>2. evStage = "floor" /\ evStage' = "union" /\ UNCHANGED <<evAsk, floorAdded, evPacked>>
    BY <1>4 DEF EmbedUnion, Stage
  <2> QED BY <2>1, <2>2, EarlyKeeps DEF EvInv, EvStages
<1>5. CASE ShardExpand
  <2>1. OrderStep
    BY <1>5, ShardSteps
  <2>2. evStage = "union" /\ evStage' = "expand" /\ UNCHANGED <<evAsk, floorAdded, evPacked>>
    BY <1>5 DEF ShardExpand, Stage
  <2> QED BY <2>1, <2>2, EarlyKeeps DEF EvInv, EvStages
<1>6. CASE LexicalBridge
  <2>1. OrderStep
    BY <1>6, LexicalSteps
  <2>2. evStage = "expand" /\ evStage' = "lexical" /\ UNCHANGED <<evAsk, floorAdded, evPacked>>
    BY <1>6 DEF LexicalBridge, Stage
  <2> QED BY <2>1, <2>2, EarlyKeeps DEF EvInv, EvStages
<1>7. CASE EntityBridge
  <2>1. OrderStep
    BY <1>7, EntitySteps
  <2>2. evStage = "lexical" /\ evStage' = "entity" /\ UNCHANGED <<evAsk, floorAdded, evPacked>>
    BY <1>7 DEF EntityBridge, Stage
  <2> QED BY <2>1, <2>2, EarlyKeeps DEF EvInv, EvStages
<1>8. CASE PackContext
  <2>1. evOrder' = evOrder
    BY <1>8 DEF PackContext
  <2> QED BY <1>8, <2>1, NothingNew, PackSteps
<1>9. CASE EvAnswer
  <2>1. evOrder' = evOrder
    BY <1>9 DEF EvAnswer
  <2> QED BY <1>9, <2>1, NothingNew, AnswerSteps
<1> QED BY <1>1, <1>2, <1>3, <1>4, <1>5, <1>6, <1>7, <1>8, <1>9 DEF EvNext

LEMMA EvKeeps == EvInv /\ [EvNext]_evidenceVars => EvInv'
<1>1. ASSUME EvInv, UNCHANGED evidenceVars PROVE EvInv'
  BY <1>1 DEF evidenceVars, EvInv, EvidenceSound, EvidenceOnce, FloorReached, PackedPrefix, CitesWhatWasRead
<1> QED BY <1>1, StageSteps

LEMMA EvStarts == EvInit \/ EvIdle => EvInv
<1>1. ASSUME EvInit \/ EvIdle
      PROVE  /\ evOrder = << >> /\ floorAdded = << >> /\ evPacked = << >> /\ evStage \in {"asked", "answered"}
             /\ evStage = "answered" \/ evAsk \in EvAsks
  <2>1. CASE EvIdle
    BY <2>1 DEF EvIdle
  <2>2. CASE EvInit
    <3>1. PICK packet \in EvPackets, recalls \in EvRecalls, timeline \in EvTimelines,
               cands \in EvCandidates, sim \in EvSims, words \in EvTerms, config \in EvConfigs :
            evAsk = [packet |-> packet, recalls |-> recalls, timeline |-> timeline,
                     candidates |-> cands.shards, confident |-> cands.confident,
                     sim |-> sim, terms |-> words, config |-> config]
      BY <2>2 DEF EvInit
    <3>2. /\ packet \in Seq(EvIds) /\ recalls \in Seq(EvRecall) /\ timeline \in Seq(EvIds)
          /\ cands \in [shards : Seq(EvShards), confident : BOOLEAN] /\ sim \in [EvEvents -> Int]
          /\ config \in EvConfig
      BY EvidenceInputs
    <3>3. evAsk \in EvAsks
      BY <3>1, <3>2 DEF EvAsks
    <3> QED BY <2>2, <3>3 DEF EvInit
  <2> QED BY <1>1, <2>1, <2>2
<1>2. /\ << >> \in Seq(EvIds) /\ << >> \in Seq(EvEvents) /\ IsInjective(<< >>)
      /\ ToSet(<< >>) = {}
  BY DEF IsInjective, ToSet
<1>3. IsPrefix(<< >>, Known(<< >>))
  <2> DEFINE o == << >>
             r == Known(o)
  <2>1. o \in Seq(EvIds)
    OBVIOUS
  <2>2. r \in Seq(EvEvents)
    <3> HIDE DEF o
    <3> QED BY <2>1, KnownKeeps
  <2> HIDE DEF r
  <2>3. Len(<< >>) <= Len(r) /\ SubSeq(<< >>, 1, 0) = << >> /\ SubSeq(r, 1, 0) = << >>
    BY <2>2
  <2> QED BY <2>3 DEF IsPrefix, r
<1> SUFFICES ASSUME EvInit \/ EvIdle PROVE EvInv
  OBVIOUS
<1>4. EvidenceOnce
  BY <1>1, <1>2 DEF EvidenceOnce, EvStages
<1>5. FloorReached /\ CitesWhatWasRead
  BY <1>1 DEF FloorReached, CitesWhatWasRead
<1>6. PackedPrefix
  BY <1>1, <1>3 DEF PackedPrefix
<1> QED BY <1>1, <1>2, <1>4, <1>5, <1>6 DEF EvInv, EvidenceSound

\* What a stage may do to the order.
LEMMA OrderDisciplined ==
  ASSUME EvInv, [EvNext]_evidenceVars
  PROVE  /\ [evStage # "asked" =>
              ItemsAt(evOrder', {i \in DOMAIN evOrder' : Contains(evOrder, evOrder'[i])}) = evOrder]_evidenceVars
         /\ [Expands => BehindItsFoothold]_evidenceVars
         /\ [Expands /\ evOrder' # evOrder => Len(evOrder') <= CapOf(evStage)]_evidenceVars
         /\ [evStage = "floor" /\ evAsk.config.beatsBest =>
              \A e \in ToSet(evOrder') \ ToSet(evOrder), d \in ToSet(Known(evOrder)) :
                 evAsk.sim[e] >= evAsk.sim[d]]_evidenceVars
<1> SUFFICES ASSUME EvNext
             PROVE  /\ evStage # "asked" =>
                         ItemsAt(evOrder', {i \in DOMAIN evOrder' : Contains(evOrder, evOrder'[i])}) = evOrder
                    /\ Expands => BehindItsFoothold
                    /\ Expands /\ evOrder' # evOrder => Len(evOrder') <= CapOf(evStage)
                    /\ evStage = "floor" /\ evAsk.config.beatsBest =>
                         \A e \in ToSet(evOrder') \ ToSet(evOrder), d \in ToSet(Known(evOrder)) :
                            evAsk.sim[e] >= evAsk.sim[d]
  OBVIOUS
<1>1. OrderStep
  BY StageSteps
<1> DEFINE old == evOrder
           new == evOrder'
<1>2. old \in Seq(EvIds) /\ new \in Seq(EvIds) /\ IsInjective(new)
  BY <1>1 DEF EvInv, OrderStep
<1>3. evStage # "asked" => \E f : Holds(old, new, f)
  BY <1>1 DEF OrderStep
<1>4. Expands => \E f : Near(old, new, f)
  BY <1>1 DEF OrderStep
<1>5. evStage # "asked" => ItemsAt(new, {i \in DOMAIN new : Contains(old, new[i])}) = old
  <2> HIDE DEF old, new
  <2> QED BY <1>2, <1>3, HeldInOrder
<1>6. ASSUME Expands PROVE BehindItsFoothold
  <2>1. PICK f : Near(old, new, f)
    BY <1>4, <1>6
  <2>2. ASSUME NEW i \in DOMAIN new, ~Contains(old, new[i])
        PROVE  /\ Foothold(old, new, i) > 0 /\ new[Foothold(old, new, i)] \in EvEvents
               /\ EvShardOf[new[Foothold(old, new, i)]] = EvShardOf[new[i]]
    <3> HIDE DEF old, new
    <3> QED BY <1>2, <2>1, <2>2, NearIsLocal
  <2> QED BY <2>2 DEF BehindItsFoothold, Foothold
<1> QED BY <1>1, <1>5, <1>6 DEF OrderStep

-----------------------------------------------------------------------------
(* The composition.  A behaviour of the kernels is a behaviour of one of   *)
(* them in which the others stay where they start, so what each of them    *)
(* preserves is preserved by every step.                                   *)

CallsInv == EmbInv /\ PoolInv /\ ChatInv /\ SettingsInv

LEMMA CallsStart == KernelInit => CallsInv
<1> SUFFICES ASSUME KernelInit PROVE CallsInv
  OBVIOUS
<1>1. EmbInit /\ ChatInit /\ PoolInit /\ (SettingsIdle \/ SettingsInit)
  BY DEF KernelInit, CallsIdle
<1> QED BY <1>1, EmbStarts, ChatStarts, PoolStarts, SettingsStarts DEF CallsInv

LEMMA KernelParts ==
  ASSUME [KernelNext]_kernelVars
  PROVE  /\ [EmbNext]_embVars
         /\ [PoolNext]_poolVars
         /\ [ChatNext]_chatVars
         /\ [SettingsNext]_settingVars
         /\ [EvNext]_evidenceVars
         /\ [CtNext]_citationVars
         /\ [RxNext]_routerVars
<1>1. CASE UNCHANGED kernelVars
  BY <1>1 DEF kernelVars, callVars
<1>2. CASE KernelNext
  BY <1>2 DEF KernelNext, callVars
<1> QED BY <1>1, <1>2

LEMMA CallsStep == CallsInv /\ [KernelNext]_kernelVars => CallsInv'
<1> SUFFICES ASSUME CallsInv, [KernelNext]_kernelVars PROVE CallsInv'
  OBVIOUS
<1>1. [EmbNext]_embVars /\ [PoolNext]_poolVars /\ [ChatNext]_chatVars /\ [SettingsNext]_settingVars
  BY KernelParts
<1> QED BY <1>1, EmbSteps, PoolSteps, ChatStepsKeep, SettingsSteps DEF CallsInv

\* However many callers embed, pass or are killed, in whatever order: a call that
\* returns gives every text its whole vector, but for texts that two calls had in
\* hand or whose file a kill cut; a text is computed once and once more per kill; a
\* pass that is done has merged every event once and in order, out of chunks within
\* the budget, with one call per chunk; and after a failure no call is begun.
THEOREM SharedWorkIsSound == KernelSpec => []SharedWorkSound
<1>1. CallsInv => SharedWorkSound
  BY EmbIsSound, PoolIsSound DEF CallsInv, SharedWorkSound
<1> QED BY <1>1, CallsStart, CallsStep, PTL DEF KernelSpec

\* A chat stays within its retries, and the reads its stream is cut into do not show
\* in its text, however long the stream; an arm runs with what its environment says,
\* differs from another only by a lever, and is stopped by a text that is not allowed
\* and by nothing else, whatever the variables may hold.
THEOREM CallsAreSound == KernelSpec => []CallsSound
<1>1. CallsInv => CallsSound
  BY ChatIsSound, SettingsIsSound DEF CallsInv, CallsSound
<1> QED BY <1>1, CallsStart, CallsStep, PTL DEF KernelSpec

LEMMA EvidenceStart == KernelInit => EvInv
<1> SUFFICES ASSUME KernelInit PROVE EvInv
  OBVIOUS
<1>1. EvInit \/ EvIdle
  BY DEF KernelInit
<1> QED BY <1>1, EvStarts

LEMMA EvidenceStep == EvInv /\ [KernelNext]_kernelVars => EvInv'
<1> SUFFICES ASSUME EvInv, [KernelNext]_kernelVars PROVE EvInv'
  OBVIOUS
<1>1. [EvNext]_evidenceVars
  BY KernelParts
<1> QED BY <1>1, EvKeeps

\* Whatever a packet, the recalls and the chronicle name, and whatever the router and the
\* cosines say of it: no event is retrieved twice, the floor leaves no short order that
\* the corpus could have filled, what is packed is a prefix of what was retrieved whose
\* lines fit the budget, and what the row cites in the model's place was read.
THEOREM EvidenceIsSound == KernelSpec => []EvidenceSound
<1>1. EvInv => EvidenceSound
  BY DEF EvInv
<1> QED BY <1>1, EvidenceStart, EvidenceStep, PTL DEF KernelSpec

\* For every corpus and setting, each stage only inserts; an expansion stands behind a
\* foothold of its own shard and stops at its total; and with the gate on, the net puts
\* nothing before an event that is nearer to the query.
THEOREM StagesAreDisciplined == KernelSpec => StagesDisciplined
<1>1. ASSUME EvInv, [KernelNext]_kernelVars
      PROVE  /\ [evStage # "asked" =>
                  ItemsAt(evOrder', {i \in DOMAIN evOrder' : Contains(evOrder, evOrder'[i])}) = evOrder]_evidenceVars
             /\ [Expands => BehindItsFoothold]_evidenceVars
             /\ [Expands /\ evOrder' # evOrder => Len(evOrder') <= CapOf(evStage)]_evidenceVars
             /\ [evStage = "floor" /\ evAsk.config.beatsBest =>
                  \A e \in ToSet(evOrder') \ ToSet(evOrder), d \in ToSet(Known(evOrder)) :
                     evAsk.sim[e] >= evAsk.sim[d]]_evidenceVars
  <2>1. [EvNext]_evidenceVars
    BY <1>1, KernelParts
  <2> QED BY <1>1, <2>1, OrderDisciplined
<1>2. KernelSpec => StagesOnlyInsert
  BY <1>1, EvidenceStart, EvidenceStep, PTL DEF KernelSpec, StagesOnlyInsert
<1>3. KernelSpec => ExpansionLocal
  BY <1>1, EvidenceStart, EvidenceStep, PTL DEF KernelSpec, ExpansionLocal
<1>4. KernelSpec => ExpansionCapped
  BY <1>1, EvidenceStart, EvidenceStep, PTL DEF KernelSpec, ExpansionCapped
<1>5. KernelSpec => NetOnConfidence
  BY <1>1, EvidenceStart, EvidenceStep, PTL DEF KernelSpec, NetOnConfidence
<1> QED BY <1>2, <1>3, <1>4, <1>5 DEF StagesDisciplined

LEMMA CitationsStart == KernelInit => CtInv
<1> SUFFICES ASSUME KernelInit PROVE CtInv
  OBVIOUS
<1>1. CtInit \/ CtIdle
  BY DEF KernelInit
<1> QED BY <1>1, CtStarts

LEMMA CitationsStep == CtInv /\ [KernelNext]_kernelVars => CtInv'
<1> SUFFICES ASSUME CtInv, [KernelNext]_kernelVars PROVE CtInv'
  OBVIOUS
<1>1. [CtNext]_citationVars
  BY KernelParts
<1> QED BY <1>1, CtKeeps

\* Whatever the worlds, the budgets and the replies: a probe is shown the most relevant
\* events of its shard, and yields one verdict per shard, what was said first of it; a
\* recall is shown what its probe pointed at before anything else, in excerpts that fit
\* and leave out nothing that would still fit; it cites only events of its own shard and
\* records what it dropped; a malformed claim costs only itself; and the packet of one
\* recall cites events that exist.
THEOREM CitationsAreSound == KernelSpec => []CitationsSound
<1>1. CtInv => CitationsSound
  BY DEF CtInv
<1> QED BY <1>1, CitationsStart, CitationsStep, PTL DEF KernelSpec

LEMMA RouterStart == KernelInit => RxInv
<1> SUFFICES ASSUME KernelInit PROVE RxInv
  OBVIOUS
<1>1. RxInit \/ RxIdle
  BY DEF KernelInit
<1> QED BY <1>1, RxStarts

LEMMA RouterStep == RxInv /\ [KernelNext]_kernelVars => RxInv'
<1> SUFFICES ASSUME RxInv, [KernelNext]_kernelVars PROVE RxInv'
  OBVIOUS
<1>1. [RxNext]_routerVars
  BY KernelParts
<1> QED BY <1>1, RxKeeps

\* Whatever the corpora, the switches and the questions: warm-up and queries start one
\* build together; units tile the events of a shard, none above the size and none across
\* a topic; a score above 4 clears the converted threshold, and without likeness only
\* such a score does; and a question made of one term that only one shard has, and that
\* the descriptors have room for, is routed to that shard.
THEOREM RouterIsSound == KernelSpec => []RouterSound
<1>1. RxInv => RouterSound
  BY RxPromises
<1> QED BY <1>1, RouterStart, RouterStep, PTL DEF KernelSpec
=============================================================================
