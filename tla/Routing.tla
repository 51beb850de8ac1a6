------------------------------ MODULE Routing ------------------------------
(***************************************************************************)
(* The router's cut and the probe-shrink gate of ask()                     *)
(* (src/src/core/router.ts, routerEmbed.ts, ask.ts:154-225), for several   *)
(* queries in one process with CSM_PROBE_SHRINK on.  A query with a router *)
(* index awaits the embedding of its text; the report of the last hybrid   *)
(* cut is one variable of the module, shared by all queries.               *)
(*                                                                         *)
(* Directory entries are numbered in the order of their ids.  Scores are   *)
(* small integers instead of the weighted sums of the code, and keepWithin *)
(* is measured in the same unit.                                           *)
(***************************************************************************)
EXTENDS Selection

CONSTANTS Asks,
          Entries,      \* the directory: 1..n
          Score,        \* the scores an entry can get
          Actives,      \* bound: the sets of entries explored as "active"
          MaxProbe,     \* maxProbeShards
          MaxCand,      \* max(maxProbeShards, budget.maxCandidateShards)
          MinProbes,    \* routeConfidence: minProbes
          KeepWithin    \* routeConfidence: keepWithin

ASSUME RoutingBounds == /\ IsFiniteSet(Entries) /\ Entries \subseteq Nat
                        /\ Score \subseteq Int /\ Score # {}
                        /\ Actives \subseteq SUBSET Entries
                        /\ {MaxProbe, MaxCand, MinProbes} \subseteq Nat \ {0}
                        /\ MaxProbe <= MaxCand /\ KeepWithin \in Nat

VARIABLES active,   \* the entries with status "active"
          asked,    \* the queries
          last,     \* lastHybridSelection: discriminated, or none yet
          stats     \* hybridStats
vars == <<active, asked, last, stats>>

Paths == {"none", "lexical", "hybrid", "hybrid-fallback-embed-failed"}
Asked == [pc : {"idle", "embed", "ranked", "probing"}, path : Paths,
          score : [Entries -> Score \cup {0}], cand : Seq(Entries),
          discriminated : BOOLEAN, probes : 0..MaxProbe]

Init == /\ active \in Actives
        /\ asked = [a \in Asks |-> [pc |-> "idle", path |-> "none",
                                    score |-> [e \in Entries |-> 0], cand |-> <<>>,
                                    discriminated |-> FALSE, probes |-> 0]]
        /\ last = {}
        /\ stats = [hybrid |-> 0, fallbackEmbedFailed |-> 0]

-----------------------------------------------------------------------------
\* Active entries pass whatever their score: a query is never left with nothing.
Eligible(sc) == {e \in Entries : sc[e] > 0 \/ e \in active}

\* The query's record after its cut by the scores sc with tie-break key.
Routed(q, path, sc, key) ==
  [q EXCEPT !.path = path, !.score = sc,
            !.cand = Selected(Eligible(sc), sc, key, MaxCand),
            !.discriminated = Discriminated(Eligible(sc), sc, key, MaxCand)]

ById == [e \in Entries |-> e]

\* Ties of a hybrid cut go by lexical score and then by id: any order can arise.
TieOrders == {k \in [Entries -> Entries] : \A d, e \in Entries : k[d] = k[e] => d = e}

AtMost(n, max) == IF n > max THEN max ELSE n

\* Slip: the budget is taken for the number of probes.
RouteLexically_Unsliced(a) ==
  /\ asked[a].pc = "idle"
  /\ \E sc \in [Entries -> Score] :
       LET q == Routed(asked[a], "lexical", sc, ById)
       IN asked' = [asked EXCEPT ![a] = [q EXCEPT !.pc = "probing", !.probes = MaxProbe]]
  /\ UNCHANGED <<active, last, stats>>

\* A query without a router index: the lexical cut, and no gate.
RouteLexically(a) ==
  /\ asked[a].pc = "idle"
  /\ \E sc \in [Entries -> Score] :
       LET q == Routed(asked[a], "lexical", sc, ById)
       IN asked' = [asked EXCEPT ![a] = [q EXCEPT !.pc = "probing",
                                                  !.probes = AtMost(Len(q.cand), MaxProbe)]]
  /\ UNCHANGED <<active, last, stats>>

\* A query with an index awaits its embedding.
EmbedQuery(a) == /\ asked[a].pc = "idle"
                 /\ asked' = [asked EXCEPT ![a].pc = "embed"]
                 /\ UNCHANGED <<active, last, stats>>

\* The embedding is there: the hybrid cut, and its report left for the gate.
EmbedReturns(a) ==
  /\ asked[a].pc = "embed"
  /\ \E sc \in [Entries -> Score], key \in TieOrders :
       LET q == Routed(asked[a], "hybrid", sc, key)
       IN /\ asked' = [asked EXCEPT ![a] = [q EXCEPT !.pc = "ranked"]]
          /\ last' = {q.discriminated}
  /\ stats' = [stats EXCEPT !.hybrid = @ + 1]
  /\ UNCHANGED active

\* The embedding failed: the lexical cut.  The report is not touched.
EmbedFails(a) ==
  /\ asked[a].pc = "embed"
  /\ \E sc \in [Entries -> Score] :
       asked' = [asked EXCEPT ![a] =
                   [Routed(asked[a], "hybrid-fallback-embed-failed", sc, ById) EXCEPT !.pc = "ranked"]]
  /\ stats' = [stats EXCEPT !.fallbackEmbedFailed = @ + 1]
  /\ UNCHANGED <<active, last>>

\* routeConfidence: the candidates close to the first, but not too few.
Close(q) == {i \in DOMAIN q.cand : q.score[q.cand[1]] - q.score[q.cand[i]] <= KeepWithin}

\* Slip: no floor under a confident route.
Recommended_NoFloor(q) == Cardinality(Close(q))

Recommended(q) == LET floor == AtMost(MinProbes, Len(q.cand))
                  IN IF Cardinality(Close(q)) > floor THEN Cardinality(Close(q)) ELSE floor

\* The gate, when ask() runs again: it reads the report that is there now.
ShrinkGate(a) ==
  LET q == asked[a]
      budget == IF last = {TRUE} THEN AtMost(Recommended(q), MaxProbe) ELSE MaxProbe
  IN /\ q.pc = "ranked"
     /\ asked' = [asked EXCEPT ![a] = [q EXCEPT !.pc = "probing",
                                                !.probes = AtMost(Len(q.cand), budget)]]
     /\ UNCHANGED <<active, last, stats>>

Rest == (\A a \in Asks : asked[a].pc = "probing") /\ UNCHANGED vars

Next == \/ \E a \in Asks : \/ RouteLexically(a) \/ EmbedQuery(a) \/ EmbedReturns(a)
                           \/ EmbedFails(a) \/ ShrinkGate(a)
        \/ Rest

Spec == Init /\ [][Next]_vars

-----------------------------------------------------------------------------
TypeOK == /\ active \in Actives
          /\ asked \in [Asks -> Asked]
          /\ \A a \in Asks : asked[a].probes <= Len(asked[a].cand)
          /\ last \in {{}, {TRUE}, {FALSE}}
          /\ stats \in [hybrid : Nat, fallbackEmbedFailed : Nat]

CutMade(q) == q.pc \in {"ranked", "probing"}
Chosen(q) == {q.cand[i] : i \in DOMAIN q.cand}

\* The scores alone decide which entries are candidates: any other tie-break
\* would have chosen the same.
Forced(q) == /\ Chosen(q) # {}
             /\ \E e \in Eligible(q.score) : q.score[e] > 0
             /\ \A c \in Chosen(q), e \in Eligible(q.score) \ Chosen(q) : q.score[c] > q.score[e]

\* The report a run record carries is true of its own cut: "discriminated"
\* exactly when the scores, and not the tie-break, made the choice
\* (selection.ts:67-72, 78-89).
ReportHonest == \A a \in Asks : CutMade(asked[a]) => (asked[a].discriminated <=> Forced(asked[a]))

\* Shrinking is careful: what is not probed is either beyond maxProbeShards or
\* ranked below minProbes others and further than keepWithin from the first
\* (routerEmbed.ts:465-491), whatever report the gate has read.
KeepersProbed ==
  \A a \in Asks : asked[a].pc = "probing" =>
    \A i \in DOMAIN asked[a].cand :
      \/ i <= asked[a].probes
      \/ i > MaxProbe
      \/ i > MinProbes /\ asked[a].score[asked[a].cand[1]] - asked[a].score[asked[a].cand[i]] > KeepWithin

\* Fewer probes than the budget are only made on a hybrid ranking that
\* discriminated (ask.ts:206-211).
ShrinkJustified ==
  \A a \in Asks :
    (asked[a].pc = "probing" /\ asked[a].probes < AtMost(Len(asked[a].cand), MaxProbe))
      => asked[a].path = "hybrid" /\ Forced(asked[a])
=============================================================================
