----------------------------- MODULE AskProofs -----------------------------
(***************************************************************************)
(* What a run of ask() costs, wastes and leaves behind, and that its       *)
(* schedule is invisible to the caller, for every number of candidates,    *)
(* recall slots and retries.                                               *)
(*                                                                         *)
(* AskInv is inductive.  Its parts say where the calls of a run can be at  *)
(* each point: which probes are asked, that nothing is asked any more once *)
(* the cut is made, which recalls exist, how many of them are speculative, *)
(* and what has been accounted for so far.                                 *)
(***************************************************************************)
EXTENDS AskPipeline, SelectionProofs

Made(k) == ~IsIn(k, "idle")
ProbeSet == {ProbeOf(c) : c \in Cand} \cup {Batch}
Recalls(S) == {RecallOf(c) : c \in S}
\* The call that brings candidate c its verdict.
AskedBy(c) == IF Batched /\ c # Top THEN Batch ELSE ProbeOf(c)
Ended == {"finalize", "done"}

Typed == /\ TypeOK
         /\ \A k \in Call : /\ IsIn(k, "flying") => call[k].tries \in 0..1
                            /\ IsIn(k, "idle") => call[k] = Idle

\* Before the probes, and in a run without candidates, there is nothing.
Early == /\ pc \in {"route", "start"} \/ (pc \in Ended /\ at = 0)
            => /\ \A k \in Call : ~Made(k)
               /\ entries = {} /\ others = 0 /\ cost = 0
               /\ verdict = [c \in Cand |-> NoVerdict]
         /\ pc = "route" => probed = {} /\ snaps = {}
         /\ pc \in {"route", "start", "probe"} => at = 0
         /\ pc \in {"recall", "discard", "synth"} => at # 0
         /\ at = 0 => targets = <<>>

\* Only the launched probes exist; once the cut is made all of them have answered.
ProbesKnown == /\ \A k \in ProbeSet \ ProbeCalls : ~Made(k)
               /\ at # 0 => \A k \in ProbeCalls : IsIn(k, "ok")
               /\ \A c \in Heard(verdict) : IsIn(AskedBy(c), "ok")

\* A recall is a job's or an eager handler's; the top candidate's is never wasted.
RecallsKnown ==
  /\ \A c \in Cand : Made(RecallOf(c)) => c \in Target \/ (c \in entries /\ c \in Heard(verdict))
  /\ entries # {} => MaxRecall > 0
  /\ \A c \in entries : c = Top \/ mode.eager
  /\ at # 0 => Abstract!LegalRecall(verdict, targets)

\* The recalls made on speculation that no job took over, the top one's apart.
Guessed == {c \in Cand \ ({Top} \cup Target) : Made(RecallOf(c))}
Slots == /\ Cardinality(Guessed) <= others
         /\ others = 0 \/ others < MaxRecall

\* What the run has stopped waiting for stays as it is.
Steady ==
  /\ pc \in {"discard", "synth"} \cup Ended => \A c \in Target : IsIn(RecallOf(c), "ok")
  /\ pc \in {"synth"} \cup Ended => \A c \in Cand : ~IsIn(RecallOf(c), "flying")
  /\ pc \notin {"synth", "failed"} \cup Ended => ~Made(Synth)
  /\ pc \in Ended => ~IsIn(Synth, "flying")
  /\ pc = "synth" => Len(targets) > 1

\* What has been accounted for so far.
Accounted == /\ pc = "probe" => cost = Billed({Batch})
             /\ pc = "recall" => cost = Billed(ProbeSet)
             /\ pc = "discard" => cost = Billed(ProbeSet \cup Recalls(Target))
             /\ pc = "synth" => cost = Billed(ProbeSet \cup Recalls(Cand))
             /\ pc \in Ended => cost = Billed(Call)

AskInv == Typed /\ Early /\ ProbesKnown /\ RecallsKnown /\ Slots /\ Steady /\ Accounted

-----------------------------------------------------------------------------
(* Calls and what they cost.                                               *)

LEMMA CallShape ==
  /\ \A c \in Cand : /\ ProbeOf(c) \in Call /\ RecallOf(c) \in Call /\ ProbeOf(c) \in ProbeSet
                     /\ ProbeOf(c) # Batch /\ ProbeOf(c) # Synth
                     /\ RecallOf(c) # Batch /\ RecallOf(c) # Synth
  /\ \A c, d \in Cand : /\ ProbeOf(c) # RecallOf(d)
                        /\ ProbeOf(c) = ProbeOf(d) => c = d
                        /\ RecallOf(c) = RecallOf(d) => c = d
  /\ Batch \in Call /\ Synth \in Call /\ Batch # Synth
  /\ Batch \in ProbeSet /\ Synth \notin ProbeSet /\ ProbeSet \subseteq Call
  /\ \A k \in Call : \/ k \in ProbeSet \/ k = Synth
                     \/ \E c \in Cand : k = RecallOf(c)
  /\ \A k \in ProbeSet : k = Batch \/ \E c \in Cand : k = ProbeOf(c)
  /\ Call = (ProbeSet \cup Recalls(Cand)) \cup {Synth}
BY DEF Call, ProbeOf, RecallOf, Batch, Synth, ProbeSet, Recalls

LEMMA CandFinite == IsFiniteSet(Cand) /\ Top \in Cand /\ Cand \subseteq Nat
<1>1. MaxProbe \in Nat /\ 1 <= MaxProbe
  BY AskBounds
<1>2. IsFiniteSet(1..MaxProbe)
  BY <1>1, FS_Interval
<1> QED BY <1>1, <1>2 DEF Cand, Top

LEMMA PairFinite == \A x, y : IsFiniteSet({x, y})
<1> SUFFICES ASSUME NEW x, NEW y PROVE IsFiniteSet({x, y})
  OBVIOUS
<1>1. IsFiniteSet({x} \cup {y})
  BY FS_Singleton, FS_AddElement
<1>2. {x} \cup {y} = {x, y}
  OBVIOUS
<1> QED BY <1>1, <1>2

LEMMA CallFinite == IsFiniteSet(Call)
<1>1. IsFiniteSet({"probe", "recall"})
  BY PairFinite
<1>2. IsFiniteSet({"probe", "recall"} \X Cand)
  BY <1>1, CandFinite, FS_Product
<1>3. IsFiniteSet({Batch, Synth})
  BY PairFinite
<1> QED BY <1>2, <1>3, FS_Union DEF Call

LEMMA BilledNat == \A K \in SUBSET Call : Billed(K) \in Nat
<1> SUFFICES ASSUME NEW K \in SUBSET Call PROVE Billed(K) \in Nat
  OBVIOUS
<1> DEFINE Ok == {k \in K : IsIn(k, "ok")}
<1>1. {k \in Ok : call[k].tries > 0} \in SUBSET Call /\ {k \in Ok : call[k].tries > 1} \in SUBSET Call
  OBVIOUS
<1> QED BY <1>1, CallFinite, FS_Subset, FS_CardinalityType DEF Billed, Attempts

\* Disjoint sets of calls cost what each costs.
LEMMA BilledAdds ==
  ASSUME NEW A \in SUBSET Call, NEW B \in SUBSET Call, A \cap B = {}
  PROVE  Billed(A \cup B) = Billed(A) + Billed(B)
<1> DEFINE Over(K, n) == {k \in {j \in K : IsIn(j, "ok")} : call[k].tries > n}
<1>1. ASSUME NEW n \in {0, 1}
      PROVE  /\ Cardinality(Over(A \cup B, n)) = Cardinality(Over(A, n)) + Cardinality(Over(B, n))
             /\ Cardinality(Over(A, n)) \in Nat /\ Cardinality(Over(B, n)) \in Nat
  <2>1. Over(A \cup B, n) = Over(A, n) \cup Over(B, n) /\ Over(A, n) \cap Over(B, n) = {}
    OBVIOUS
  <2>2. Over(A, n) \in SUBSET Call /\ Over(B, n) \in SUBSET Call
    OBVIOUS
  <2>3. IsFiniteSet(Over(A, n)) /\ IsFiniteSet(Over(B, n))
    BY <2>2, CallFinite, FS_Subset
  <2>4. Cardinality(Over(A, n)) \in Nat /\ Cardinality(Over(B, n)) \in Nat
    BY <2>3, FS_CardinalityType
  <2>5. Cardinality({}) = 0
    BY FS_EmptySet
  <2> HIDE DEF Over
  <2>6. Cardinality(Over(A, n) \cup Over(B, n))
          = Cardinality(Over(A, n)) + Cardinality(Over(B, n)) - Cardinality(Over(A, n) \cap Over(B, n))
    BY <2>3, FS_Union
  <2>7. Cardinality(Over(A, n) \cap Over(B, n)) = 0
    BY <2>1, <2>5
  <2>8. Cardinality(Over(A \cup B, n)) = Cardinality(Over(A, n) \cup Over(B, n))
    BY <2>1
  <2> QED BY <2>4, <2>6, <2>7, <2>8
<1>2. \A K \in {A, B, A \cup B} : Billed(K) = Cardinality(Over(K, 0)) + Cardinality(Over(K, 1))
  BY DEF Billed, Attempts
<1> HIDE DEF Over
<1> QED BY <1>1, <1>2

\* Calls of which none succeeded cost nothing.
LEMMA BilledNothing ==
  ASSUME NEW K, \A k \in K : ~IsIn(k, "ok")
  PROVE  Billed(K) = 0
<1>1. {k \in K : IsIn(k, "ok")} = {}
  OBVIOUS
<1>2. Cardinality({}) = 0
  BY FS_EmptySet
<1> QED BY <1>1, <1>2 DEF Billed, Attempts

\* A call that has succeeded after a step costs its attempts.
LEMMA BilledOne ==
  ASSUME NEW k, call'[k].st = "ok", call'[k].tries \in 0..2
  PROVE  (Billed({k}))' = call'[k].tries
<1>1. {j \in {k} : call'[j].st = "ok"} = {k}
  OBVIOUS
<1>2. Cardinality({k}) = 1 /\ Cardinality({}) = 0
  BY FS_EmptySet, FS_Singleton
<1>3. ASSUME NEW n \in Nat
      PROVE  Cardinality({j \in {k} : call'[j].tries > n}) = IF call'[k].tries > n THEN 1 ELSE 0
  <2>1. CASE call'[k].tries > n
    <3>1. {j \in {k} : call'[j].tries > n} = {k}
      BY <2>1
    <3> QED BY <2>1, <3>1, <1>2
  <2>2. CASE ~(call'[k].tries > n)
    <3>1. {j \in {k} : call'[j].tries > n} = {}
      BY <2>2
    <3> QED BY <2>2, <3>1, <1>2
  <2> QED BY <2>1, <2>2
<1>4. (Billed({k}))' = Cardinality({j \in {k} : call'[j].tries > 0}) + Cardinality({j \in {k} : call'[j].tries > 1})
  BY <1>1 DEF Billed, Attempts, IsIn
<1> QED BY <1>3, <1>4

\* Calls that did not change cost what they did.
LEMMA BilledSame ==
  ASSUME NEW K, \A k \in K : call'[k] = call[k] \/ (call[k].st # "ok" /\ call'[k].st # "ok")
  PROVE  (Billed(K))' = Billed(K)
<1>1. {k \in K : IsIn(k, "ok")}' = {k \in K : IsIn(k, "ok")}
  BY DEF IsIn
<1>2. \A n \in {0, 1} : {k \in {j \in K : IsIn(j, "ok")} : call[k].tries > n}'
                          = {k \in {j \in K : IsIn(j, "ok")} : call[k].tries > n}
  BY DEF IsIn
<1> QED BY <1>1, <1>2 DEF Billed, Attempts
-----------------------------------------------------------------------------
(* The recall cut.                                                         *)

LEMMA RangeSmall ==
  ASSUME NEW S, NEW s \in Seq(S)
  PROVE  IsFiniteSet(Range(s)) /\ Cardinality(Range(s)) <= Len(s) /\ Range(s) \subseteq S
<1>1. Len(s) \in Nat /\ DOMAIN s = 1..Len(s)
  OBVIOUS
<1>2. s \in [1..Len(s) -> Range(s)] /\ \A x \in Range(s) : \E i \in 1..Len(s) : s[i] = x
  BY <1>1 DEF Range
<1>3. s \in Surjection(1..Len(s), Range(s))
  BY <1>2 DEF Surjection
<1>4. IsFiniteSet(1..Len(s)) /\ Cardinality(1..Len(s)) = Len(s)
  BY <1>1, FS_Interval
<1>5. Range(s) \subseteq S
  BY <1>1 DEF Range
<1> QED BY <1>3, <1>4, <1>5, FS_Surjection

\* The first candidates that fit are no more than the room there is.
LEMMA FirstThatFit ==
  ASSUME NEW Q \in SUBSET Cand, NEW n \in Nat, NEW m \in Int
  PROVE  LET W == {c \in Q : n + Cardinality({d \in Q : d < c}) < m}
         IN IsFiniteSet(W) /\ Cardinality(W) \in Nat /\ (W = {} \/ n + Cardinality(W) <= m)
<1> DEFINE W == {c \in Q : n + Cardinality({d \in Q : d < c}) < m}
           sc == [c \in Q |-> 0]
           key == [c \in Q |-> c]
<1>1. IsFiniteSet(Q) /\ Q \subseteq Nat
  BY CandFinite, FS_Subset
<1>2. Comparable(Q, sc, key)
  BY <1>1 DEF Comparable
<1>3. \A c \in Q : Rank(Q, sc, key, c) = Cardinality({d \in Q : d < c})
  <2> SUFFICES ASSUME NEW c \in Q PROVE Ahead(Q, sc, key, c) = {d \in Q : d < c}
    BY DEF Rank
  <2> QED BY DEF Ahead, Before
<1> HIDE DEF sc, key
<1>4. IsFiniteSet(W) /\ Cardinality(W) \in Nat
  BY <1>1, FS_Subset, FS_CardinalityType
<1>5. ASSUME W # {} PROVE n + Cardinality(W) <= m
  <2> DEFINE limit == m - n
             cut == Cut(Q, limit)
             sel == Selected(Q, sc, key, limit)
  <2>1. \A c \in Q : Rank(Q, sc, key, c) \in Nat /\ Rank(Q, sc, key, c) < Cardinality(Q)
    BY <1>1, <1>2, RankGrows, FS_CardinalityType
  <2>2. limit \in Int /\ \A c \in Q : c \in W <=> Rank(Q, sc, key, c) < limit
    BY <1>3, <2>1
  <2>3. limit \in Nat
    <3> PICK c \in W : TRUE
      BY <1>5
    <3> QED BY <2>1, <2>2
  <2> HIDE DEF limit
  <2>4. /\ cut \in Nat /\ cut <= limit /\ sel \in Seq(Q) /\ Len(sel) = cut
        /\ {sel[i] : i \in DOMAIN sel} = {e \in Q : Rank(Q, sc, key, e) < cut}
    BY <1>2, <2>3, CutTakesBest
  <2>5. cut = limit \/ cut = Cardinality(Q)
    BY DEF Cut
  <2>6. W = Range(sel)
    <3>1. \A c \in Q : Rank(Q, sc, key, c) < cut <=> Rank(Q, sc, key, c) < limit
      BY <2>1, <2>3, <2>4, <2>5
    <3>2. Range(sel) = {e \in Q : Rank(Q, sc, key, e) < cut}
      BY <2>4 DEF Range
    <3> HIDE DEF W, sel
    <3>3. W \subseteq Q
      BY DEF W
    <3> QED BY <2>2, <3>1, <3>2, <3>3
  <2>7. Cardinality(W) <= cut
    BY <2>4, <2>6, RangeSmall
  <2>8. limit = m - n
    BY DEF limit
  <2> QED BY <1>4, <2>3, <2>4, <2>7, <2>8
<1> QED BY <1>4, <1>5

\* What the ranking of the qualifying probes is good for.
BestRank(c) == Rank(Qualifying(verdict), [d \in Cand |-> verdict[d].score], [d \in Cand |-> d], c)

LEMMA BestFacts ==
  ASSUME verdict \in [Cand -> Verdicts \cup {NoVerdict}]
  PROVE  LET S == Qualifying(verdict)
         IN /\ S \subseteq Cand /\ IsFiniteSet(S)
            /\ \A c \in S : BestRank(c) \in Nat /\ BestRank(c) < Cardinality(S)
            /\ \A c, d \in S : BestRank(d) < BestRank(c) => Outranks(verdict, d, c)
            /\ \A c, d \in S : BestRank(d) = BestRank(c) => d = c
            /\ Best \in Seq(S) /\ Len(Best) = Cut(S, MaxRecall)
            /\ \A i \in 1..Len(Best) : BestRank(Best[i]) = i - 1
            /\ Range(Best) = {c \in S : BestRank(c) < Len(Best)}
            /\ Len(Best) \in Nat /\ Len(Best) <= MaxRecall /\ Len(Best) <= Cardinality(S)
            /\ Len(Best) < MaxRecall => Len(Best) = Cardinality(S)
<1> DEFINE S == Qualifying(verdict)
           sc == [d \in Cand |-> verdict[d].score]
           key == [d \in Cand |-> d]
<1>1. S \subseteq Cand /\ IsFiniteSet(S)
  <2>1. S \in SUBSET Cand
    BY DEF Qualifying, Heard
  <2> QED BY <2>1, CandFinite, FS_Subset
<1>2. \A c \in S : verdict[c].score \in Int /\ sc[c] = verdict[c].score /\ key[c] = c /\ c \in Int
  <2>1. ASSUME NEW v \in Verdicts PROVE v.score \in Int
    <3>1. v \in [qual : {TRUE}, score : Scores] \/ v \in [qual : {FALSE}, score : {0}]
      BY DEF Verdicts
    <3>2. v.score \in Scores \cup {0}
      BY <3>1
    <3>3. \A x \in Scores \cup {0} : x \in Int
      BY AskBounds
    <3> QED BY <3>2, <3>3
  <2>2. \A c \in S : verdict[c] \in Verdicts
    BY <1>1 DEF Qualifying, Heard
  <2>3. \A c \in Cand : c \in Int
    BY AskBounds DEF Cand
  <2> HIDE DEF S
  <2> QED BY <1>1, <2>1, <2>2, <2>3
<1>3. Comparable(S, sc, key)
  BY <1>1, <1>2 DEF Comparable
<1>4. \A c, d \in S : Before(sc, key, d, c) <=> Outranks(verdict, d, c)
  BY <1>2 DEF Before, Outranks
<1>5. \A c \in S : BestRank(c) = Rank(S, sc, key, c)
  BY DEF BestRank
<1> HIDE DEF S, sc, key
<1>6. \A c \in S : BestRank(c) \in Nat /\ BestRank(c) < Cardinality(S)
  BY <1>1, <1>3, <1>5, RankGrows, FS_CardinalityType
<1>7. \A c, d \in S : Before(sc, key, d, c) => BestRank(d) < BestRank(c)
  BY <1>3, <1>5, RankGrows
<1>8. \A c, d \in S : c # d => Before(sc, key, c, d) \/ Before(sc, key, d, c)
  BY <1>3, OrderStrict
<1>9. \A c, d \in S : BestRank(d) < BestRank(c) => Outranks(verdict, d, c)
  BY <1>4, <1>6, <1>7, <1>8
<1>10. \A c, d \in S : BestRank(d) = BestRank(c) => d = c
  BY <1>6, <1>7, <1>8
<1>11. MaxRecall \in Nat
  BY AskBounds
<1>12. Best = Selected(S, sc, key, MaxRecall)
  BY DEF Best, S, sc, key
<1>13. /\ Cut(S, MaxRecall) \in Nat /\ Cut(S, MaxRecall) <= MaxRecall
       /\ Cut(S, MaxRecall) <= Cardinality(S)
       /\ Best \in Seq(S) /\ Len(Best) = Cut(S, MaxRecall)
       /\ {Best[i] : i \in DOMAIN Best} = {e \in S : Rank(S, sc, key, e) < Cut(S, MaxRecall)}
  BY <1>3, <1>11, <1>12, CutTakesBest
<1>14. Range(Best) = {c \in S : BestRank(c) < Len(Best)}
  BY <1>5, <1>13 DEF Range
<1>15. Cardinality(S) \in Nat
  BY <1>1, FS_CardinalityType
<1>16. ASSUME NEW i \in 1..Len(Best) PROVE BestRank(Best[i]) = i - 1
  <2>1. i \in 1..Cardinality(S)
    BY <1>13, <1>15
  <2>2. Ranked(S, sc, key)[i] \in S /\ Rank(S, sc, key, Ranked(S, sc, key)[i]) = i - 1
    BY <1>3, <2>1, RankedByRank
  <2>3. Ranked(S, sc, key) \in [1..Cardinality(S) -> S]
    BY <1>3, RankedByRank DEF Ranked
  <2>4. Best[i] = Ranked(S, sc, key)[i]
    BY <1>12, <1>13, <1>15, <2>1, <2>3 DEF Selected
  <2> QED BY <1>5, <2>2, <2>4
<1>17. Len(Best) < MaxRecall => Len(Best) = Cardinality(S)
  BY <1>11, <1>13, <1>15 DEF Cut
<1> QED BY <1>1, <1>6, <1>9, <1>10, <1>13, <1>14, <1>16, <1>17 DEF S
\* The recall cut in this module's words.
LEMMA LegalMeans ==
  ASSUME NEW vs, NEW r
  PROVE  Abstract!LegalRecall(vs, r)
           <=> /\ Len(r) <= MaxRecall
               /\ \A i, j \in DOMAIN r : i # j => r[i] # r[j]
               /\ Range(r) \subseteq Qualifying(vs) \cup ({Top} \cap Heard(vs))
               /\ MaxRecall > 0 => {Top} \cap Heard(vs) \subseteq Range(r)
               /\ \A i, j \in DOMAIN r : i < j => \/ Outranks(vs, r[i], r[j])
                                                  \/ i = 1 /\ r[1] = Top
               /\ \A c \in Qualifying(vs) \ Range(r) :
                     /\ Len(r) = MaxRecall
                     /\ \A d \in Range(r) \ {Top} : Outranks(vs, d, c)
BY DEF Abstract!LegalRecall, Abstract!Range, Abstract!Qualifying, Abstract!Heard, Abstract!Cand,
       Abstract!Top, Abstract!Outranks, Range, Qualifying, Heard, Cand, Top, Outranks

LEMMA CutIsLegal ==
  ASSUME verdict \in [Cand -> Verdicts \cup {NoVerdict}]
  PROVE  RecallCut \in Seq(Cand) /\ Abstract!LegalRecall(verdict, RecallCut)
<1> DEFINE S == Qualifying(verdict)
           n == Len(Best)
<1>1. /\ S \subseteq Cand /\ IsFiniteSet(S)
      /\ \A c \in S : BestRank(c) \in Nat /\ BestRank(c) < Cardinality(S)
      /\ \A c, d \in S : BestRank(d) < BestRank(c) => Outranks(verdict, d, c)
      /\ \A c, d \in S : BestRank(d) = BestRank(c) => d = c
      /\ \A i \in 1..n : BestRank(Best[i]) = i - 1
      /\ Range(Best) = {c \in S : BestRank(c) < n}
      /\ n \in Nat /\ n <= MaxRecall
      /\ n < MaxRecall => n = Cardinality(S)
  BY BestFacts
<1>2. Best \in Seq(S) /\ DOMAIN Best = 1..n /\ \A i \in 1..n : Best[i] \in S
  BY BestFacts
<1>3. MaxRecall \in Nat /\ Cardinality(S) \in Nat
  BY <1>1, AskBounds, FS_CardinalityType
<1>4. \A i, j \in 1..n : i < j => Best[i] # Best[j] /\ Outranks(verdict, Best[i], Best[j])
  BY <1>1, <1>2
<1> HIDE DEF S, n
<1>5. CASE RecallCut = Best /\ ~(Top \in Heard(verdict) \ Range(Best))
  <2>1. Best \in Seq(Cand)
    BY <1>1, <1>2
  <2>2. n <= MaxRecall /\ \A i, j \in DOMAIN Best : i # j => Best[i] # Best[j]
    BY <1>1, <1>2, <1>4
  <2>3. /\ Range(Best) \subseteq S
        /\ {Top} \cap Heard(verdict) \subseteq Range(Best)
    BY <1>1, <1>5
  <2>4. \A i, j \in DOMAIN Best : i < j => Outranks(verdict, Best[i], Best[j])
    BY <1>2, <1>4
  <2>5. ASSUME NEW c \in S \ Range(Best)
        PROVE  n = MaxRecall /\ \A d \in Range(Best) : Outranks(verdict, d, c)
    <3>1. BestRank(c) \in Nat /\ ~(BestRank(c) < n) /\ BestRank(c) < Cardinality(S)
      BY <1>1
    <3>2. n = MaxRecall
      BY <1>1, <1>3, <3>1
    <3>3. \A d \in Range(Best) : d \in S /\ BestRank(d) \in Nat /\ BestRank(d) < n
      BY <1>1
    <3> QED BY <1>1, <3>1, <3>2, <3>3
  <2>6. Abstract!LegalRecall(verdict, Best)
    BY <2>2, <2>3, <2>4, <2>5, LegalMeans DEF S, n
  <2> QED BY <1>5, <2>1, <2>6
<1>6. CASE RecallCut = Trusted /\ Top \in Heard(verdict) \ Range(Best)
  <2> DEFINE len == IF n + 1 > MaxRecall THEN MaxRecall ELSE n + 1
             r == Trusted
  <2>1. Top \in Cand
    BY CandFinite
  <2>2. <<Top>> \o Best \in Seq(Cand) /\ Len(<<Top>> \o Best) = n + 1
    BY <1>1, <1>2, <2>1 DEF n
  <2>3. \A i \in 1..n + 1 : (<<Top>> \o Best)[i] = IF i = 1 THEN Top ELSE Best[i - 1]
    BY <1>1, <1>2, <2>1 DEF n
  <2>4. len \in Nat /\ len <= MaxRecall /\ len <= n + 1 /\ (len < MaxRecall => len = n + 1)
    BY <1>1, <1>3
  <2>5. /\ r \in Seq(Cand) /\ Len(r) = len
        /\ \A i \in 1..len : r[i] = IF i = 1 THEN Top ELSE Best[i - 1]
    <3>1. CASE n + 1 > MaxRecall
      <4>1. r = SubSeq(<<Top>> \o Best, 1, MaxRecall) /\ len = MaxRecall
        BY <2>2, <3>1 DEF Trusted
      <4> QED BY <1>3, <2>2, <2>3, <2>4, <3>1, <4>1
    <3>2. CASE ~(n + 1 > MaxRecall)
      <4>1. r = <<Top>> \o Best /\ len = n + 1
        BY <2>2, <3>2 DEF Trusted
      <4> QED BY <2>2, <2>3, <4>1
    <3> QED BY <3>1, <3>2
  <2> HIDE DEF len, r
  <2>6. DOMAIN r = 1..len
    BY <2>4, <2>5
  <2>7. \A i \in 2..len : i - 1 \in 1..n /\ r[i] = Best[i - 1]
    BY <1>1, <2>4, <2>5
  <2>8. \A i \in 1..n : Best[i] # Top
    <3>1. \A i \in 1..n : Best[i] \in Range(Best)
      BY <1>2 DEF Range
    <3> QED BY <1>6, <3>1
  <2>9. \A i, j \in DOMAIN r : i # j => r[i] # r[j]
    <3>1. \A i, j \in 1..len : i < j => r[i] # r[j]
      <4> SUFFICES ASSUME NEW i \in 1..len, NEW j \in 1..len, i < j PROVE r[i] # r[j]
        OBVIOUS
      <4>1. j \in 2..len /\ j - 1 \in 1..n /\ r[j] = Best[j - 1]
        BY <2>4, <2>7
      <4>2. CASE i = 1
        BY <2>5, <2>8, <4>1, <4>2
      <4>3. CASE i # 1
        <5>1. i \in 2..len /\ i - 1 \in 1..n /\ r[i] = Best[i - 1] /\ i - 1 < j - 1
          BY <2>4, <2>7, <4>3
        <5> QED BY <1>4, <4>1, <5>1
      <4> QED BY <4>2, <4>3
    <3>2. \A i, j \in 1..len : i # j => i < j \/ j < i
      BY <2>4
    <3> QED BY <2>6, <3>1, <3>2
  <2>10. \A i, j \in DOMAIN r : i < j => Outranks(verdict, r[i], r[j]) \/ (i = 1 /\ r[1] = Top)
    <3> SUFFICES ASSUME NEW i \in 1..len, NEW j \in 1..len, i < j, i # 1
                 PROVE  Outranks(verdict, r[i], r[j])
      BY <2>5, <2>6
    <3>1. /\ i \in 2..len /\ i - 1 \in 1..n /\ r[i] = Best[i - 1]
          /\ j \in 2..len /\ j - 1 \in 1..n /\ r[j] = Best[j - 1] /\ i - 1 < j - 1
      BY <2>4, <2>7
    <3> QED BY <1>4, <3>1
  <2>11. \A d \in Range(r) : d = Top \/ (d \in S /\ BestRank(d) \in Nat /\ BestRank(d) < len - 1)
    <3> SUFFICES ASSUME NEW i \in 1..len, r[i] # Top
                 PROVE  r[i] \in S /\ BestRank(r[i]) \in Nat /\ BestRank(r[i]) < len - 1
      BY <2>6 DEF Range
    <3>1. i \in 2..len /\ i - 1 \in 1..n /\ r[i] = Best[i - 1]
      BY <2>4, <2>5, <2>7
    <3>2. r[i] \in S /\ BestRank(r[i]) = (i - 1) - 1
      BY <1>1, <1>2, <3>1
    <3> QED BY <2>4, <3>1, <3>2
  <2>12. MaxRecall > 0 => Top \in Range(r)
    <3> SUFFICES ASSUME MaxRecall > 0 PROVE 1 \in DOMAIN r /\ r[1] = Top
      BY DEF Range
    <3>1. 1 \in 1..len
      BY <1>1, <1>3, <2>4
    <3> QED BY <2>5, <2>6, <3>1
  <2>13. ASSUME NEW c \in S \ Range(r)
         PROVE  len = MaxRecall /\ \A d \in Range(r) \ {Top} : Outranks(verdict, d, c)
    <3>1. BestRank(c) \in Nat /\ BestRank(c) < Cardinality(S)
      BY <1>1
    <3>2. ~(BestRank(c) < len - 1)
      <4> SUFFICES ASSUME BestRank(c) < len - 1 PROVE FALSE
        OBVIOUS
      <4> DEFINE i == BestRank(c) + 1
      <4>1. i \in 1..n /\ i + 1 \in 1..len /\ i + 1 # 1 /\ (i + 1) - 1 = i
        BY <1>1, <2>4, <3>1
      <4>2. BestRank(Best[i]) = i - 1 /\ Best[i] \in S
        BY <1>1, <1>2, <4>1
      <4>3. Best[i] = c
        BY <1>1, <3>1, <4>2
      <4>4. r[i + 1] = c
        BY <2>5, <4>1, <4>3
      <4> QED BY <2>6, <4>1, <4>4 DEF Range
    <3>3. len = MaxRecall
      BY <1>1, <1>3, <2>4, <3>1, <3>2
    <3>4. \A d \in Range(r) \ {Top} : d \in S /\ BestRank(d) \in Nat /\ BestRank(d) < BestRank(c)
      BY <2>4, <2>11, <3>1, <3>2
    <3> QED BY <1>1, <3>3, <3>4
  <2>14. Range(r) \subseteq S \cup ({Top} \cap Heard(verdict))
    BY <1>6, <2>11
  <2>15. Abstract!LegalRecall(verdict, r)
    BY <2>4, <2>5, <2>9, <2>10, <2>12, <2>13, <2>14, LegalMeans DEF S
  <2> QED BY <1>6, <2>5, <2>15 DEF r
<1> QED BY <1>5, <1>6 DEF RecallCut
-----------------------------------------------------------------------------
(* Every step keeps the invariant.                                         *)

LEMMA SameSwitches ==
  ASSUME mode' = mode, probed' = probed, snaps' = snaps
  PROVE  /\ ProbeCalls' = ProbeCalls /\ Batched' = Batched
         /\ \A c \in Cand : (AskedBy(c))' = AskedBy(c)
BY DEF ProbeCalls, Batched, Rest, AskedBy

LEMMA ProbeCallsKnown ==
  ASSUME snaps \in SUBSET Cand
  PROVE  ProbeCalls \subseteq ProbeSet /\ \A k \in ProbeCalls : k = Batch \/ k \in {ProbeOf(c) : c \in snaps}
BY DEF ProbeCalls, ProbeSet, Rest

LEMMA SnapsKnown == TypeOK => snaps \in SUBSET Cand /\ entries \in SUBSET Cand /\ targets \in Seq(Cand)
BY DEF TypeOK

\* A call in flight gets a reply that is not a verdict, or fails.
LEMMA CallMoves ==
  ASSUME AskInv, NEW k \in Call, IsIn(k, "flying"), NEW s \in CallState,
         s.st # "idle", s.st = "flying" => s.tries \in 0..1, s.st = "ok" => k \notin ProbeSet,
         call' = [call EXCEPT ![k] = s],
         UNCHANGED <<mode, pc, probed, snaps, verdict, entries, others, targets, at,
                     cost, discarded, blame>>
  PROVE  AskInv'
<1> USE DEF IsIn, Made
<1>1. call \in [Call -> CallState] /\ call[k].st = "flying"
  BY DEF AskInv, Typed, TypeOK
<1>2. /\ \A j \in Call : j # k => call'[j] = call[j]
      /\ call'[k] = s
  BY <1>1
<1>3. \A j \in Call : call'[j].st = "idle" <=> call[j].st = "idle"
  BY <1>1, <1>2
<1>4. Typed'
  <2>1. TypeOK'
    BY <1>1 DEF AskInv, Typed, TypeOK
  <2>2. \A j \in Call : /\ call'[j].st = "flying" => call'[j].tries \in 0..1
                        /\ call'[j].st = "idle" => call'[j] = Idle
    BY <1>2 DEF AskInv, Typed
  <2> QED BY <2>1, <2>2 DEF Typed
<1>5. Early' /\ ~(pc \in Ended /\ at = 0)
  BY <1>1 DEF AskInv, Early
<1>6. ProbesKnown'
  <2>1. ProbeCalls' = ProbeCalls /\ \A c \in Cand : (AskedBy(c))' = AskedBy(c)
    BY SameSwitches
  <2>2. ProbeSet \subseteq Call /\ ProbeCalls \subseteq Call
    BY CallShape, ProbeCallsKnown, SnapsKnown DEF AskInv, Typed
  <2>3. \A c \in Cand : AskedBy(c) \in Call
    BY CallShape DEF AskedBy
  <2>4. (Heard(verdict))' = Heard(verdict) /\ Heard(verdict) \subseteq Cand
    BY DEF Heard
  <2> HIDE DEF ProbeSet, ProbeCalls, Heard, AskedBy
  <2> QED BY <1>1, <1>2, <2>1, <2>2, <2>3, <2>4 DEF AskInv, ProbesKnown
<1>7. RecallsKnown'
  <2>1. \A c \in Cand : RecallOf(c) \in Call
    BY CallShape
  <2>2. (Abstract!LegalRecall(verdict, targets))' <=> Abstract!LegalRecall(verdict, targets)
    BY DEF Abstract!LegalRecall, Abstract!Range, Abstract!Qualifying, Abstract!Heard, Abstract!Cand,
           Abstract!Top, Abstract!Outranks
  <2> QED BY <1>3, <2>1, <2>2 DEF AskInv, RecallsKnown, Target, Heard
<1>8. Slots'
  <2>1. \A c \in Cand : RecallOf(c) \in Call
    BY CallShape
  <2>2. Guessed' = Guessed
    BY <1>3, <2>1 DEF Guessed, Target
  <2> QED BY <2>2 DEF AskInv, Slots
<1>9. Steady'
  <2>1. Synth \in Call /\ \A c \in Cand : RecallOf(c) \in Call
    BY CallShape
  <2>2. Target' = Target /\ Target \subseteq Cand
    BY SnapsKnown, RangeSmall DEF AskInv, Typed, Target
  <2> HIDE DEF Target
  <2> QED BY <1>1, <1>2, <2>1, <2>2 DEF AskInv, Steady
<1>10. Accounted'
  <2> DEFINE Stays(K) == \A j \in K : call'[j] = call[j] \/ (call[j].st # "ok" /\ call'[j].st # "ok")
  <2>1. Target' = Target /\ Target \subseteq Cand
    BY SnapsKnown, RangeSmall DEF AskInv, Typed, Target
  <2>2. Stays(ProbeSet)
    BY <1>1, <1>2, CallShape
  <2>3. Stays({Batch})
    BY <2>2, CallShape
  <2>4. pc = "discard" => Stays(ProbeSet \cup Recalls(Target))
    BY <1>1, <1>2, <2>1, <2>2, CallShape DEF AskInv, Steady, Recalls
  <2>5. pc \in {"synth"} \cup Ended => Stays(ProbeSet \cup Recalls(Cand))
    BY <1>1, <1>2, <2>2, CallShape DEF AskInv, Steady, Recalls
  <2>6. pc \in Ended => Stays(Call)
    BY <1>1, <1>2, <2>5, CallShape DEF AskInv, Steady
  <2>7. \A K \in {ProbeSet, {Batch}, ProbeSet \cup Recalls(Cand), Call} :
           Stays(K) => (Billed(K))' = Billed(K)
    BY BilledSame DEF ProbeSet, Recalls, Call
  <2>8. Stays(ProbeSet \cup Recalls(Target))
          => (Billed(ProbeSet \cup Recalls(Target)))' = Billed(ProbeSet \cup Recalls(Target))
    BY <2>1, BilledSame DEF Recalls
  <2> HIDE DEF Stays
  <2> QED BY <2>2, <2>3, <2>4, <2>5, <2>6, <2>7, <2>8 DEF AskInv, Accounted
<1> QED BY <1>4, <1>5, <1>6, <1>7, <1>8, <1>9, <1>10 DEF AskInv

\* A cut that is kept stays legal.
LEMMA LegalStays ==
  ASSUME verdict' = verdict, targets' = targets
  PROVE  (Abstract!LegalRecall(verdict, targets))' <=> Abstract!LegalRecall(verdict, targets)
BY DEF Abstract!LegalRecall, Abstract!Range, Abstract!Qualifying, Abstract!Heard, Abstract!Cand,
       Abstract!Top, Abstract!Outranks

\* ask() goes on, or ends, with every call but the synthesis where it was.
LEMMA PhaseMoves ==
  ASSUME AskInv, \A k \in Call \ {Synth} : call'[k] = call[k],
         UNCHANGED <<mode, probed, snaps, verdict, entries, others, targets, at>>
  PROVE  ProbesKnown' /\ RecallsKnown' /\ Slots'
<1>1. ProbeCalls' = ProbeCalls /\ \A c \in Cand : (AskedBy(c))' = AskedBy(c)
  BY SameSwitches
<1>2. \A k \in Call \ {Synth} : (IsIn(k, "ok"))' = IsIn(k, "ok") /\ (Made(k))' = Made(k)
  BY DEF IsIn, Made
<1>3. (Heard(verdict))' = Heard(verdict) /\ Heard(verdict) \subseteq Cand /\ Target' = Target
  BY DEF Heard, Target
<1>4. ProbesKnown'
  <2>1. ProbeSet \subseteq Call \ {Synth} /\ ProbeCalls \subseteq ProbeSet
    BY CallShape, ProbeCallsKnown, SnapsKnown DEF AskInv, Typed
  <2>2. \A c \in Cand : AskedBy(c) \in ProbeSet
    BY CallShape DEF AskedBy
  <2>3. \A c \in Heard(verdict) : (IsIn(AskedBy(c), "ok"))'
    <3>1. \A c \in Heard(verdict) : call[AskedBy(c)].st = "ok" /\ call'[AskedBy(c)] = call[AskedBy(c)]
      BY <1>3, <2>1, <2>2 DEF AskInv, ProbesKnown, IsIn
    <3>2. \A c \in Cand : (IsIn(AskedBy(c), "ok"))' <=> call'[AskedBy(c)].st = "ok"
      BY <1>1 DEF IsIn
    <3> QED BY <1>3, <3>1, <3>2
  <2> HIDE DEF ProbeSet, ProbeCalls, Heard, AskedBy
  <2> QED BY <1>1, <1>2, <1>3, <2>1, <2>3 DEF AskInv, ProbesKnown
<1>5. RecallsKnown' /\ Guessed' = Guessed
  <2>1. \A c \in Cand : (Made(RecallOf(c)))' = Made(RecallOf(c))
    BY <1>2, CallShape
  <2>2. RecallsKnown'
    BY <1>3, <2>1, LegalStays DEF AskInv, RecallsKnown
  <2> QED BY <1>3, <2>1, <2>2 DEF Guessed
<1>6. Slots'
  BY <1>5 DEF AskInv, Slots
<1> QED BY <1>4, <1>5, <1>6

LEMMA FailureKeeps ==
  ASSUME AskInv, Rejects \/ StorageFails
  PROVE  AskInv'
<1>1. /\ pc' = "failed"
      /\ UNCHANGED <<mode, probed, snaps, verdict, call, entries, others, targets, at, cost, discarded>>
  BY DEF Rejects, StorageFails
<1>2. blame' \in Call \cup {NoOne, <<"storage", 0>>}
  <2>1. CASE StorageFails
    BY <2>1 DEF StorageFails
  <2>2. CASE Rejects
    <3>1. TypeOK /\ snaps \in SUBSET Cand /\ targets \in Seq(Cand)
      BY SnapsKnown DEF AskInv, Typed
    <3>2. ProbeCalls \subseteq Call
      BY <3>1, ProbeCallsKnown, CallShape
    <3>3. Target \subseteq Cand
      BY <3>1, RangeSmall DEF Target
    <3>4. \A i \in DOMAIN targets \cap {at} : targets[i] \in Cand
      BY <3>1
    <3>5. Awaited \subseteq Call
      <4> HIDE DEF ProbeCalls, Target
      <4> QED BY <3>2, <3>3, <3>4, CallShape DEF Awaited
    <3> QED BY <2>2, <3>5 DEF Rejects
  <2> QED BY <2>1, <2>2
<1>3. Typed'
  BY <1>1, <1>2 DEF AskInv, Typed, TypeOK, IsIn
<1>4. Early'
  BY <1>1 DEF AskInv, Early, Ended
<1>5. Steady' /\ Accounted'
  BY <1>1 DEF Steady, Accounted, Ended
<1> QED BY <1>1, <1>3, <1>4, <1>5, PhaseMoves DEF AskInv

LEMMA StutterKeeps ==
  ASSUME AskInv, UNCHANGED vars
  PROVE  AskInv'
<1> USE DEF vars
<1>1. Typed' /\ Early'
  BY DEF AskInv, Typed, TypeOK, Early, IsIn, Made
<1>2. Target' = Target
  BY DEF Target
<1>3. Steady'
  BY <1>2 DEF AskInv, Steady, IsIn, Made
<1>4. Accounted'
  BY <1>2, BilledSame DEF AskInv, Accounted
<1> QED BY <1>1, <1>3, <1>4, PhaseMoves DEF AskInv

LEMMA InitInv == Init => AskInv
<1> SUFFICES ASSUME Init PROVE AskInv
  OBVIOUS
<1> USE DEF Init
<1>1. \A k \in Call : call[k].st = "idle" /\ call[k] = Idle
  BY DEF Idle
<1>2. Target = {} /\ Heard(verdict) = {}
  BY DEF Target, Range, Heard
<1>3. Typed
  <2>1. call \in [Call -> CallState]
    BY DEF CallState, Idle
  <2> QED BY <1>1, <2>1 DEF Typed, TypeOK, IsIn
<1>4. Early
  BY <1>1 DEF Early, Made, IsIn
<1>5. ProbesKnown
  BY <1>1, <1>2, CallShape DEF ProbesKnown, Made, IsIn
<1>6. RecallsKnown
  BY <1>1, CallShape DEF RecallsKnown, Made, IsIn
<1>7. Slots
  <2>1. Guessed = {}
    BY <1>1, CallShape DEF Guessed, Made, IsIn
  <2> QED BY <2>1, FS_EmptySet DEF Slots
<1>8. Steady /\ Accounted
  BY <1>1, <1>2, CallShape DEF Steady, Accounted, Ended, Made, IsIn
<1> QED BY <1>3, <1>4, <1>5, <1>6, <1>7, <1>8 DEF AskInv

LEMMA RouteKeeps ==
  ASSUME AskInv, Route
  PROVE  AskInv'
<1> USE DEF Route
<1>1. /\ \A k \in Call : ~Made(k)
      /\ entries = {} /\ others = 0 /\ cost = 0 /\ at = 0 /\ targets = <<>>
      /\ verdict = [c \in Cand |-> NoVerdict]
  BY DEF AskInv, Early
<1>2. /\ pc' \in {"finalize", "start"} /\ probed' \in SUBSET Cand /\ snaps' \in SUBSET probed'
      /\ UNCHANGED <<mode, verdict, call, entries, others, targets, at, cost, discarded, blame>>
  <2>1. PICK n \in 0..MaxProbe : probed' \in Gate(n) /\ pc' = IF n = 0 THEN "finalize" ELSE "start"
    OBVIOUS
  <2>2. \A P \in Gate(n) : P \subseteq 1..n
    BY DEF Gate
  <2>3. 1..n \subseteq Cand
    BY AskBounds DEF Cand
  <2> QED BY <2>1, <2>2, <2>3
<1>3. \A k \in Call : ~(Made(k))' /\ ~(IsIn(k, "ok"))' /\ ~(IsIn(k, "flying"))'
  BY <1>1, <1>2 DEF Made, IsIn
<1>4. Target' = {} /\ (Heard(verdict))' = {}
  BY <1>1, <1>2 DEF Target, Range, Heard
<1>5. Typed'
  BY <1>1, <1>2 DEF AskInv, Typed, TypeOK, IsIn
<1>6. Early'
  BY <1>1, <1>2, <1>3 DEF Early, Ended
<1>7. ProbesKnown'
  BY <1>1, <1>2, <1>3, <1>4, CallShape DEF ProbesKnown
<1>8. RecallsKnown'
  BY <1>1, <1>2, <1>3, CallShape DEF RecallsKnown
<1>9. Slots'
  <2>1. Guessed' = {}
    BY <1>3, CallShape DEF Guessed
  <2> QED BY <1>1, <1>2, <2>1, FS_EmptySet DEF Slots
<1>10. Steady'
  BY <1>2, <1>3, <1>4, CallShape DEF Steady, Ended
<1>11. Accounted'
  <2>1. \A k \in Call : ~IsIn(k, "ok")
    BY <1>1 DEF Made, IsIn
  <2>2. Billed(Call) = 0
    BY <2>1, BilledNothing
  <2>3. (Billed(Call))' = Billed(Call)
    BY <1>2, BilledSame
  <2> QED BY <1>1, <1>2, <2>2, <2>3 DEF Accounted, Ended
<1> QED BY <1>5, <1>6, <1>7, <1>8, <1>9, <1>10, <1>11 DEF AskInv

LEMMA StartProbesKeeps ==
  ASSUME AskInv, StartProbes
  PROVE  AskInv'
<1> DEFINE first == IF AllAtOnce THEN ProbeCalls ELSE {ProbeOf(c) : c \in Lowest(snaps)}
<1>1. /\ \A k \in Call : ~Made(k)
      /\ entries = {} /\ others = 0 /\ cost = 0 /\ at = 0 /\ targets = <<>>
      /\ verdict = [c \in Cand |-> NoVerdict]
  BY DEF AskInv, Early, StartProbes
<1>2. /\ pc' = "probe" /\ call' = [k \in Call |-> IF k \in first THEN Flying ELSE call[k]]
      /\ entries' = IF EagerPath THEN {c \in snaps : c = Top \/ mode.eager} ELSE {}
      /\ UNCHANGED <<mode, probed, snaps, verdict, others, targets, at, cost, discarded, blame>>
  BY DEF StartProbes
<1>3. TypeOK /\ snaps \in SUBSET Cand
  BY SnapsKnown DEF AskInv, Typed
<1>4. first \subseteq ProbeCalls
  <2>1. CASE AllAtOnce
    BY <2>1
  <2>2. CASE ~AllAtOnce
    <3>1. ~Batched
      BY <2>2 DEF AllAtOnce
    <3> QED BY <2>2, <3>1 DEF ProbeCalls, Lowest
  <2> QED BY <2>1, <2>2
<1>5. ProbeCalls \subseteq ProbeSet
  BY <1>3, ProbeCallsKnown
<1> HIDE DEF first
<1>6. \A k \in Call : call'[k] = IF k \in first THEN Flying ELSE call[k]
  BY <1>2
<1>7. \A k \in Call : ~(IsIn(k, "ok"))' /\ ((Made(k))' => k \in first)
  BY <1>1, <1>6 DEF Made, IsIn, Flying
<1>8. \A c \in Cand : RecallOf(c) \in Call /\ RecallOf(c) \notin first
  BY <1>4, <1>5, CallShape
<1>9. Target' = {} /\ (Heard(verdict))' = {}
  BY <1>1, <1>2 DEF Target, Range, Heard
<1>10. ProbeCalls' = ProbeCalls
  BY <1>2, SameSwitches
<1>11. Typed'
  <2>1. call' \in [Call -> CallState]
    BY <1>2, <1>3 DEF TypeOK, CallState, Flying
  <2>2. entries' \in SUBSET snaps
    BY <1>2
  <2>3. \A k \in Call : /\ (IsIn(k, "flying"))' => call'[k].tries \in 0..1
                        /\ (IsIn(k, "idle"))' => call'[k] = Idle
    BY <1>6 DEF AskInv, Typed, IsIn, Flying
  <2> QED BY <1>2, <1>3, <2>1, <2>2, <2>3 DEF Typed, TypeOK
<1>12. Early'
  BY <1>1, <1>2 DEF Early, Ended
<1>13. ProbesKnown'
  BY <1>1, <1>2, <1>4, <1>7, <1>9, <1>10, CallShape DEF ProbesKnown
<1>14. RecallsKnown'
  <2>1. EagerPath => MaxRecall > 0
    BY DEF EagerPath
  <2> QED BY <1>1, <1>2, <1>7, <1>8, <2>1 DEF RecallsKnown
<1>15. Slots'
  <2>1. Guessed' = {}
    BY <1>7, <1>8 DEF Guessed
  <2> QED BY <1>1, <1>2, <2>1, FS_EmptySet DEF Slots
<1>16. Steady'
  BY <1>2, <1>4, <1>5, <1>7, CallShape DEF Steady, Ended
<1>17. Accounted'
  <2>1. ~IsIn(Batch, "ok") /\ ~(IsIn(Batch, "ok"))' /\ Batch \in Call
    BY <1>1, <1>7, CallShape DEF Made, IsIn
  <2>2. (Billed({Batch}))' = Billed({Batch})
    BY <2>1, BilledSame DEF IsIn
  <2>3. Billed({Batch}) = 0
    BY <2>1, BilledNothing
  <2> QED BY <1>1, <1>2, <2>2, <2>3 DEF Accounted, Ended
<1> QED BY <1>11, <1>12, <1>13, <1>14, <1>15, <1>16, <1>17 DEF AskInv

\* Probe or batch k brings the verdicts of D and the recalls they start.
LEMMA VerdictKeeps ==
  ASSUME AskInv, NEW k \in ProbeCalls, NEW D \in SUBSET snaps,
         \A c \in D : AskedBy(c) = k, Verdict(k, D)
  PROVE  AskInv'
<1>1. PICK v \in [D -> Verdicts] :
         LET starts == EagerStarts(D, v)
         IN /\ verdict' = [c \in Cand |-> IF c \in D THEN v[c] ELSE verdict[c]]
            /\ others' = others + Cardinality(starts \ {Top})
            /\ call' = [j \in Call |->
                 CASE j = k -> [st |-> "ok", tries |-> call[k].tries + 1]
                   [] j \in NextProbe \cup {RecallOf(c) : c \in starts} -> Flying
                   [] OTHER -> call[j]]
  BY DEF Verdict
<1> DEFINE starts == EagerStarts(D, v)
           launch == NextProbe \cup {RecallOf(c) : c \in starts}
<1>2. /\ IsIn(k, "flying")
      /\ cost' = IF k = Batch THEN cost + call[k].tries + 1 ELSE cost
      /\ UNCHANGED <<mode, pc, probed, snaps, entries, targets, at, discarded, blame>>
  BY DEF Verdict
<1>3. /\ TypeOK /\ snaps \in SUBSET Cand /\ entries \in SUBSET Cand /\ others \in Nat
      /\ call \in [Call -> CallState] /\ verdict \in [Cand -> Verdicts \cup {NoVerdict}]
      /\ call[k].tries \in 0..1 /\ cost \in Nat
      /\ k \in ProbeSet /\ k \in Call
  <2>1. TypeOK /\ snaps \in SUBSET Cand /\ entries \in SUBSET Cand
    BY SnapsKnown DEF AskInv, Typed
  <2>2. k \in ProbeSet /\ k \in Call
    BY <2>1, ProbeCallsKnown, CallShape
  <2> QED BY <1>2, <2>1, <2>2 DEF AskInv, Typed, TypeOK
<1>4. at = 0 /\ pc \in {"probe", "failed"} /\ targets = <<>> /\ Target = {}
  <2>1. ~IsIn(k, "ok") /\ Made(k)
    BY <1>2 DEF IsIn, Made
  <2>2. at = 0
    BY <2>1 DEF AskInv, ProbesKnown
  <2>3. pc \in {"probe", "failed"} /\ targets = <<>>
    BY <1>3, <2>1, <2>2 DEF AskInv, Typed, TypeOK, Early, Ended
  <2> QED BY <2>2, <2>3 DEF Target, Range
<1>5. \A c \in D : c \in Cand /\ c \notin Heard(verdict) /\ ~Made(RecallOf(c))
  <2>1. \A c \in D : c \in Cand /\ ~IsIn(AskedBy(c), "ok")
    BY <1>2, <1>3 DEF IsIn
  <2>2. \A c \in D : c \notin Heard(verdict)
    BY <2>1 DEF AskInv, ProbesKnown
  <2> QED BY <1>4, <2>1, <2>2 DEF AskInv, RecallsKnown
<1>6. starts \subseteq D \cap entries
  BY DEF EagerStarts
<1>7. \A j \in NextProbe : j \in ProbeCalls /\ j \in ProbeSet /\ ~Made(j)
  <2> SUFFICES ASSUME ~AllAtOnce, NEW c \in snaps, IsIn(ProbeOf(c), "idle")
               PROVE  ProbeOf(c) \in ProbeCalls /\ ProbeOf(c) \in ProbeSet /\ ~Made(ProbeOf(c))
    BY DEF NextProbe, Lowest
  <2>1. ~Batched
    BY DEF AllAtOnce
  <2> QED BY <1>3, <2>1 DEF ProbeCalls, ProbeSet, Made
<1>8. \A j \in launch : ~Made(j) /\ j # k /\ j \in Call
  <2>1. \A c \in starts : RecallOf(c) \in Call /\ ~Made(RecallOf(c))
    BY <1>5, <1>6, CallShape
  <2>2. Made(k)
    BY <1>2 DEF Made, IsIn
  <2> QED BY <1>7, <2>1, <2>2, CallShape
<1>9. /\ call'[k] = [st |-> "ok", tries |-> call[k].tries + 1]
      /\ \A j \in launch : call'[j] = Flying
      /\ \A j \in Call : j # k /\ j \notin launch => call'[j] = call[j]
  BY <1>1, <1>3, <1>8
<1>10. /\ verdict' = [c \in Cand |-> IF c \in D THEN v[c] ELSE verdict[c]]
       /\ others' = others + Cardinality(starts \ {Top})
  BY <1>1
<1> HIDE DEF starts, launch
<1>11. starts \subseteq D /\ starts \subseteq entries /\ starts \in SUBSET Cand
  BY <1>5, <1>6
<1>12. \A c \in Cand : (Made(RecallOf(c)))' => Made(RecallOf(c)) \/ c \in starts
  <2> SUFFICES ASSUME NEW c \in Cand, c \notin starts PROVE call'[RecallOf(c)] = call[RecallOf(c)]
    BY DEF Made, IsIn
  <2>1. RecallOf(c) \in Call /\ RecallOf(c) # k /\ RecallOf(c) \notin ProbeSet
    BY <1>3, CallShape
  <2>2. RecallOf(c) \notin {RecallOf(d) : d \in starts}
    BY <1>11, CallShape
  <2> QED BY <1>7, <1>9, <2>1, <2>2 DEF launch
<1>13. (Heard(verdict))' = Heard(verdict) \cup D
  <2>1. \A c \in D : v[c] # NoVerdict
    BY NoVerdictApart
  <2> QED BY <1>5, <1>10, <2>1 DEF Heard
<1>14. \A j \in Call : IsIn(j, "ok") => (IsIn(j, "ok"))'
  BY <1>2, <1>8, <1>9 DEF IsIn, Made
<1>15. Typed'
  <2>1. call' \in [Call -> CallState]
    <3>1. call[k].tries + 1 \in 0..2
      BY <1>3
    <3>2. \A j \in Call : call'[j] \in CallState
      BY <1>3, <1>9, <3>1 DEF CallState, Flying
    <3>3. call' = [j \in Call |-> call'[j]]
      BY <1>1
    <3> QED BY <3>2, <3>3
  <2>2. verdict' \in [Cand -> Verdicts \cup {NoVerdict}]
    BY <1>3, <1>10
  <2>3. others' \in Nat
    <3>1. IsFiniteSet(starts \ {Top})
      BY <1>11, CandFinite, FS_Subset
    <3> QED BY <1>3, <1>10, <3>1, FS_CardinalityType
  <2>4. cost' \in Nat
    BY <1>2, <1>3
  <2>5. \A j \in Call : /\ (IsIn(j, "flying"))' => call'[j].tries \in 0..1
                        /\ (IsIn(j, "idle"))' => call'[j] = Idle
    BY <1>9 DEF AskInv, Typed, IsIn, Flying
  <2> QED BY <1>2, <1>3, <2>1, <2>2, <2>3, <2>4, <2>5 DEF Typed, TypeOK
<1>16. Early'
  BY <1>2, <1>4 DEF Early, Ended
<1>17. ProbesKnown'
  <2>1. ProbeCalls' = ProbeCalls /\ \A c \in Cand : (AskedBy(c))' = AskedBy(c)
    BY <1>2, SameSwitches
  <2>2. \A j \in ProbeSet \ ProbeCalls : ~(Made(j))'
    <3> SUFFICES ASSUME NEW j \in ProbeSet \ ProbeCalls PROVE call'[j] = call[j]
      BY DEF AskInv, ProbesKnown, Made, IsIn
    <3>1. j \in Call /\ j # k /\ j \notin NextProbe /\ j \notin {RecallOf(c) : c \in starts}
      BY <1>7, <1>11, CallShape
    <3> QED BY <1>9, <3>1 DEF launch
  <2>3. \A c \in Heard(verdict) : (IsIn(AskedBy(c), "ok"))'
    <3>1. \A c \in Cand : AskedBy(c) \in Call
      BY CallShape DEF AskedBy
    <3>2. \A c \in Heard(verdict) : c \in Cand /\ IsIn(AskedBy(c), "ok")
      BY DEF AskInv, ProbesKnown, Heard
    <3>3. \A c \in Heard(verdict) : (IsIn(AskedBy(c), "ok"))' <=> call'[AskedBy(c)].st = "ok"
      BY <2>1, <3>2 DEF IsIn
    <3>4. \A c \in Heard(verdict) : call'[AskedBy(c)].st = "ok"
      BY <1>14, <3>1, <3>2 DEF IsIn
    <3> QED BY <3>3, <3>4
  <2>4. \A c \in D : (IsIn(AskedBy(c), "ok"))'
    BY <1>5, <1>9, <2>1 DEF IsIn
  <2> QED BY <1>2, <1>4, <1>13, <2>1, <2>2, <2>3, <2>4 DEF ProbesKnown
<1>18. RecallsKnown'
  <2>1. \A c \in Cand : (Made(RecallOf(c)))' => c \in entries /\ c \in (Heard(verdict))'
    BY <1>4, <1>11, <1>12, <1>13 DEF AskInv, RecallsKnown
  <2> QED BY <1>2, <1>4, <2>1 DEF AskInv, RecallsKnown
<1>19. Slots'
  <2> DEFINE Q == {c \in D \cap entries : c # Top /\ v[c].qual}
             W == {c \in Q : others + Cardinality({d \in Q : d < c}) < MaxRecall - 1}
  <2>1. starts \ {Top} = W
    BY DEF starts, EagerStarts
  <2>2. Q \in SUBSET Cand /\ MaxRecall - 1 \in Int /\ MaxRecall \in Nat
    BY <1>5, AskBounds
  <2> HIDE DEF Q
  <2>3. IsFiniteSet(W) /\ Cardinality(W) \in Nat /\ (W = {} \/ others + Cardinality(W) <= MaxRecall - 1)
    BY <1>3, <2>2, FirstThatFit
  <2>4. Guessed' \subseteq Guessed \cup W /\ Guessed \subseteq Cand /\ Guessed' \subseteq Cand
    <3>1. Target' = {}
      BY <1>2, <1>4 DEF Target, Range
    <3> HIDE DEF W
    <3> QED BY <1>4, <1>12, <2>1, <3>1 DEF Guessed
  <2> HIDE DEF W
  <2>5. IsFiniteSet(Guessed) /\ Cardinality(Guessed) \in Nat /\ Cardinality(Guessed) <= others
    BY <2>4, CandFinite, FS_Subset, FS_CardinalityType DEF AskInv, Slots
  <2>6. /\ IsFiniteSet(Guessed \cup W) /\ Cardinality(Guessed \cap W) \in Nat
        /\ Cardinality(Guessed \cup W) = Cardinality(Guessed) + Cardinality(W) - Cardinality(Guessed \cap W)
    BY <2>3, <2>5, FS_Union, FS_Intersection, FS_CardinalityType
  <2>7. Cardinality(Guessed') <= Cardinality(Guessed \cup W) /\ Cardinality(Guessed') \in Nat
    BY <2>4, <2>6, FS_Subset, FS_CardinalityType
  <2>8. others' = others + Cardinality(W)
    BY <1>10, <2>1
  <2>9. Cardinality(Guessed') <= others'
    BY <1>3, <2>3, <2>5, <2>6, <2>7, <2>8
  <2>10. others' = 0 \/ others' < MaxRecall
    <3>1. CASE W = {}
      <4>1. others' = others
        BY <1>3, <2>8, <3>1, FS_EmptySet
      <4> QED BY <4>1 DEF AskInv, Slots
    <3>2. CASE W # {}
      BY <1>3, <2>2, <2>3, <2>8, <3>2
    <3> QED BY <3>1, <3>2
  <2> QED BY <2>9, <2>10 DEF Slots
<1>20. Steady'
  <2>1. Synth \in Call /\ Synth # k /\ Synth \notin launch
    BY <1>3, <1>7, <1>11, CallShape DEF launch
  <2>2. (Made(Synth))' <=> Made(Synth)
    BY <1>9, <2>1 DEF Made, IsIn
  <2> QED BY <1>2, <1>4, <2>2 DEF AskInv, Steady, Ended
<1>21. Accounted'
  <2> SUFFICES ASSUME pc = "probe" PROVE cost' = (Billed({Batch}))'
    BY <1>2, <1>4 DEF Accounted, Ended
  <2>1. cost = Billed({Batch})
    BY DEF AskInv, Accounted
  <2>2. CASE k = Batch
    <3>1. Billed({Batch}) = 0
      BY <1>2, <2>2, BilledNothing DEF IsIn
    <3>2. call'[Batch].st = "ok" /\ call'[Batch].tries = call[k].tries + 1 /\ call[k].tries + 1 \in 0..2
      BY <1>3, <1>9, <2>2
    <3>3. (Billed({Batch}))' = call'[Batch].tries
      BY <3>2, BilledOne
    <3> QED BY <1>2, <1>3, <2>1, <2>2, <3>1, <3>2, <3>3
  <2>3. CASE k # Batch
    <3>1. call'[Batch] = call[Batch] \/ (call[Batch].st # "ok" /\ call'[Batch].st # "ok")
      <4>1. Batch \in launch => call[Batch].st # "ok" /\ call'[Batch].st # "ok"
        BY <1>8, <1>9 DEF Made, IsIn, Flying
      <4> QED BY <1>9, <2>3, <4>1, CallShape
    <3>2. (Billed({Batch}))' = Billed({Batch})
      BY <3>1, BilledSame
    <3> QED BY <1>2, <2>1, <2>3, <3>2
  <2> QED BY <2>2, <2>3
<1> QED BY <1>15, <1>16, <1>17, <1>18, <1>19, <1>20, <1>21 DEF AskInv

\* The jobs of the cut, or the next of them, are launched.
LEMMA LaunchKeeps ==
  ASSUME AskInv, pc \in {"probe", "recall"}, \A k \in ProbeCalls : IsIn(k, "ok"),
         pc' = "recall", \E J \in SUBSET Target' : call' = LaunchJobs(J),
         Target \subseteq Target', targets' \in Seq(Cand), at' \in Nat \ {0},
         (Abstract!LegalRecall(verdict, targets))', cost' = Billed(ProbeSet),
         UNCHANGED <<mode, probed, snaps, verdict, entries, others, discarded, blame>>
  PROVE  AskInv'
<1>1. PICK J \in SUBSET Target' : call' = LaunchJobs(J)
  OBVIOUS
<1>2. Target' \subseteq Cand
  BY RangeSmall DEF Target
<1>3. \A k \in Call : call'[k] = IF k \in Recalls(J) /\ IsIn(k, "idle") THEN Flying ELSE call[k]
  BY <1>1 DEF LaunchJobs, Recalls
<1>4. \A k \in Call : k \notin Recalls(J) => call'[k] = call[k]
  BY <1>3
<1>5. ProbeSet \subseteq Call /\ Synth \in Call /\ Synth \notin Recalls(J)
      /\ \A k \in ProbeSet : k \notin Recalls(J)
  BY <1>2, CallShape DEF Recalls
<1>6. TypeOK /\ snaps \in SUBSET Cand /\ ProbeCalls \subseteq ProbeSet
  BY SnapsKnown, ProbeCallsKnown DEF AskInv, Typed
<1>7. Typed'
  <2>1. call' \in [Call -> CallState]
    <3>1. \A k \in Call : call'[k] \in CallState
      BY <1>3, <1>6 DEF TypeOK, CallState, Flying
    <3>2. call' = [k \in Call |-> call'[k]]
      BY <1>1 DEF LaunchJobs
    <3> QED BY <3>1, <3>2
  <2>2. cost' \in Nat
    BY <1>5, BilledNat
  <2>3. \A k \in Call : /\ (IsIn(k, "flying"))' => call'[k].tries \in 0..1
                        /\ (IsIn(k, "idle"))' => call'[k] = Idle
    BY <1>3 DEF AskInv, Typed, IsIn, Flying
  <2> QED BY <1>6, <2>1, <2>2, <2>3 DEF Typed, TypeOK
<1>8. Early'
  BY DEF Early, Ended
<1>9. ProbesKnown'
  <2>1. ProbeCalls' = ProbeCalls /\ \A c \in Cand : (AskedBy(c))' = AskedBy(c)
    BY SameSwitches
  <2>2. \A k \in ProbeSet : call'[k] = call[k]
    BY <1>4, <1>5
  <2>3. \A c \in Cand : AskedBy(c) \in ProbeSet
    BY CallShape DEF AskedBy
  <2>4. (Heard(verdict))' = Heard(verdict) /\ Heard(verdict) \subseteq Cand
    BY DEF Heard
  <2>5. \A k \in ProbeSet \ ProbeCalls : ~(Made(k))'
    BY <2>2 DEF AskInv, ProbesKnown, Made, IsIn
  <2>6. \A k \in ProbeCalls : (IsIn(k, "ok"))'
    BY <1>6, <2>2 DEF IsIn
  <2>7. \A c \in Heard(verdict) : (IsIn(AskedBy(c), "ok"))'
    <3>1. \A c \in Heard(verdict) : call[AskedBy(c)].st = "ok" /\ call'[AskedBy(c)] = call[AskedBy(c)]
      BY <2>2, <2>3, <2>4 DEF AskInv, ProbesKnown, IsIn
    <3>2. \A c \in Cand : (IsIn(AskedBy(c), "ok"))' <=> call'[AskedBy(c)].st = "ok"
      BY <2>1 DEF IsIn
    <3> QED BY <2>4, <3>1, <3>2
  <2> QED BY <2>1, <2>4, <2>5, <2>6, <2>7 DEF ProbesKnown
<1>10. \A c \in Cand : (Made(RecallOf(c)))' => Made(RecallOf(c)) \/ c \in Target'
  BY <1>1, <1>2, <1>4, CallShape DEF Made, IsIn, Recalls
<1>11. RecallsKnown'
  <2>1. \A c \in Cand : (Made(RecallOf(c)))'
           => c \in Target' \/ (c \in entries /\ c \in (Heard(verdict))')
    BY <1>10 DEF AskInv, RecallsKnown, Heard
  <2> QED BY <2>1 DEF AskInv, RecallsKnown
<1>12. Slots'
  <2>1. Guessed' \subseteq Guessed /\ Guessed \subseteq Cand
    BY <1>10 DEF Guessed
  <2>2. IsFiniteSet(Guessed) /\ Cardinality(Guessed) \in Nat
    BY <2>1, CandFinite, FS_Subset, FS_CardinalityType
  <2>3. Cardinality(Guessed') <= Cardinality(Guessed) /\ Cardinality(Guessed') \in Nat
    BY <2>1, <2>2, FS_Subset, FS_CardinalityType
  <2> QED BY <1>6, <2>2, <2>3 DEF AskInv, Slots, TypeOK
<1>13. Steady'
  <2>1. ~(Made(Synth))'
    BY <1>4, <1>5 DEF AskInv, Steady, Made, IsIn, Ended
  <2> QED BY <2>1 DEF Steady, Ended
<1>14. Accounted'
  <2>1. (Billed(ProbeSet))' = Billed(ProbeSet)
    BY <1>4, <1>5, BilledSame
  <2> QED BY <2>1 DEF Accounted, Ended
<1> QED BY <1>7, <1>8, <1>9, <1>11, <1>12, <1>13, <1>14 DEF AskInv

\* A serial run starts with the first job of the cut, if there is one.
LEMMA FirstPart ==
  ASSUME NEW s \in Seq(Cand)
  PROVE  Range(SubSeq(s, 1, IF s = <<>> THEN 0 ELSE 1)) \subseteq Range(s)
<1> DEFINE n == IF s = <<>> THEN 0 ELSE 1
           first == SubSeq(s, 1, n)
<1>1. Len(s) \in Nat /\ DOMAIN s = 1..Len(s) /\ n \in Nat /\ n <= Len(s)
  OBVIOUS
<1> HIDE DEF n
<1>2. first \in Seq(Cand) /\ Len(first) = n /\ \A i \in 1..n : first[i] = s[i]
  BY <1>1
<1>3. DOMAIN first = 1..n
  BY <1>1, <1>2
<1> HIDE DEF first
<1>4. \A i \in DOMAIN first : i \in DOMAIN s /\ first[i] = s[i]
  BY <1>1, <1>2, <1>3
<1>5. Range(first) \subseteq Range(s)
  BY <1>4 DEF Range
<1> QED BY <1>5 DEF first, n

LEMMA SelectRecallsKeeps ==
  ASSUME AskInv, SelectRecalls
  PROVE  AskInv'
<1>1. /\ pc = "probe" /\ \A k \in ProbeCalls : IsIn(k, "ok")
      /\ cost' = cost + Billed(ProbeCalls \ {Batch})
      /\ targets' = RecallCut /\ at' = 1 /\ pc' = "recall"
      /\ UNCHANGED <<mode, probed, snaps, verdict, entries, others, discarded, blame>>
  BY DEF SelectRecalls, Probing
<1>2. TypeOK /\ snaps \in SUBSET Cand /\ ProbeCalls \subseteq ProbeSet /\ ProbeSet \subseteq Call
      /\ verdict \in [Cand -> Verdicts \cup {NoVerdict}]
  BY SnapsKnown, ProbeCallsKnown, CallShape DEF AskInv, Typed, TypeOK
<1>3. RecallCut \in Seq(Cand) /\ Abstract!LegalRecall(verdict, RecallCut)
  BY <1>2, CutIsLegal
<1>4. (Abstract!LegalRecall(verdict, targets))'
  <2>1. (Abstract!LegalRecall(verdict, targets))' <=> Abstract!LegalRecall(verdict, RecallCut)
    BY <1>1 DEF Abstract!LegalRecall, Abstract!Range, Abstract!Qualifying, Abstract!Heard, Abstract!Cand,
           Abstract!Top, Abstract!Outranks
  <2> QED BY <1>3, <2>1
<1>5. \E J \in SUBSET Target' : call' = LaunchJobs(J)
  <2>1. call' = LaunchJobs(IF mode.par THEN Range(targets')
                           ELSE Range(SubSeq(targets', 1, IF targets' = <<>> THEN 0 ELSE 1)))
    BY DEF SelectRecalls
  <2>2. Range(SubSeq(targets', 1, IF targets' = <<>> THEN 0 ELSE 1)) \subseteq Range(targets')
    BY <1>1, <1>3, FirstPart
  <2> QED BY <2>1, <2>2 DEF Target
<1>6. Target \subseteq Target'
  <2>1. targets = <<>>
    BY <1>1 DEF AskInv, Early
  <2> QED BY <2>1 DEF Target, Range
<1>7. cost' = Billed(ProbeSet)
  <2> DEFINE A == {Batch}
             B == ProbeCalls \ {Batch}
             C == ProbeSet \ (ProbeCalls \cup {Batch})
  <2>1. ProbeSet = (A \cup B) \cup C /\ A \cap B = {} /\ (A \cup B) \cap C = {}
    BY <1>2, CallShape
  <2>2. A \in SUBSET Call /\ B \in SUBSET Call /\ C \in SUBSET Call /\ A \cup B \in SUBSET Call
    BY <1>2, CallShape
  <2>3. \A k \in C : ~IsIn(k, "ok")
    BY DEF AskInv, ProbesKnown, Made, IsIn
  <2>4. Billed(C) = 0
    BY <2>3, BilledNothing
  <2>5. cost = Billed(A)
    BY <1>1 DEF AskInv, Accounted
  <2>6. Billed(A) \in Nat /\ Billed(B) \in Nat
    BY <2>2, BilledNat
  <2> HIDE DEF A, B, C
  <2>7. Billed(A \cup B) = Billed(A) + Billed(B)
    BY <2>1, <2>2, BilledAdds
  <2>8. Billed((A \cup B) \cup C) = Billed(A \cup B) + Billed(C)
    BY <2>1, <2>2, BilledAdds
  <2>9. cost' = cost + Billed(B)
    BY <1>1 DEF B
  <2> QED BY <2>1, <2>4, <2>5, <2>6, <2>7, <2>8, <2>9
<1> QED BY <1>1, <1>3, <1>4, <1>5, <1>6, <1>7, LaunchKeeps

LEMMA NextRecallKeeps ==
  ASSUME AskInv, NextRecall
  PROVE  AskInv'
<1>1. /\ pc = "recall" /\ at <= Len(targets) /\ at' = at + 1
      /\ call' = LaunchJobs(IF at < Len(targets) THEN {targets[at + 1]} ELSE {})
      /\ UNCHANGED <<mode, pc, probed, snaps, verdict, entries, others, targets, cost, discarded, blame>>
  BY DEF NextRecall
<1>2. at \in Nat /\ at # 0 /\ targets \in Seq(Cand)
  BY <1>1 DEF AskInv, Typed, TypeOK, Early
<1>3. \A k \in ProbeCalls : IsIn(k, "ok")
  BY <1>2 DEF AskInv, ProbesKnown
<1>4. Target' = Target
  BY <1>1 DEF Target
<1>5. \E J \in SUBSET Target' : call' = LaunchJobs(J)
  <2>1. (IF at < Len(targets) THEN {targets[at + 1]} ELSE {}) \subseteq Target
    BY <1>2 DEF Target, Range
  <2> QED BY <1>1, <1>4, <2>1
<1>6. (Abstract!LegalRecall(verdict, targets))'
  BY <1>1, <1>2, LegalStays DEF AskInv, RecallsKnown
<1>7. cost' = Billed(ProbeSet)
  BY <1>1 DEF AskInv, Accounted
<1>8. at' \in Nat \ {0}
  BY <1>1, <1>2
<1> QED BY <1>1, <1>2, <1>3, <1>4, <1>5, <1>6, <1>7, <1>8, LaunchKeeps

\* The calls of ask() in the groups it accounts for them.
LEMMA CostParts ==
  ASSUME NEW T \in SUBSET Cand
  PROVE  /\ Billed(ProbeSet) \in Nat /\ Billed({Synth}) \in Nat
         /\ Billed(Recalls(T)) \in Nat
         /\ Billed(ProbeSet \cup Recalls(T)) = Billed(ProbeSet) + Billed(Recalls(T))
         /\ Billed(Call) = Billed(ProbeSet \cup Recalls(Cand)) + Billed({Synth})
<1> DEFINE P == ProbeSet
           R == Recalls(T)
           PR == ProbeSet \cup Recalls(Cand)
           S == {Synth}
<1>1. P \in SUBSET Call /\ R \in SUBSET Call /\ PR \in SUBSET Call /\ S \in SUBSET Call
  BY CallShape DEF Recalls
<1>2. P \cap R = {} /\ PR \cap S = {} /\ Call = PR \cup S
  BY CallShape DEF Recalls
<1> HIDE DEF P, R, PR, S
<1>3. Billed(P \cup R) = Billed(P) + Billed(R) /\ Billed(PR \cup S) = Billed(PR) + Billed(S)
  BY <1>1, <1>2, BilledAdds
<1>4. Billed(P) \in Nat /\ Billed(R) \in Nat /\ Billed(S) \in Nat
  BY <1>1, BilledNat
<1>5. Billed(Call) = Billed(PR) + Billed(S)
  BY <1>2, <1>3
<1> QED BY <1>3, <1>4, <1>5 DEF P, R, PR, S

LEMMA RecallsSplit ==
  ASSUME NEW A \in SUBSET Cand, NEW B \in SUBSET Cand, A \cap B = {}
  PROVE  Billed(Recalls(A \cup B)) = Billed(Recalls(A)) + Billed(Recalls(B))
<1>1. Recalls(A) \in SUBSET Call /\ Recalls(B) \in SUBSET Call
  BY CallShape DEF Recalls
<1>2. Recalls(A) \cap Recalls(B) = {} /\ Recalls(A \cup B) = Recalls(A) \cup Recalls(B)
  BY CallShape DEF Recalls
<1>3. Billed(Recalls(A) \cup Recalls(B)) = Billed(Recalls(A)) + Billed(Recalls(B))
  BY <1>1, <1>2, BilledAdds
<1> QED BY <1>2, <1>3

LEMMA RecallsDoneKeeps ==
  ASSUME AskInv, RecallsDone
  PROVE  AskInv'
<1>1. /\ pc = "recall" /\ pc' = "discard" /\ \A c \in Target : IsIn(RecallOf(c), "ok")
      /\ cost' = cost + Billed(Recalls(Target))
      /\ UNCHANGED <<mode, probed, snaps, verdict, call, entries, others, targets, at, discarded>>
  BY DEF RecallsDone, Recalls
<1>2. TypeOK /\ Target \in SUBSET Cand /\ Target' = Target
  BY <1>1, SnapsKnown, RangeSmall DEF AskInv, Typed, Target
<1>3. cost = Billed(ProbeSet)
  BY <1>1 DEF AskInv, Accounted
<1>4. cost' = Billed(ProbeSet \cup Recalls(Target)) /\ cost' \in Nat
  BY <1>1, <1>2, <1>3, CostParts
<1>5. Typed'
  BY <1>1, <1>4 DEF AskInv, Typed, TypeOK, IsIn, RecallsDone
<1>6. Early' /\ Steady'
  BY <1>1, <1>2 DEF AskInv, Early, Steady, Ended, Made, IsIn
<1>7. Accounted'
  <2>1. (Billed(ProbeSet \cup Recalls(Target)))' = Billed(ProbeSet \cup Recalls(Target))
    BY <1>1, <1>2, BilledSame DEF Recalls
  <2> QED BY <1>1, <1>4, <2>1 DEF Accounted, Ended
<1> QED BY <1>1, <1>5, <1>6, <1>7, PhaseMoves DEF AskInv

LEMMA SynthDoneKeeps ==
  ASSUME AskInv, SynthDone
  PROVE  AskInv'
<1>1. /\ pc = "synth" /\ pc' = "finalize" /\ IsIn(Synth, "ok")
      /\ cost' = cost + Billed({Synth})
      /\ UNCHANGED <<mode, probed, snaps, verdict, call, entries, others, targets, at, discarded, blame>>
  BY DEF SynthDone
<1>2. TypeOK /\ Target' = Target
  BY <1>1 DEF AskInv, Typed, Target
<1>3. cost = Billed(ProbeSet \cup Recalls(Cand))
  BY <1>1 DEF AskInv, Accounted
<1>4. cost' = Billed(Call) /\ cost' \in Nat
  BY <1>1, <1>3, CostParts, BilledNat
<1>5. Typed'
  BY <1>1, <1>4 DEF AskInv, Typed, TypeOK, IsIn
<1>6. Early' /\ Steady'
  BY <1>1, <1>2 DEF AskInv, Early, Steady, Ended, Made, IsIn
<1>7. Accounted'
  <2>1. (Billed(Call))' = Billed(Call)
    BY <1>1, BilledSame
  <2> QED BY <1>1, <1>4, <2>1 DEF Accounted, Ended
<1> QED BY <1>1, <1>5, <1>6, <1>7, PhaseMoves DEF AskInv

LEMMA FinalizeKeeps ==
  ASSUME AskInv, Finalize
  PROVE  AskInv'
<1>1. /\ pc = "finalize" /\ pc' = "done"
      /\ UNCHANGED <<mode, probed, snaps, verdict, call, entries, others, targets, at, cost, discarded, blame>>
  BY DEF Finalize
<1>2. Target' = Target
  BY <1>1 DEF Target
<1>3. Typed'
  BY <1>1 DEF AskInv, Typed, TypeOK, IsIn
<1>4. Early' /\ Steady'
  BY <1>1, <1>2 DEF AskInv, Early, Steady, Ended, Made, IsIn
<1>5. Accounted'
  <2>1. (Billed(Call))' = Billed(Call)
    BY <1>1, BilledSame
  <2> QED BY <1>1, <2>1 DEF AskInv, Accounted, Ended
<1> QED BY <1>1, <1>3, <1>4, <1>5, PhaseMoves DEF AskInv

LEMMA DiscardPassKeeps ==
  ASSUME AskInv, DiscardPass
  PROVE  AskInv'
<1>1. /\ pc = "discard" /\ \A c \in Unselected : ~IsIn(RecallOf(c), "flying")
      /\ cost' = cost + Billed(Recalls(Unselected))
      /\ discarded' = Cardinality({c \in Unselected : IsIn(RecallOf(c), "ok")})
      /\ UNCHANGED <<mode, probed, snaps, verdict, entries, others, targets, at, blame>>
  BY DEF DiscardPass, Recalls
<1>2. \/ Len(targets) > 1 /\ pc' = "synth" /\ call' = [call EXCEPT ![Synth] = Flying]
      \/ ~(Len(targets) > 1) /\ pc' = "finalize" /\ call' = call
  BY DEF DiscardPass
<1>3. /\ TypeOK /\ call \in [Call -> CallState] /\ Target \in SUBSET Cand /\ Target' = Target
      /\ Unselected \in SUBSET Cand /\ at # 0 /\ ~Made(Synth)
  <2>1. TypeOK /\ Target \in SUBSET Cand /\ entries \in SUBSET Cand
    BY SnapsKnown, RangeSmall DEF AskInv, Typed, Target
  <2> QED BY <1>1, <2>1 DEF AskInv, Early, Steady, Ended, Target, Unselected, TypeOK
<1>4. \A k \in Call \ {Synth} : call'[k] = call[k]
  BY <1>2, <1>3
<1>5. \A c \in Cand : RecallOf(c) \in Call \ {Synth} /\ (c \notin Target \cup Unselected => ~Made(RecallOf(c)))
  BY CallShape DEF AskInv, RecallsKnown, Unselected
<1>6. cost' = Billed(ProbeSet \cup Recalls(Cand))
  <2> DEFINE U == Unselected
             N == Cand \ (Target \cup Unselected)
             A == Target \cup Unselected
  <2>1. /\ Target \cap U = {} /\ Target \cup U = A /\ A \cap N = {} /\ A \cup N = Cand
        /\ N \in SUBSET Cand /\ A \in SUBSET Cand /\ U \in SUBSET Cand
    BY <1>3 DEF Unselected
  <2>2. Billed(Recalls(N)) = 0
    <3>1. \A k \in Recalls(N) : ~IsIn(k, "ok")
      BY <1>5 DEF Recalls, Made, IsIn
    <3> QED BY <3>1, BilledNothing
  <2>3. cost = Billed(ProbeSet \cup Recalls(Target))
    BY <1>1 DEF AskInv, Accounted
  <2> HIDE DEF U, N, A
  <2>4. Billed(Recalls(Target \cup U)) = Billed(Recalls(Target)) + Billed(Recalls(U))
    BY <1>3, <2>1, RecallsSplit
  <2>5. Billed(Recalls(A \cup N)) = Billed(Recalls(A)) + Billed(Recalls(N))
    BY <2>1, RecallsSplit
  <2>6. /\ Billed(ProbeSet) \in Nat /\ Billed(Recalls(Target)) \in Nat /\ Billed(Recalls(U)) \in Nat
        /\ Billed(ProbeSet \cup Recalls(Target)) = Billed(ProbeSet) + Billed(Recalls(Target))
        /\ Billed(ProbeSet \cup Recalls(Cand)) = Billed(ProbeSet) + Billed(Recalls(Cand))
    BY <1>3, <2>1, CostParts
  <2>7. cost' = cost + Billed(Recalls(U))
    BY <1>1 DEF U
  <2>8. Billed(Recalls(Target)) + Billed(Recalls(U)) = Billed(Recalls(A))
    BY <2>1, <2>4
  <2>9. Billed(Recalls(Cand)) = Billed(Recalls(A)) + 0
    BY <2>1, <2>2, <2>5
  <2> QED BY <2>3, <2>6, <2>7, <2>8, <2>9
<1>7. (Billed(ProbeSet \cup Recalls(Cand)))' = Billed(ProbeSet \cup Recalls(Cand))
  <2>1. \A k \in ProbeSet \cup Recalls(Cand) : call'[k] = call[k]
    BY <1>4, CallShape DEF Recalls
  <2> QED BY <2>1, BilledSame DEF Recalls, ProbeSet
<1>8. Typed'
  <2>1. call' \in [Call -> CallState]
    BY <1>2, <1>3 DEF CallState, Flying
  <2>2. cost' \in Nat
    <3>1. ProbeSet \cup Recalls(Cand) \in SUBSET Call
      BY CallShape DEF Recalls
    <3> QED BY <1>6, <3>1, BilledNat
  <2>3. discarded' \in Nat
    BY <1>1, <1>3, CandFinite, FS_Subset, FS_CardinalityType
  <2>4. \A k \in Call : /\ (IsIn(k, "flying"))' => call'[k].tries \in 0..1
                        /\ (IsIn(k, "idle"))' => call'[k] = Idle
    <3>1. call'[Synth] = call[Synth] \/ call'[Synth] = Flying
      BY <1>2, <1>3, CallShape
    <3> QED BY <1>4, <3>1 DEF AskInv, Typed, IsIn, Flying
  <2> QED BY <1>1, <1>2, <1>3, <2>1, <2>2, <2>3, <2>4 DEF Typed, TypeOK
<1>9. Early'
  BY <1>1, <1>2, <1>3 DEF Early, Ended
<1>10. Steady'
  <2>1. \A c \in Target : (IsIn(RecallOf(c), "ok"))'
    BY <1>1, <1>3, <1>4, <1>5 DEF AskInv, Steady, IsIn
  <2>2. \A c \in Cand : ~(IsIn(RecallOf(c), "flying"))'
    BY <1>1, <1>3, <1>4, <1>5 DEF AskInv, Steady, IsIn, Made
  <2>3. pc' = "finalize" => ~(IsIn(Synth, "flying"))'
    BY <1>2, <1>3 DEF IsIn, Made
  <2> QED BY <1>1, <1>2, <1>3, <2>1, <2>2, <2>3 DEF Steady, Ended
<1>11. Accounted'
  <2>1. CASE pc' = "synth"
    BY <1>6, <1>7, <2>1 DEF Accounted, Ended
  <2>2. CASE pc' = "finalize"
    <3>1. call' = call /\ ~IsIn(Synth, "ok")
      BY <1>2, <1>3, <2>2 DEF Made, IsIn
    <3>2. Billed({Synth}) = 0
      BY <3>1, BilledNothing
    <3>3. Billed(Call) = Billed(ProbeSet \cup Recalls(Cand)) /\ Billed(Call) \in Nat
      <4>1. ProbeSet \cup Recalls(Cand) \in SUBSET Call
        BY CallShape DEF Recalls
      <4>2. Billed(ProbeSet \cup Recalls(Cand)) \in Nat
        BY <4>1, BilledNat
      <4>3. Billed(Call) = Billed(ProbeSet \cup Recalls(Cand)) + Billed({Synth})
        BY <1>3, CostParts
      <4> QED BY <3>2, <4>2, <4>3
    <3>4. (Billed(Call))' = Billed(Call)
      BY <3>1, BilledSame
    <3> QED BY <1>6, <2>2, <3>3, <3>4 DEF Accounted, Ended
  <2> QED BY <1>2, <2>1, <2>2
<1> QED BY <1>1, <1>4, <1>8, <1>9, <1>10, <1>11, PhaseMoves DEF AskInv

\* A verdict comes from a probe that was launched, for candidates it was to ask.
LEMMA VerdictIsAskedFor ==
  ASSUME AskInv, ProbeAnswers \/ BatchAnswers
  PROVE  \E k \in ProbeCalls : \E D \in SUBSET snaps : (\A c \in D : AskedBy(c) = k) /\ Verdict(k, D)
<1>1. snaps \in SUBSET Cand
  BY SnapsKnown DEF AskInv, Typed
<1>2. CASE ProbeAnswers
  <2>1. PICK c \in Cand : Verdict(ProbeOf(c), {c})
    BY <1>2 DEF ProbeAnswers
  <2>2. ProbeOf(c) \in ProbeCalls
    <3>1. Made(ProbeOf(c))
      BY <2>1 DEF Verdict, Made, IsIn
    <3> QED BY <3>1, CallShape DEF AskInv, ProbesKnown
  <2>3. c \in snaps /\ AskedBy(c) = ProbeOf(c)
    BY <1>1, <2>2, CallShape DEF ProbeCalls, AskedBy
  <2> QED BY <2>1, <2>2, <2>3
<1>3. CASE BatchAnswers
  <2>1. Verdict(Batch, Rest)
    BY <1>3 DEF BatchAnswers
  <2>2. Batch \in ProbeCalls
    <3>1. Made(Batch)
      BY <2>1 DEF Verdict, Made, IsIn
    <3> QED BY <3>1, CallShape DEF AskInv, ProbesKnown
  <2>3. Rest \subseteq snaps /\ \A c \in Rest : AskedBy(c) = Batch
    BY <1>1, <2>2, CallShape DEF ProbeCalls, AskedBy, Rest
  <2> QED BY <2>1, <2>2, <2>3
<1> QED BY <1>2, <1>3

LEMMA OtherReplyKeeps ==
  ASSUME AskInv, OtherAnswers \/ InvalidReply \/ CallFails
  PROVE  AskInv'
<1>1. /\ call \in [Call -> CallState]
      /\ \A k \in Call : IsIn(k, "flying") => call[k].tries \in 0..1 /\ call[k].st = "flying"
  BY DEF AskInv, Typed, TypeOK, IsIn
<1>2. CASE OtherAnswers
  <2>1. PICK k \in ({"recall"} \X Cand) \cup {Synth} :
               /\ IsIn(k, "flying")
               /\ call' = [call EXCEPT ![k] = [st |-> "ok", tries |-> @.tries + 1]]
    BY <1>2 DEF OtherAnswers
  <2>2. k \in Call /\ k \notin ProbeSet
    BY DEF Call, ProbeSet, ProbeOf, Batch, Synth
  <2> DEFINE n == call[k].tries + 1
             s == [st |-> "ok", tries |-> n]
  <2>3. n \in 0..2
    BY <1>1, <2>1, <2>2
  <2>4. call' = [call EXCEPT ![k] = s]
    BY <1>1, <2>1, <2>2
  <2> HIDE DEF n
  <2>5. s \in CallState
    BY <2>3 DEF CallState
  <2> QED BY <1>2, <2>1, <2>2, <2>4, <2>5, CallMoves DEF OtherAnswers
<1>3. CASE InvalidReply
  <2>1. PICK k \in Call : IsIn(k, "flying") /\ call' = [call EXCEPT ![k].tries = 1]
    BY <1>3 DEF InvalidReply
  <2> DEFINE s == [st |-> "flying", tries |-> 1]
  <2>2. call' = [call EXCEPT ![k] = s]
    <3>1. [call[k] EXCEPT !.tries = 1] = s
      BY <1>1, <2>1 DEF CallState
    <3>2. call' = [call EXCEPT ![k] = [call[k] EXCEPT !.tries = 1]]
      BY <2>1
    <3> QED BY <3>1, <3>2
  <2>3. s \in CallState /\ s.st = "flying" /\ s.tries \in 0..1
    BY DEF CallState
  <2> QED BY <1>3, <2>1, <2>2, <2>3, CallMoves DEF InvalidReply
<1>4. CASE CallFails
  <2>1. PICK k \in Call :
          /\ IsIn(k, "flying")
          /\ \/ call' = [call EXCEPT ![k].st = "failed"]
             \/ call' = [call EXCEPT ![k] = [st |-> "failed", tries |-> 2]]
    BY <1>4 DEF CallFails
  <2>2. \E n \in 0..2 : call' = [call EXCEPT ![k] = [st |-> "failed", tries |-> n]]
    <3>1. CASE call' = [call EXCEPT ![k].st = "failed"]
      <4>1. [call[k] EXCEPT !.st = "failed"] = [st |-> "failed", tries |-> call[k].tries]
        BY <1>1 DEF CallState
      <4>2. call' = [call EXCEPT ![k] = [st |-> "failed", tries |-> call[k].tries]]
        BY <1>1, <3>1, <4>1
      <4>3. call[k].tries \in 0..2
        BY <1>1, <2>1
      <4> QED BY <4>2, <4>3
    <3> QED BY <2>1, <3>1
  <2>3. PICK n \in 0..2 : call' = [call EXCEPT ![k] = [st |-> "failed", tries |-> n]]
    BY <2>2
  <2>4. [st |-> "failed", tries |-> n] \in CallState
    BY DEF CallState
  <2> QED BY <1>4, <2>1, <2>3, <2>4, CallMoves DEF CallFails
<1> QED BY <1>2, <1>3, <1>4

-----------------------------------------------------------------------------
\* What the parts of AskInv say holds at every point of every run: what is
\* asked, guessed, awaited and accounted for.
THEOREM AskInvariant == Spec => []AskInv
<1>1. AskInv /\ [Next]_vars => AskInv'
  <2> SUFFICES ASSUME AskInv, [Next]_vars PROVE AskInv'
    OBVIOUS
  <2>1. CASE Route
    BY <2>1, RouteKeeps
  <2>2. CASE StartProbes
    BY <2>2, StartProbesKeeps
  <2>3. CASE SelectRecalls
    BY <2>3, SelectRecallsKeeps
  <2>4. CASE NextRecall
    BY <2>4, NextRecallKeeps
  <2>5. CASE RecallsDone
    BY <2>5, RecallsDoneKeeps
  <2>6. CASE DiscardPass
    BY <2>6, DiscardPassKeeps
  <2>7. CASE SynthDone
    BY <2>7, SynthDoneKeeps
  <2>8. CASE Finalize
    BY <2>8, FinalizeKeeps
  <2>9. CASE Rejects \/ StorageFails
    BY <2>9, FailureKeeps
  <2>10. CASE ProbeAnswers \/ BatchAnswers
    BY <2>10, VerdictIsAskedFor, VerdictKeeps
  <2>11. CASE OtherAnswers \/ InvalidReply \/ CallFails
    BY <2>11, OtherReplyKeeps
  <2>12. CASE UNCHANGED vars
    BY <2>12, StutterKeeps
  <2> QED BY <2>1, <2>2, <2>3, <2>4, <2>5, <2>6, <2>7, <2>8, <2>9, <2>10, <2>11, <2>12
          DEF Next, Answers, Steps
<1> QED BY <1>1, InitInv, PTL DEF Spec

\* A run that succeeds charges its caller once for every attempt of every call
\* that succeeded, whatever it batched, guessed or dropped (ask.ts:269-274,
\* 319-323).
THEOREM CostIsExact == Spec => []CostExact
<1>1. AskInv => CostExact
  BY DEF AskInv, Accounted, Ended, CostExact
<1> QED BY <1>1, AskInvariant, PTL

\* What a run guesses is bounded: fewer than maxRecallShards wasted recalls, none
\* without eager recalls (ask.ts:317-323, 331-334).
LEMMA SpeculationIsBounded == AskInv => SpeculationBounded
<1> SUFFICES ASSUME AskInv PROVE SpeculationBounded
  OBVIOUS
<1> DEFINE made == {c \in Cand : ~IsIn(RecallOf(c), "idle")}
           wasted == IF at = 0 THEN {} ELSE {c \in made : c \notin Target}
<1>1. /\ MaxRecall \in Nat /\ targets \in Seq(Cand) /\ others \in Nat /\ entries \in SUBSET Cand
      /\ IsFiniteSet(Target) /\ Cardinality(Target) <= Len(targets) /\ Target \subseteq Cand
  BY SnapsKnown, RangeSmall, AskBounds DEF AskInv, Typed, TypeOK, Target
<1>2. Len(targets) \in Nat /\ Len(targets) <= MaxRecall /\ (at = 0 => Target = {} /\ Len(targets) = 0)
  <2>1. CASE at = 0
    <3>1. targets = <<>>
      BY <2>1 DEF AskInv, Early
    <3> QED BY <1>1, <3>1 DEF Target, Range
  <2>2. CASE at # 0
    <3>1. Abstract!LegalRecall(verdict, targets)
      BY <2>2 DEF AskInv, RecallsKnown
    <3> QED BY <1>1, <2>2, <3>1, LegalMeans
  <2> QED BY <2>1, <2>2
<1>3. \A c \in made : c \in Target \/ c \in Guessed \/ c = Top
  BY DEF Guessed, Made
<1>4. at # 0 /\ MaxRecall > 0 => (Top \in made => Top \in Target)
  <2> SUFFICES ASSUME at # 0, MaxRecall > 0, Top \in made, Top \notin Target PROVE FALSE
    OBVIOUS
  <2>1. Abstract!LegalRecall(verdict, targets)
    BY DEF AskInv, RecallsKnown
  <2>2. {Top} \cap Heard(verdict) \subseteq Target
    BY <2>1, LegalMeans DEF Target
  <2>3. Top \in Heard(verdict)
    BY DEF AskInv, RecallsKnown, Made
  <2> QED BY <2>2, <2>3
<1>5. MaxRecall = 0 => made = {}
  <2> SUFFICES ASSUME MaxRecall = 0, NEW c \in made PROVE FALSE
    OBVIOUS
  <2>1. entries = {}
    BY DEF AskInv, RecallsKnown
  <2>2. Cardinality(Target) \in Nat
    BY <1>1, FS_CardinalityType
  <2>3. Target = {}
    BY <1>1, <1>2, <2>2, FS_EmptySet
  <2> QED BY <2>1, <2>3 DEF AskInv, RecallsKnown, Made
<1>6. IsFiniteSet(Guessed) /\ Cardinality(Guessed) \in Nat /\ Cardinality(Guessed) <= others
      /\ (others = 0 \/ others < MaxRecall)
  <2>1. Guessed \in SUBSET Cand
    BY DEF Guessed
  <2> QED BY <2>1, CandFinite, FS_Subset, FS_CardinalityType DEF AskInv, Slots
<1>7. MaxRecall > 0 => wasted \subseteq Guessed
  BY <1>3, <1>4
<1>8. MaxRecall > 0 => Cardinality(wasted) < MaxRecall
  <2> SUFFICES ASSUME MaxRecall > 0 PROVE Cardinality(wasted) < MaxRecall
    OBVIOUS
  <2> HIDE DEF wasted
  <2>1. Cardinality(wasted) \in Nat /\ Cardinality(wasted) <= Cardinality(Guessed)
    BY <1>6, <1>7, FS_Subset, FS_CardinalityType
  <2> QED BY <1>1, <1>6, <2>1
<1>9. wasted # {} => mode.eager
  <2> SUFFICES ASSUME NEW c \in wasted PROVE mode.eager
    OBVIOUS
  <2>1. at # 0 /\ c \in made /\ c \notin Target
    OBVIOUS
  <2>2. MaxRecall > 0
    BY <1>1, <1>5, <2>1
  <2>3. c # Top /\ c \in entries
    BY <1>4, <2>1, <2>2 DEF AskInv, RecallsKnown, Made
  <2> QED BY <2>3 DEF AskInv, RecallsKnown
<1>10. MaxRecall > 0 => Cardinality(made) <= 2 * MaxRecall - 1
  <2> SUFFICES ASSUME MaxRecall > 0 PROVE Cardinality(made) <= 2 * MaxRecall - 1
    OBVIOUS
  <2> DEFINE T == IF at = 0 THEN {Top} ELSE Target
  <2>1. IsFiniteSet(T) /\ Cardinality(T) \in Nat /\ Cardinality(T) <= MaxRecall
    <3>1. IsFiniteSet({Top}) /\ Cardinality({Top}) = 1
      BY FS_Singleton
    <3>2. Cardinality(Target) \in Nat
      BY <1>1, FS_CardinalityType
    <3> QED BY <1>1, <1>2, <3>1, <3>2
  <2>2. made \subseteq T \cup Guessed
    BY <1>2, <1>3, <1>4
  <2> HIDE DEF T, made
  <2>3. /\ IsFiniteSet(T \cup Guessed) /\ Cardinality(T \cap Guessed) \in Nat
        /\ Cardinality(T \cup Guessed) = Cardinality(T) + Cardinality(Guessed) - Cardinality(T \cap Guessed)
    BY <1>6, <2>1, FS_Union, FS_Intersection, FS_CardinalityType
  <2>4. Cardinality(made) \in Nat /\ Cardinality(made) <= Cardinality(T \cup Guessed)
        /\ Cardinality(T \cup Guessed) \in Nat
    BY <2>2, <2>3, FS_Subset, FS_CardinalityType
  <2>5. Cardinality(Guessed) <= MaxRecall - 1
    BY <1>1, <1>6
  <2>6. Cardinality(T \cup Guessed) <= Cardinality(T) + Cardinality(Guessed)
    BY <1>6, <2>1, <2>3
  <2>7. Cardinality(made) <= MaxRecall + (MaxRecall - 1)
    BY <1>1, <1>6, <2>1, <2>4, <2>5, <2>6
  <2> QED BY <1>1, <2>4, <2>7
<1> QED BY <1>5, <1>8, <1>9, <1>10 DEF SpeculationBounded

\* A run makes at most 2 * maxRecallShards - 1 recall calls, wastes fewer than
\* maxRecallShards of them, and when it succeeds nothing of it is still running
\* (ask.ts:317-323, 331-334, 363-366).
THEOREM RunsAreBounded == Spec => []RunBounded
<1>1. AskInv => NothingLeftRunning
  <2> SUFFICES ASSUME AskInv, pc = "done", NEW k \in Call PROVE ~IsIn(k, "flying")
    BY DEF NothingLeftRunning
  <2>1. CASE k \in ProbeSet
    <3>1. CASE at = 0
      BY <2>1, <3>1 DEF AskInv, Early, Ended, Made, IsIn
    <3>2. CASE at # 0
      BY <2>1, <3>2 DEF AskInv, ProbesKnown, Made, IsIn
    <3> QED BY <3>1, <3>2
  <2>2. CASE k = Synth
    BY <2>2 DEF AskInv, Steady, Ended
  <2>3. CASE \E c \in Cand : k = RecallOf(c)
    BY <2>3 DEF AskInv, Steady, Ended
  <2> QED BY <2>1, <2>2, <2>3, CallShape
<1>2. AskInv => RunBounded
  BY <1>1, SpeculationIsBounded DEF RunBounded, AskInv, Typed
<1> QED BY <1>2, AskInvariant, PTL

\* The verdicts of a batch or a solo probe start no recall that exists.
LEMMA VerdictRepeatsNothing ==
  ASSUME AskInv, NEW k \in ProbeCalls, NEW D \in SUBSET snaps,
         \A c \in D : AskedBy(c) = k, Verdict(k, D), NEW j \in Call, Settled(j)
  PROVE  call'[j] = call[j] /\ at = 0
<1>1. PICK v \in [D -> Verdicts] :
         call' = [i \in Call |->
           CASE i = k -> [st |-> "ok", tries |-> call[k].tries + 1]
             [] i \in NextProbe \cup {RecallOf(c) : c \in EagerStarts(D, v)} -> Flying
             [] OTHER -> call[i]]
  BY DEF Verdict
<1>2. IsIn(k, "flying") /\ at = 0
  <2>1. IsIn(k, "flying")
    BY DEF Verdict
  <2> QED BY <2>1 DEF AskInv, ProbesKnown, IsIn
<1>3. Target = {}
  BY <1>2 DEF AskInv, Early, Target, Range
<1>4. \A c \in D : ~Made(RecallOf(c))
  <2>1. \A c \in D : c \in Cand /\ ~IsIn(AskedBy(c), "ok")
    BY <1>2, SnapsKnown DEF AskInv, Typed, IsIn
  <2>2. \A c \in D : c \notin Heard(verdict)
    BY <2>1 DEF AskInv, ProbesKnown
  <2> QED BY <1>3, <2>1, <2>2 DEF AskInv, RecallsKnown
<1>5. j # k /\ j \notin {RecallOf(c) : c \in EagerStarts(D, v)}
  BY <1>2, <1>4 DEF Settled, IsIn, Made, EagerStarts
<1>6. j \notin NextProbe
  BY DEF NextProbe, Lowest, Settled, IsIn
<1> QED BY <1>1, <1>2, <1>5, <1>6

\* A call that was answered or failed is never made again: a recall job takes
\* over the eager call of its shard (ask.ts:363-366).
THEOREM CallsAreMadeOnce == Spec => CallsNeverRepeat
<1>1. AskInv /\ [Next]_vars => [\A k \in Call : Settled(k) => call'[k] = call[k]]_vars
  <2> SUFFICES ASSUME AskInv, Next, NEW k \in Call, Settled(k) PROVE call'[k] = call[k]
    OBVIOUS
  <2>1. call[k].st # "idle" /\ call[k].st # "flying" /\ Made(k)
    BY DEF Settled, Made, IsIn
  <2>2. call \in [Call -> CallState]
    BY DEF AskInv, Typed, TypeOK
  <2>3. CASE StartProbes
    BY <2>1, <2>3 DEF StartProbes, AskInv, Early
  <2>4. CASE ProbeAnswers \/ BatchAnswers
    BY <2>4, VerdictIsAskedFor, VerdictRepeatsNothing
  <2>5. CASE OtherAnswers \/ InvalidReply \/ CallFails
    BY <2>1, <2>2, <2>5 DEF OtherAnswers, InvalidReply, CallFails, IsIn
  <2>6. CASE SelectRecalls \/ NextRecall
    BY <2>1, <2>6 DEF SelectRecalls, NextRecall, LaunchJobs, IsIn
  <2>7. CASE DiscardPass
    <3>1. ~Made(Synth)
      BY <2>7 DEF DiscardPass, AskInv, Steady, Ended
    <3> QED BY <2>1, <2>2, <2>7, <3>1 DEF DiscardPass
  <2>8. CASE Route \/ RecallsDone \/ SynthDone \/ Finalize \/ Rejects \/ StorageFails
    BY <2>8 DEF Route, RecallsDone, SynthDone, Finalize, Rejects, StorageFails
  <2> QED BY <2>3, <2>4, <2>5, <2>6, <2>7, <2>8 DEF Next, Answers, Steps
<1> QED BY <1>1, AskInvariant, PTL DEF Spec, CallsNeverRepeat

-----------------------------------------------------------------------------
(* Whatever the schedule, the caller sees a run of AskSpec.                *)

Stage == CASE pc = "done" -> "answered"
           [] pc = "failed" -> "failed"
           [] pc \notin {"done", "failed"} /\ at = 0 -> "asking"
           [] OTHER -> "probed"
Said == IF at = 0 THEN [c \in Cand |-> NoVerdict] ELSE verdict
Recalled == IF pc = "done" THEN targets ELSE <<>>
Culprit == IF blame = Batch THEN ProbeOf(Top) ELSE blame

LEMMA StageIs ==
  /\ pc = "done" => Stage = "answered"
  /\ pc = "failed" => Stage = "failed"
  /\ pc \notin {"done", "failed"} => Stage = IF at = 0 THEN "asking" ELSE "probed"
  /\ pc' = "done" => Stage' = "answered"
  /\ pc' = "failed" => Stage' = "failed"
BY DEF Stage

\* AskSpec in terms of the run.
LEMMA AbstractMeans ==
  /\ Abstract!AInit <=> /\ Stage = "asking" /\ Said = [c \in Cand |-> NoVerdict]
                        /\ Recalled = <<>> /\ Culprit = NoOne
  /\ Abstract!Probed <=> /\ Stage = "asking" /\ Stage' = "probed"
                         /\ Said' \in [Cand -> Verdicts \cup {NoVerdict}]
                         /\ UNCHANGED <<Recalled, Culprit>>
  /\ Abstract!Answered <=> /\ Stage \in {"asking", "probed"} /\ Stage' = "answered"
                           /\ Recalled' \in Abstract!Orders
                           /\ Abstract!LegalRecall(Said, Recalled')
                           /\ UNCHANGED <<Said, Culprit>>
  /\ Abstract!Failed <=>
       /\ \/ Stage = "asking" /\ \E c \in Cand : Culprit' = ProbeOf(c)
          \/ /\ Stage = "probed"
             /\ \E r \in Abstract!Orders : /\ Abstract!LegalRecall(Said, r)
                                           /\ \E c \in Range(r) : Culprit' = RecallOf(c)
          \/ /\ Stage = "probed"
             /\ \E r \in Abstract!Orders : Abstract!LegalRecall(Said, r) /\ Len(r) > 1
             /\ Culprit' = Synth
          \/ Stage \in {"asking", "probed"} /\ Culprit' = <<"storage", 0>>
       /\ Stage' = "failed"
       /\ UNCHANGED <<Said, Recalled>>
  /\ UNCHANGED Abstract!avars <=> UNCHANGED <<Stage, Said, Recalled, Culprit>>
  /\ Abstract!Orders = UNION {[1..n -> Cand] : n \in 0..MaxRecall}
BY DEF Abstract!AInit, Abstract!Probed, Abstract!Answered, Abstract!Failed, Abstract!ProbeFailed,
       Abstract!RecallFailed, Abstract!SynthFailed, Abstract!StorageFailed, Abstract!avars,
       Abstract!Orders, Abstract!Cand, Abstract!Verdicts, Abstract!NoOne, Abstract!Range,
       Stage, Said, Recalled, Culprit, Cand, Verdicts, NoOne, Range, ProbeOf, RecallOf, Synth, Top, Batch,
       Abstract!Top

\* The jobs of a run are an order that AskSpec allows.
LEMMA TargetsAllowed ==
  ASSUME AskInv, pc # "failed"
  PROVE  targets \in Abstract!Orders /\ Abstract!LegalRecall(Said, targets)
<1>1. Abstract!LegalRecall(Said, targets)
  <2>1. CASE at = 0
    <3>1. targets = <<>> /\ Said = [c \in Cand |-> NoVerdict]
      BY <2>1 DEF AskInv, Early, Said
    <3>2. Heard(Said) = {} /\ Qualifying(Said) = {} /\ Range(<<>>) = {}
      BY <3>1 DEF Heard, Qualifying, Range
    <3>3. Len(<<>>) <= MaxRecall /\ DOMAIN <<>> = {}
      BY AskBounds
    <3> HIDE DEF Said
    <3> QED BY <3>1, <3>2, <3>3, LegalMeans
  <2>2. CASE at # 0
    BY <2>2 DEF AskInv, RecallsKnown, Said
  <2> QED BY <2>1, <2>2
<1>2. targets \in Seq(Cand) /\ Len(targets) <= MaxRecall
  BY <1>1, LegalMeans, SnapsKnown DEF AskInv, Typed
<1>3. targets \in [1..Len(targets) -> Cand] /\ Len(targets) \in 0..MaxRecall
  BY <1>2, AskBounds
<1>4. Abstract!Orders = UNION {[1..n -> Cand] : n \in 0..MaxRecall}
  BY AbstractMeans
<1> QED BY <1>1, <1>3, <1>4

\* Nothing an answer brings is seen before the cut is made.
LEMMA AnswersUnseen ==
  ASSUME AskInv, Answers
  PROVE  UNCHANGED <<Stage, Said, Recalled, Culprit>>
<1>1. CASE ProbeAnswers \/ BatchAnswers
  <2>1. PICK k \in ProbeCalls : \E D \in SUBSET snaps : Verdict(k, D)
    BY <1>1, VerdictIsAskedFor
  <2>2. UNCHANGED <<pc, at, targets, blame>> /\ ~IsIn(k, "ok")
    BY <2>1 DEF Verdict, IsIn
  <2>3. at = 0
    BY <2>2 DEF AskInv, ProbesKnown
  <2> QED BY <2>2, <2>3 DEF Stage, Said, Recalled, Culprit
<1>2. CASE OtherAnswers \/ InvalidReply \/ CallFails
  <2>1. UNCHANGED <<pc, at, targets, blame, verdict>>
    BY <1>2 DEF OtherAnswers, InvalidReply, CallFails
  <2> QED BY <2>1 DEF Stage, Said, Recalled, Culprit
<1> QED BY <1>1, <1>2 DEF Answers

\* A run that fails blames a call that AskSpec would have it make.
LEMMA FailureAllowed ==
  ASSUME AskInv, Rejects \/ StorageFails
  PROVE  Abstract!Failed
<1>1. /\ pc' = "failed" /\ UNCHANGED <<verdict, targets, at>> /\ pc \notin {"done", "failed"}
  BY DEF Rejects, StorageFails, Awaited, Probing
<1>2. /\ Stage' = "failed" /\ UNCHANGED <<Said, Recalled>>
      /\ Stage = IF at = 0 THEN "asking" ELSE "probed"
  <2>1. Said' = Said
    BY <1>1 DEF Said
  <2>2. Recalled' = Recalled
    BY <1>1 DEF Recalled
  <2> QED BY <1>1, <2>1, <2>2, StageIs
<1>3. CASE StorageFails
  <2>1. Culprit' = <<"storage", 0>>
    BY <1>3 DEF StorageFails, Culprit, Batch
  <2> QED BY <1>2, <2>1, AbstractMeans
<1>4. CASE Rejects
  <2>1. PICK k \in Awaited : blame' = k
    BY <1>4 DEF Rejects
  <2>2. Culprit' = IF k = Batch THEN ProbeOf(Top) ELSE k
    BY <2>1 DEF Culprit
  <2>3. snaps \in SUBSET Cand /\ Target \subseteq Cand
    BY SnapsKnown, RangeSmall DEF AskInv, Typed, Target
  <2>4. CASE pc = "probe"
    <3>1. k \in ProbeCalls
      BY <2>1, <2>4 DEF Awaited
    <3>2. k = Batch \/ k \in {ProbeOf(c) : c \in snaps}
      BY <2>3, <3>1, ProbeCallsKnown
    <3>3. \E c \in Cand : Culprit' = ProbeOf(c)
      BY <2>2, <2>3, <3>2, CandFinite, CallShape
    <3>4. Stage = "asking"
      BY <1>2, <2>4 DEF AskInv, Early
    <3> QED BY <1>2, <3>3, <3>4, AbstractMeans
  <2>5. CASE pc = "recall"
    <3>1. \E c \in Target : k = RecallOf(c)
      <4>1. \A i \in DOMAIN targets : targets[i] \in Target
        BY DEF Target, Range
      <4> QED BY <2>1, <2>5, <4>1 DEF Awaited
    <3>2. \E c \in Range(targets) : Culprit' = RecallOf(c)
      BY <2>2, <2>3, <3>1, CallShape DEF Target
    <3>3. Stage = "probed"
      BY <1>2, <2>5 DEF AskInv, Early
    <3> QED BY <1>1, <1>2, <3>2, <3>3, TargetsAllowed, AbstractMeans
  <2>6. CASE pc = "synth"
    <3>1. Culprit' = Synth
      BY <2>1, <2>2, <2>6, CallShape DEF Awaited
    <3>2. Stage = "probed" /\ Len(targets) > 1
      BY <1>2, <2>6 DEF AskInv, Early, Steady
    <3> QED BY <1>1, <1>2, <3>1, <3>2, TargetsAllowed, AbstractMeans
  <2> QED BY <2>1, <2>4, <2>5, <2>6 DEF Awaited
<1> QED BY <1>3, <1>4

\* Batching, guessing and the order of the answers are invisible to the caller:
\* every run of ask() is a run of AskSpec (ask.ts:255-440).
THEOREM ScheduleRefines == Spec => ScheduleInvisible
<1>1. Init => Abstract!AInit
  <2>1. Init => Stage = "asking" /\ Said = [c \in Cand |-> NoVerdict] /\ Recalled = <<>> /\ Culprit = NoOne
    BY DEF Init, Stage, Said, Recalled, Culprit, NoOne, Batch
  <2> QED BY <2>1, AbstractMeans
<1>2. AskInv /\ [Next]_vars => [Abstract!ANext]_(Abstract!avars)
  <2> SUFFICES ASSUME AskInv, [Next]_vars
               PROVE  Abstract!ANext \/ UNCHANGED <<Stage, Said, Recalled, Culprit>>
    BY AbstractMeans
  <2>1. CASE Answers
    BY <2>1, AnswersUnseen
  <2>2. CASE Rejects \/ StorageFails
    BY <2>2, FailureAllowed DEF Abstract!ANext
  <2>3. CASE SelectRecalls
    <3>1. /\ pc = "probe" /\ pc' = "recall" /\ at = 0 /\ at' = 1
          /\ verdict' = verdict /\ blame' = blame
          /\ verdict \in [Cand -> Verdicts \cup {NoVerdict}]
      BY <2>3 DEF SelectRecalls, Probing, AskInv, Early, Typed, TypeOK
    <3>2. Abstract!Probed
      BY <3>1, AbstractMeans DEF Stage, Said, Recalled, Culprit
    <3> QED BY <3>2 DEF Abstract!ANext
  <2>4. CASE Finalize
    <3>1. pc = "finalize" /\ pc' = "done" /\ UNCHANGED <<verdict, at, targets, blame>>
      BY <2>4 DEF Finalize
    <3>2. /\ Stage \in {"asking", "probed"} /\ Stage' = "answered"
          /\ Recalled' = targets /\ UNCHANGED <<Said, Culprit>>
      <4>1. Said' = Said /\ Culprit' = Culprit
        BY <3>1 DEF Said, Culprit
      <4>2. Recalled' = targets
        BY <3>1 DEF Recalled
      <4> QED BY <3>1, <4>1, <4>2, StageIs
    <3>3. Abstract!Answered
      BY <3>1, <3>2, TargetsAllowed, AbstractMeans
    <3> QED BY <3>3 DEF Abstract!ANext
  <2>5. CASE Route \/ StartProbes \/ NextRecall \/ RecallsDone \/ DiscardPass \/ SynthDone
    <3>1. /\ pc \notin {"done", "failed"} /\ pc' \notin {"done", "failed"}
          /\ UNCHANGED <<verdict, targets, blame>> /\ (at' = 0 <=> at = 0)
      <4>1. NextRecall => at # 0 /\ at \in Nat
        BY DEF NextRecall, AskInv, Early, Typed, TypeOK
      <4> QED BY <2>5, <4>1 DEF Route, StartProbes, NextRecall, RecallsDone, DiscardPass, SynthDone
    <3> QED BY <3>1 DEF Stage, Said, Recalled, Culprit
  <2>6. CASE UNCHANGED vars
    BY <2>6 DEF vars, Stage, Said, Recalled, Culprit
  <2> QED BY <2>1, <2>2, <2>3, <2>4, <2>5, <2>6 DEF Next, Steps
<1> QED BY <1>1, <1>2, AskInvariant, PTL DEF Spec, ScheduleInvisible, Abstract!ASpec
=============================================================================
