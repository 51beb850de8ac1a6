-------------------------- MODULE SelectionProofs --------------------------
(***************************************************************************)
(* What the selection kernel guarantees for every finite set of items.     *)
(*                                                                         *)
(* The kernel's sequence is defined through the rank of an item, the       *)
(* number of items ahead of it.  The lemmas show that the tie-broken order *)
(* is strict and total, that ranks are therefore the numbers 0..n-1, each  *)
(* taken once, and that the cut takes the items of rank below it.          *)
(* The sections behind it are about what the stages of a retrieval do with *)
(* such sequences (keep some places, insert behind one, pack a prefix) and *)
(* about functions that are defined by recursion over the length of a      *)
(* sequence; KernelProofs and CallProofs use them.                         *)
(***************************************************************************)
EXTENDS Selection, SequencesExt, FiniteSetTheorems, SequenceTheorems, WellFoundedInduction, TLAPS

\* The items can be compared: integer scores and distinct integer keys.
Comparable(S, sc, key) == /\ IsFiniteSet(S)
                          /\ \A e \in S : sc[e] \in Int /\ key[e] \in Int
                          /\ \A d, e \in S : key[d] = key[e] => d = e

Rank(S, sc, key, e) == Cardinality(Ahead(S, sc, key, e))

\* The order of the kernel is strict and total.
LEMMA OrderStrict ==
  ASSUME NEW S, NEW sc, NEW key, Comparable(S, sc, key)
  PROVE  /\ \A e \in S : ~Before(sc, key, e, e)
         /\ \A d, e \in S : d # e => Before(sc, key, d, e) \/ Before(sc, key, e, d)
         /\ \A c, d, e \in S : Before(sc, key, c, d) /\ Before(sc, key, d, e)
                                 => Before(sc, key, c, e)
BY DEF Comparable, Before

\* An item's rank is below the number of items, and grows along the order.
LEMMA RankGrows ==
  ASSUME NEW S, NEW sc, NEW key, Comparable(S, sc, key)
  PROVE  /\ \A e \in S : Rank(S, sc, key, e) \in 0..(Cardinality(S) - 1)
         /\ \A d, e \in S : Before(sc, key, d, e)
                              => Rank(S, sc, key, d) < Rank(S, sc, key, e)
<1>1. IsFiniteSet(S) /\ Cardinality(S) \in Nat
  BY FS_CardinalityType DEF Comparable
<1>2. ASSUME NEW e \in S
      PROVE  /\ IsFiniteSet(Ahead(S, sc, key, e))
             /\ Rank(S, sc, key, e) \in Nat
             /\ Rank(S, sc, key, e) < Cardinality(S)
  <2>1. Ahead(S, sc, key, e) \in SUBSET S
    BY DEF Ahead
  <2>2. e \notin Ahead(S, sc, key, e)
    BY OrderStrict DEF Ahead
  <2>3. IsFiniteSet(Ahead(S, sc, key, e)) /\ Rank(S, sc, key, e) \in Nat
    BY <1>1, <2>1, FS_Subset, FS_CardinalityType DEF Rank
  <2>4. /\ Rank(S, sc, key, e) <= Cardinality(S)
        /\ Rank(S, sc, key, e) = Cardinality(S) => Ahead(S, sc, key, e) = S
    BY <1>1, <2>1, FS_Subset DEF Rank
  <2> QED BY <1>1, <2>2, <2>3, <2>4
<1>3. ASSUME NEW d \in S, NEW e \in S, Before(sc, key, d, e)
      PROVE  Rank(S, sc, key, d) < Rank(S, sc, key, e)
  <2>1. Ahead(S, sc, key, d) \in SUBSET Ahead(S, sc, key, e)
    BY <1>3, OrderStrict DEF Ahead
  <2>2. d \in Ahead(S, sc, key, e) /\ d \notin Ahead(S, sc, key, d)
    BY <1>3, OrderStrict DEF Ahead
  <2>3. /\ Rank(S, sc, key, d) <= Rank(S, sc, key, e)
        /\ Rank(S, sc, key, d) = Rank(S, sc, key, e)
             => Ahead(S, sc, key, d) = Ahead(S, sc, key, e)
    BY <1>2, <2>1, FS_Subset DEF Rank
  <2> QED BY <1>2, <2>2, <2>3
<1> QED BY <1>1, <1>2, <1>3

\* Every rank below the number of items is taken.
LEMMA RankOnto ==
  ASSUME NEW S, NEW sc, NEW key, Comparable(S, sc, key),
         NEW k \in 0..(Cardinality(S) - 1)
  PROVE  \E e \in S : Rank(S, sc, key, e) = k
<1> DEFINE n == Cardinality(S)
           rank == [e \in S |-> Rank(S, sc, key, e)]
<1>1. IsFiniteSet(S) /\ n \in Nat
  BY FS_CardinalityType DEF Comparable
<1>2. IsFiniteSet(0..(n - 1)) /\ Cardinality(0..(n - 1)) = n
  BY <1>1, FS_Interval
<1>3. rank \in [S -> 0..(n - 1)]
  BY RankGrows
<1>4. \A d, e \in S : rank[d] = rank[e] => d = e
  <2> SUFFICES ASSUME NEW d \in S, NEW e \in S, d # e PROVE rank[d] # rank[e]
    OBVIOUS
  <2>1. Before(sc, key, d, e) \/ Before(sc, key, e, d)
    BY OrderStrict
  <2>2. Rank(S, sc, key, d) \in Int /\ Rank(S, sc, key, e) \in Int
    BY RankGrows
  <2> QED BY <2>1, <2>2, RankGrows
<1>5. rank \in Injection(S, 0..(n - 1))
  BY <1>3, <1>4 DEF Injection, IsInjective
<1>6. rank \in Surjection(S, 0..(n - 1))
  BY <1>1, <1>2, <1>5, FS_Injection
<1> QED BY <1>6 DEF Surjection

\* The ranked sequence holds, at each place, the item of that rank.
LEMMA RankedByRank ==
  ASSUME NEW S, NEW sc, NEW key, Comparable(S, sc, key),
         NEW i \in 1..Cardinality(S)
  PROVE  /\ Ranked(S, sc, key)[i] \in S
         /\ Rank(S, sc, key, Ranked(S, sc, key)[i]) = i - 1
<1>1. Cardinality(S) \in Nat
  BY FS_CardinalityType DEF Comparable
<1>2. i - 1 \in 0..(Cardinality(S) - 1)
  BY <1>1
<1>3. \E e \in S : Rank(S, sc, key, e) = i - 1
  BY <1>2, RankOnto
<1>4. \E e \in S : Cardinality(Ahead(S, sc, key, e)) = i - 1
  BY <1>3 DEF Rank
<1> QED BY <1>4 DEF Ranked, Rank

\* Ranks order the scores.
LEMMA RankOrdersScores ==
  ASSUME NEW S, NEW sc, NEW key, Comparable(S, sc, key),
         NEW d \in S, NEW e \in S, Rank(S, sc, key, d) <= Rank(S, sc, key, e)
  PROVE  sc[d] >= sc[e]
<1>1. Rank(S, sc, key, d) \in Int /\ Rank(S, sc, key, e) \in Int
  BY RankGrows
<1>2. ~Before(sc, key, e, d)
  BY <1>1, RankGrows
<1> QED BY <1>2 DEF Before, Comparable

\* The cut returns as many items as fit, and they are those of lowest rank.
LEMMA CutTakesBest ==
  ASSUME NEW S, NEW sc, NEW key, Comparable(S, sc, key), NEW limit \in Nat
  PROVE  LET sel == Selected(S, sc, key, limit)
             cut == Cut(S, limit)
         IN /\ cut \in Nat /\ cut <= limit /\ cut <= Cardinality(S)
            /\ sel \in Seq(S) /\ Len(sel) = cut
            /\ {sel[i] : i \in DOMAIN sel} = {e \in S : Rank(S, sc, key, e) < cut}
<1> DEFINE n == Cardinality(S)
           r == Ranked(S, sc, key)
           cut == Cut(S, limit)
           sel == Selected(S, sc, key, limit)
<1>1. n \in Nat /\ cut \in Nat /\ cut <= n /\ cut <= limit
  BY FS_CardinalityType DEF Comparable, Cut
<1>2. r \in [1..n -> S]
  BY RankedByRank DEF Ranked
<1>3. r \in Seq(S) /\ Len(r) = n
  BY <1>1, <1>2
<1>4. sel = [i \in 1..cut |-> r[i]] /\ sel \in Seq(S) /\ Len(sel) = cut
  BY <1>1, <1>2, <1>3 DEF Selected
<1>5. DOMAIN sel = 1..cut /\ \A i \in 1..cut : sel[i] = r[i]
  BY <1>4
<1>6. ASSUME NEW i \in 1..cut PROVE sel[i] \in S /\ Rank(S, sc, key, sel[i]) < cut
  BY <1>1, <1>5, RankedByRank
<1>7. ASSUME NEW e \in S, Rank(S, sc, key, e) < cut
      PROVE  \E i \in 1..cut : sel[i] = e
  <2> DEFINE i == Rank(S, sc, key, e) + 1
  <2>1. Rank(S, sc, key, e) \in 0..(n - 1)
    BY RankGrows
  <2>2. i \in 1..cut /\ i \in 1..n
    BY <1>1, <1>7, <2>1
  <2>3. r[i] \in S /\ Rank(S, sc, key, r[i]) = i - 1
    BY <2>2, RankedByRank
  <2>4. Rank(S, sc, key, r[i]) = Rank(S, sc, key, e)
    BY <2>1, <2>3
  <2>5. ~Before(sc, key, r[i], e) /\ ~Before(sc, key, e, r[i])
    <3>1. Rank(S, sc, key, e) \in Int
      BY <2>1
    <3> QED BY <2>3, <2>4, <3>1, RankGrows
  <2>6. r[i] = e
    BY <2>3, <2>5, OrderStrict
  <2> QED BY <1>5, <2>2, <2>6
<1>8. {sel[i] : i \in DOMAIN sel} = {e \in S : Rank(S, sc, key, e) < cut}
  BY <1>5, <1>6, <1>7
<1> QED BY <1>1, <1>4, <1>8

\* The report is exact: "discriminated" if and only if there is a selection
\* and some signal, and every selected item scores above every other.
LEMMA ReportExact ==
  ASSUME NEW S, NEW sc, NEW key, Comparable(S, sc, key), NEW limit \in Nat \ {0}
  PROVE  LET T == {e \in S : Rank(S, sc, key, e) < Cut(S, limit)}
         IN Discriminated(S, sc, key, limit)
              <=> /\ T # {}
                  /\ \E e \in S : sc[e] > 0
                  /\ \A x \in T, y \in S \ T : sc[x] > sc[y]
<1> DEFINE n == Cardinality(S)
           r == Ranked(S, sc, key)
           cut == Cut(S, limit)
           T == {e \in S : Rank(S, sc, key, e) < cut}
<1>1. n \in Nat /\ cut \in Nat /\ cut <= n
  BY FS_CardinalityType DEF Comparable, Cut
<1>2. IsFiniteSet(S) /\ \A e \in S : sc[e] \in Int
  BY DEF Comparable
<1>3. \A e \in S : Rank(S, sc, key, e) \in 0..(n - 1)
  BY RankGrows
<1>4. ASSUME S # {} PROVE T # {} /\ cut > 0
  <2>1. n > 0
    BY <1>1, <1>2, <1>4, FS_EmptySet
  <2>2. cut > 0
    BY <1>1, <2>1 DEF Cut
  <2>3. 0 \in 0..(n - 1)
    BY <1>1, <2>1
  <2>4. PICK e \in S : Rank(S, sc, key, e) = 0
    BY <2>3, RankOnto
  <2> QED BY <2>2, <2>4
<1>5. ASSUME cut < n, S # {}
      PROVE  /\ r[cut] \in T /\ r[cut + 1] \in S \ T
             /\ Rank(S, sc, key, r[cut]) = cut - 1
             /\ Rank(S, sc, key, r[cut + 1]) = cut
  <2>1. cut \in 1..n /\ cut + 1 \in 1..n
    BY <1>1, <1>4, <1>5
  <2>2. /\ r[cut] \in S /\ Rank(S, sc, key, r[cut]) = cut - 1
        /\ r[cut + 1] \in S /\ Rank(S, sc, key, r[cut + 1]) = (cut + 1) - 1
    BY <2>1, RankedByRank
  <2> QED BY <1>1, <2>2
<1>6. ASSUME Discriminated(S, sc, key, limit), NEW x \in T, NEW y \in S \ T
      PROVE  sc[x] > sc[y]
  <2>1. cut <= Rank(S, sc, key, y) /\ Rank(S, sc, key, x) < cut
    BY <1>1, <1>3
  <2>2. cut < n /\ S # {}
    BY <1>1, <1>3, <2>1
  <2>3. sc[r[cut]] # sc[r[cut + 1]]
    BY <1>6, <2>2 DEF Discriminated, TiesAtCut
  <2>4. sc[r[cut]] >= sc[r[cut + 1]]
    BY <1>1, <1>5, <2>2, RankOrdersScores
  <2>5. sc[x] >= sc[r[cut]]
    BY <1>1, <1>3, <1>5, <2>1, <2>2, RankOrdersScores
  <2>6. sc[r[cut + 1]] >= sc[y]
    BY <1>1, <1>3, <1>5, <2>1, <2>2, RankOrdersScores
  <2>7. {sc[x], sc[y], sc[r[cut]], sc[r[cut + 1]]} \subseteq Int
    BY <1>2, <1>5, <2>2
  <2> QED BY <2>3, <2>4, <2>5, <2>6, <2>7
<1>7. ASSUME Discriminated(S, sc, key, limit)
      PROVE  T # {} /\ \E e \in S : sc[e] > 0
  <2>1. S # {} /\ \E e \in S : ~(sc[e] <= 0)
    BY <1>7 DEF Discriminated, NoSignal
  <2> QED BY <1>2, <1>4, <2>1
<1>8. ASSUME T # {}, \E e \in S : sc[e] > 0,
             \A x \in T, y \in S \ T : sc[x] > sc[y]
      PROVE  Discriminated(S, sc, key, limit)
  <2>1. S # {} /\ ~NoSignal(S, sc)
    BY <1>2, <1>8 DEF NoSignal
  <2>2. ~TiesAtCut(S, sc, key, limit)
    <3> SUFFICES ASSUME cut < n PROVE sc[r[cut]] # sc[r[cut + 1]]
      BY DEF TiesAtCut
    <3>1. sc[r[cut]] > sc[r[cut + 1]]
      BY <1>5, <1>8, <2>1
    <3>2. sc[r[cut]] \in Int /\ sc[r[cut + 1]] \in Int
      BY <1>2, <1>5, <2>1
    <3> QED BY <3>1, <3>2
  <2> QED BY <2>1, <2>2 DEF Discriminated
<1> QED BY <1>6, <1>7, <1>8

-----------------------------------------------------------------------------
(* Induction.  A set of natural numbers has a least element, so a set that  *)
(* holds 0 and is closed under successor holds all of them, and a function  *)
(* that is defined by recursion from 0 to n exists.                         *)
LEMMA LeastNat ==
  ASSUME NEW T, T \subseteq Nat, T # {}
  PROVE  \E m \in T : \A n \in T : m <= n
<1> DEFINE R == OpToRel(<, Nat)
<1>1. IsWellFoundedOn(R, Nat)
  BY NatLessThanWellFounded, Zenon
<1>2. \A x, y \in Nat : x < y => <<x, y>> \in R
  BY Zenon DEF OpToRel
<1> HIDE DEF R
<1>3. PICK x \in T : \A y \in T : ~(<<y, x>> \in R)
  BY <1>1, WFMin, Zenon
<1>4. ASSUME NEW n \in T PROVE x <= n
  <2>1. x \in Nat /\ n \in Nat /\ ~(n < x)
    BY <1>2, <1>3
  <2> QED BY <2>1
<1> QED BY <1>4

LEMMA Induct ==
  ASSUME NEW T, 0 \in T, \A n \in Nat : n \in T => n + 1 \in T
  PROVE  Nat \subseteq T
<1> SUFFICES ASSUME Nat \ T # {} PROVE FALSE
  OBVIOUS
<1>1. PICK m \in Nat \ T : \A n \in Nat \ T : m <= n
  BY LeastNat
<1>2. m # 0 /\ m - 1 \in Nat
  BY <1>1
<1>3. m - 1 \in T
  BY <1>1, <1>2
<1> QED BY <1>1, <1>2, <1>3

\* The function that starts with a and applies the steps g one after the other.
Follows(f, n, a, g) == f[0] = a /\ \A i \in 1..n : f[i] = g[i][f[i - 1]]

LEMMA Recursion ==
  ASSUME NEW S, NEW a \in S, NEW n \in Nat, NEW g \in [1..n -> [S -> S]]
  PROVE  \E f \in [0..n -> S] : Follows(f, n, a, g)
<1> DEFINE Upto(m, f) == f[0] = a /\ \A i \in 1..m : f[i] = g[i][f[i - 1]]
           T == {m \in Nat : m <= n => \E f \in [0..m -> S] : Upto(m, f)}
<1>1. 0 \in T
  <2> DEFINE f == [i \in 0..0 |-> a]
  <2>1. f \in [0..0 -> S] /\ Upto(0, f)
    OBVIOUS
  <2> QED BY <2>1
<1>2. ASSUME NEW m \in Nat, m \in T PROVE m + 1 \in T
  <2> SUFFICES ASSUME m + 1 <= n PROVE \E f \in [0..(m + 1) -> S] : Upto(m + 1, f)
    OBVIOUS
  <2>1. PICK f \in [0..m -> S] : Upto(m, f)
    BY <1>2
  <2> DEFINE h == [i \in 0..(m + 1) |-> IF i = m + 1 THEN g[m + 1][f[m]] ELSE f[i]]
  <2>2. h \in [0..(m + 1) -> S] /\ h[0] = a
    BY <2>1
  <2>3. ASSUME NEW i \in 1..(m + 1) PROVE h[i] = g[i][h[i - 1]]
    <3>1. CASE i = m + 1
      BY <3>1
    <3>2. CASE i \in 1..m
      <4>1. i \in 0..m /\ i - 1 \in 0..m /\ i # m + 1 /\ i - 1 # m + 1
        BY <3>2
      <4>2. f[i] = g[i][f[i - 1]]
        BY <2>1, <3>2
      <4>3. h[i] = f[i] /\ h[i - 1] = f[i - 1]
        BY <4>1
      <4> QED BY <4>2, <4>3
    <3> QED BY <3>1, <3>2
  <2> HIDE DEF h
  <2> QED BY <2>2, <2>3
<1> HIDE DEF T
<1>3. n \in T
  BY <1>1, <1>2, Induct
<1> QED BY <1>3 DEF T, Follows

\* What flattening a sequence of sequences computes, place by place.
LEMMA Flattens ==
  ASSUME NEW S, NEW q \in Seq(Seq(S)), q # << >>
  PROVE  \E f \in [1..Len(q) -> Seq(S)] :
            f[1] = q[1] /\ (\A i \in 2..Len(q) : f[i] = f[i - 1] \o q[i]) /\ FlattenSeq(q) = f[Len(q)]
<1> DEFINE n == Len(q) - 1
           g == [i \in 1..n |-> [x \in Seq(S) |-> x \o q[i + 1]]]
<1>1. n \in Nat /\ n + 1 = Len(q) /\ \A i \in 1..(n + 1) : q[i] \in Seq(S)
  OBVIOUS
<1> HIDE DEF n
<1>2. g \in [1..n -> [Seq(S) -> Seq(S)]]
  <2>1. \A i \in 1..n : q[i + 1] \in Seq(S)
    BY <1>1
  <2>2. \A i \in 1..n : \A x \in Seq(S) : x \o q[i + 1] \in Seq(S)
    BY <2>1, ConcatProperties
  <2> QED BY <2>2
<1>3. q[1] \in Seq(S)
  BY <1>1
<1>4. \A i \in 1..n : \A x \in Seq(S) : g[i][x] = x \o q[i + 1]
  OBVIOUS
<1> HIDE DEF g
<1>5. PICK e \in [0..n -> Seq(S)] : e[0] = q[1] /\ \A i \in 1..n : e[i] = g[i][e[i - 1]]
  <2> DEFINE Q == Seq(S)
             b == q[1]
  <2>1. b \in Q /\ g \in [1..n -> [Q -> Q]]
    BY <1>2, <1>3
  <2> HIDE DEF Q, b
  <2>2. \E e \in [0..n -> Q] : Follows(e, n, b, g)
    <3>1. n \in Nat
      BY <1>1
    <3> QED BY <2>1, <3>1, Recursion, Zenon
  <2> QED BY <2>2 DEF Q, b, Follows
<1> DEFINE f == [i \in 1..(n + 1) |-> e[i - 1]]
           Flat(h) == h = [i \in 1..Len(q) |-> IF i = 1 THEN q[i] ELSE h[i - 1] \o q[i]]
<1>6. f \in [1..(n + 1) -> Seq(S)] /\ f[1] = q[1]
  BY <1>1, <1>5
<1>7. ASSUME NEW i \in 2..(n + 1) PROVE f[i] = f[i - 1] \o q[i]
  <2>1. i - 1 \in 1..n /\ i - 1 \in 0..n /\ i - 2 \in 0..n /\ i - 1 \in 1..(n + 1)
        /\ (i - 1) + 1 = i /\ (i - 1) - 1 = i - 2
    BY <1>1
  <2>2. e[i - 1] = g[i - 1][e[i - 2]] /\ e[i - 2] \in Seq(S)
    BY <1>5, <2>1
  <2>3. g[i - 1][e[i - 2]] = e[i - 2] \o q[i]
    BY <1>4, <2>1, <2>2
  <2>4. f[i] = e[i - 1] /\ f[i - 1] = e[i - 2]
    BY <2>1
  <2> QED BY <2>2, <2>3, <2>4
<1> HIDE DEF f
<1>8. Flat(f)
  <2>1. \A i \in 1..Len(q) : i # 1 => i \in 2..(n + 1)
    BY <1>1
  <2>2. \A i \in 1..Len(q) : f[i] = IF i = 1 THEN q[i] ELSE f[i - 1] \o q[i]
    BY <1>6, <1>7, <2>1
  <2> QED BY <1>1, <1>6, <2>2
<1> DEFINE F == CHOOSE h : Flat(h)
<1>9. Flat(F)
  <2> HIDE DEF Flat
  <2> QED BY <1>8, Zenon
<1>10. FlattenSeq(q) = F[Len(q)]
  <2>1. Len(q) # 0
    BY <1>1
  <2> QED BY <2>1 DEF FlattenSeq
<1> HIDE DEF F
<1>11. \A i \in Nat : i \in 0..n => F[i + 1] = f[i + 1]
  <2> DEFINE T == {i \in Nat : i \in 0..n => F[i + 1] = f[i + 1]}
  <2>1. 0 \in T
    <3>1. 1 \in 1..Len(q)
      BY <1>1
    <3> QED BY <1>6, <1>9, <3>1
  <2>2. ASSUME NEW i \in Nat, i \in T PROVE i + 1 \in T
    <3> SUFFICES ASSUME i + 1 \in 0..n PROVE F[(i + 1) + 1] = f[(i + 1) + 1]
      OBVIOUS
    <3>1. i \in 0..n /\ i + 2 \in 1..Len(q) /\ i + 2 # 1 /\ (i + 2) - 1 = i + 1 /\ (i + 1) + 1 = i + 2
      BY <1>1
    <3>2. F[i + 1] = f[i + 1]
      BY <2>2, <3>1
    <3>3. F[i + 2] = F[i + 1] \o q[i + 2]
      BY <1>9, <3>1
    <3>4. f[i + 2] = f[i + 1] \o q[i + 2]
      BY <1>8, <3>1
    <3> QED BY <3>1, <3>2, <3>3, <3>4
  <2> HIDE DEF T
  <2>3. Nat \subseteq T
    BY <2>1, <2>2, Induct
  <2> QED BY <2>3 DEF T
<1>12. F[n + 1] = f[n + 1]
  BY <1>1, <1>11
<1> QED BY <1>1, <1>6, <1>7, <1>10, <1>12

\* Flattening a sequence that gains one sequence appends that one.
LEMMA FlattenAppend ==
  ASSUME NEW S, NEW ss \in Seq(Seq(S)), NEW s \in Seq(S)
  PROVE  /\ FlattenSeq(ss) \in Seq(S)
         /\ FlattenSeq(Append(ss, s)) = FlattenSeq(ss) \o s
         /\ FlattenSeq(<< >>) = << >>
<1>1. FlattenSeq(<< >>) = << >>
  BY DEF FlattenSeq
<1>2. FlattenSeq(ss) \in Seq(S)
  <2>1. CASE ss = << >>
    <3>1. FlattenSeq(ss) = << >>
      BY <1>1, <2>1, Zenon
    <3> QED BY <3>1
  <2>2. CASE ss # << >>
    <3>1. PICK f \in [1..Len(ss) -> Seq(S)] : FlattenSeq(ss) = f[Len(ss)]
      BY <2>2, Flattens
    <3>2. Len(ss) \in 1..Len(ss)
      BY <2>2
    <3> QED BY <3>1, <3>2
  <2> QED BY <2>1, <2>2
<1>3. FlattenSeq(Append(ss, s)) = FlattenSeq(ss) \o s
  <2> DEFINE q == Append(ss, s)
             n == Len(ss)
  <2>1. /\ q \in Seq(Seq(S)) /\ q # << >> /\ Len(q) = n + 1 /\ q[n + 1] = s /\ n \in Nat
        /\ \A i \in 1..n : q[i] = ss[i]
    BY AppendProperties
  <2> HIDE DEF q
  <2>2. PICK f \in [1..(n + 1) -> Seq(S)] :
           f[1] = q[1] /\ (\A i \in 2..(n + 1) : f[i] = f[i - 1] \o q[i]) /\ FlattenSeq(q) = f[n + 1]
    <3>1. Len(q) = n + 1 /\ q \in Seq(Seq(S)) /\ q # << >>
      BY <2>1
    <3>2. \E f \in [1..Len(q) -> Seq(S)] :
             f[1] = q[1] /\ (\A i \in 2..Len(q) : f[i] = f[i - 1] \o q[i]) /\ FlattenSeq(q) = f[Len(q)]
      BY <3>1, Flattens, Zenon
    <3> QED BY <3>1, <3>2
  <2>3. CASE ss = << >>
    <3>1. n = 0
      BY <2>3
    <3>2. FlattenSeq(q) = s
      BY <2>1, <2>2, <3>1
    <3> QED BY <1>1, <2>3, <3>2, ConcatEmptySeq DEF q
  <2>4. CASE ss # << >>
    <3>1. n \in 1..n
      BY <2>1, <2>4
    <3>2. PICK h \in [1..n -> Seq(S)] :
             h[1] = ss[1] /\ (\A i \in 2..n : h[i] = h[i - 1] \o ss[i]) /\ FlattenSeq(ss) = h[n]
      <4>1. n = Len(ss)
        OBVIOUS
      <4> HIDE DEF n
      <4>2. \E e \in [1..Len(ss) -> Seq(S)] :
               e[1] = ss[1] /\ (\A i \in 2..Len(ss) : e[i] = e[i - 1] \o ss[i]) /\ FlattenSeq(ss) = e[Len(ss)]
        BY <2>4, Flattens, Zenon
      <4> QED BY <4>1, <4>2
    <3> DEFINE T == {i \in Nat : i + 1 \in 1..n => f[i + 1] = h[i + 1]}
    <3>3. 0 \in T
      BY <2>1, <2>2, <3>2
    <3>4. ASSUME NEW i \in Nat, i \in T PROVE i + 1 \in T
      <4> SUFFICES ASSUME (i + 1) + 1 \in 1..n PROVE f[(i + 1) + 1] = h[(i + 1) + 1]
        OBVIOUS
      <4>1. i + 1 \in 1..n /\ i + 2 \in 2..n /\ (i + 2) - 1 = i + 1 /\ i + 2 \in 2..(n + 1) /\ (i + 1) + 1 = i + 2
            /\ i + 2 \in 1..n
        BY <2>1
      <4>2. f[i + 1] = h[i + 1]
        BY <3>4, <4>1
      <4>3. f[i + 2] = f[i + 1] \o q[i + 2]
        BY <2>2, <4>1
      <4>4. h[i + 2] = h[i + 1] \o ss[i + 2] /\ q[i + 2] = ss[i + 2]
        BY <2>1, <3>2, <4>1
      <4> QED BY <4>1, <4>2, <4>3, <4>4
    <3> HIDE DEF T
    <3>5. Nat \subseteq T
      BY <3>3, <3>4, Induct
    <3>6. n - 1 \in Nat /\ (n - 1) + 1 = n /\ n + 1 \in 2..(n + 1) /\ (n + 1) - 1 = n
      BY <2>1, <3>1
    <3>7. f[n] = h[n]
      BY <3>1, <3>5, <3>6 DEF T
    <3>8. f[n + 1] = f[n] \o q[n + 1]
      BY <2>2, <3>6
    <3> QED BY <2>1, <2>2, <3>2, <3>7, <3>8 DEF q
  <2> QED BY <2>3, <2>4
<1> QED BY <1>1, <1>2, <1>3

-----------------------------------------------------------------------------
(* The items at some places of a sequence, in order.  The n-th place is the *)
(* one with n - 1 places before it, which is the rank of the kernel when    *)
(* every score is the same.                                                 *)
PlaceOf(P, n) == CHOOSE i \in P : Cardinality({j \in P : j < i}) = n - 1

\* Every rank is taken.
RanksTaken(S, sc, key) == \A k \in 0..(Cardinality(S) - 1) : \E e \in S : Rank(S, sc, key, e) = k

LEMMA EveryRank ==
  ASSUME NEW S, NEW sc, NEW key, Comparable(S, sc, key)
  PROVE  RanksTaken(S, sc, key)
BY RankOnto DEF RanksTaken

LEMMA UpToFinite ==
  ASSUME NEW n \in Nat, NEW P, P \subseteq 1..n
  PROVE  IsFiniteSet(P) /\ P \subseteq Nat /\ P \subseteq Int
<1>1. IsFiniteSet(1..n)
  <2>1. 1 \in Int /\ n \in Int
    OBVIOUS
  <2> QED BY <2>1, FS_Interval, Zenon
<1>2. IsFiniteSet(P)
  BY <1>1, FS_Subset
<1> QED BY <1>2

LEMMA PlacesInOrder ==
  ASSUME NEW P, IsFiniteSet(P), P \subseteq Nat
  PROVE  /\ Cardinality(P) \in Nat
         /\ \A n \in 1..Cardinality(P) : PlaceOf(P, n) \in P
         /\ \A m, n \in 1..Cardinality(P) : m < n => PlaceOf(P, m) < PlaceOf(P, n)
         /\ \A i \in P : \E n \in 1..Cardinality(P) : PlaceOf(P, n) = i
<1> DEFINE sc == [i \in P |-> 0]
           key == [i \in P |-> i]
           R(i) == Rank(P, sc, key, i)
           N == Cardinality(P)
<1>1. Comparable(P, sc, key)
  BY DEF Comparable
<1>2. \A i \in P : R(i) = Cardinality({j \in P : j < i})
  <2> SUFFICES ASSUME NEW i \in P PROVE Ahead(P, sc, key, i) = {j \in P : j < i}
    BY DEF Rank
  <2> QED BY DEF Ahead, Before
<1>4. N \in Nat
  BY FS_CardinalityType
<1>5. /\ \A i \in P : R(i) \in 0..(N - 1)
      /\ \A i, j \in P : i < j => R(i) < R(j)
  <2>1. /\ \A i \in P : R(i) \in 0..(N - 1)
        /\ \A i, j \in P : Before(sc, key, i, j) => R(i) < R(j)
    BY <1>1, RankGrows, Zenon
  <2>2. \A i, j \in P : i < j => Before(sc, key, i, j)
    BY DEF Before
  <2> QED BY <2>1, <2>2
<1>6. ASSUME NEW k \in 0..(N - 1) PROVE \E i \in P : R(i) = k
  <2>1. k \in 0..(Cardinality(P) - 1)
    OBVIOUS
  <2> HIDE DEF sc, key, R, N
  <2>2. RanksTaken(P, sc, key)
    BY <1>1, EveryRank
  <2>3. \E i \in P : Rank(P, sc, key, i) = k
    BY <2>1, <2>2 DEF RanksTaken
  <2> QED BY <2>3 DEF R
<1> HIDE DEF sc, key, R, N
<1>7. ASSUME NEW n \in 1..N PROVE PlaceOf(P, n) \in P /\ R(PlaceOf(P, n)) = n - 1
  <2>1. n - 1 \in 0..(N - 1)
    BY <1>4
  <2>2. \E i \in P : Cardinality({j \in P : j < i}) = n - 1
    BY <1>2, <1>6, <2>1
  <2>3. PlaceOf(P, n) \in P /\ Cardinality({j \in P : j < PlaceOf(P, n)}) = n - 1
    BY <2>2, Zenon DEF PlaceOf
  <2> QED BY <1>2, <2>3
<1>8. ASSUME NEW m \in 1..N, NEW n \in 1..N, m < n PROVE PlaceOf(P, m) < PlaceOf(P, n)
  <2> DEFINE a == PlaceOf(P, m)
             b == PlaceOf(P, n)
  <2>1. a \in P /\ b \in P /\ R(a) = m - 1 /\ R(b) = n - 1
    BY <1>7
  <2> HIDE DEF a, b
  <2>2. a # b /\ ~(b < a)
    BY <1>4, <1>5, <1>8, <2>1
  <2>3. a \in Nat /\ b \in Nat
    BY <2>1
  <2>4. a < b
    BY <2>2, <2>3
  <2> QED BY <2>4 DEF a, b
<1>9. ASSUME NEW i \in P PROVE \E n \in 1..N : PlaceOf(P, n) = i
  <2> DEFINE n == R(i) + 1
             a == PlaceOf(P, n)
  <2>1. n \in 1..N /\ R(i) = n - 1
    BY <1>4, <1>5
  <2> HIDE DEF n
  <2>2. a \in P /\ R(a) = n - 1
    BY <1>7, <2>1
  <2> HIDE DEF a
  <2>3. ~(a < i) /\ ~(i < a)
    BY <1>4, <1>5, <2>1, <2>2
  <2>4. a = i
    BY <2>2, <2>3
  <2> QED BY <2>1, <2>4 DEF a
<1> QED BY <1>4, <1>7, <1>8, <1>9 DEF N

\* p lists the places P in order.
Lists(p, n, P) ==
    /\ n \in Nat /\ p \in [1..n -> P]
    /\ \A i, j \in 1..n : i < j => p[i] < p[j]
    /\ \A i \in P : \E k \in 1..n : p[k] = i

LEMMA ItemsListed ==
  ASSUME NEW items, NEW P, IsFiniteSet(P), P \subseteq Nat
  PROVE  \E p : /\ Lists(p, Cardinality(P), P)
                /\ ItemsAt(items, P) = [k \in 1..Cardinality(P) |-> items[p[k]]]
<1> DEFINE p == [k \in 1..Cardinality(P) |-> PlaceOf(P, k)]
<1>1. Lists(p, Cardinality(P), P)
  BY PlacesInOrder DEF Lists
<1>2. ItemsAt(items, P) = [k \in 1..Cardinality(P) |-> items[p[k]]]
  BY DEF ItemsAt, PlaceOf
<1> QED BY <1>1, <1>2

\* There is one such list.
LEMMA ItemsUnique ==
  ASSUME NEW items, NEW P, IsFiniteSet(P), P \subseteq Nat, NEW n \in Nat, NEW f, Lists(f, n, P)
  PROVE  Cardinality(P) = n /\ ItemsAt(items, P) = [k \in 1..n |-> items[f[k]]]
<1> DEFINE Under(i) == {j \in P : j < i}
<1>1. f \in [1..n -> P] /\ (\A i, j \in 1..n : i < j => f[i] < f[j]) /\ \A i \in P : \E k \in 1..n : f[k] = i
  BY DEF Lists
<1>2. ASSUME NEW m \in 0..n, NEW Q, Q = {f[k] : k \in 1..m}
      PROVE  Cardinality(Q) = m
  <2> DEFINE h == [k \in 1..m |-> f[k]]
  <2>1. m \in Nat /\ \A k \in 1..m : k \in 1..n
    OBVIOUS
  <2>2. h \in [1..m -> Q] /\ \A x \in Q : \E k \in 1..m : h[k] = x
    BY <1>2
  <2>3. \A i, j \in 1..m : h[i] = h[j] => i = j
    <3> SUFFICES ASSUME NEW i \in 1..m, NEW j \in 1..m, f[i] = f[j], i # j PROVE FALSE
      OBVIOUS
    <3>1. i \in 1..n /\ j \in 1..n /\ (i < j \/ j < i)
      BY <2>1
    <3>2. f[i] \in Nat /\ f[j] \in Nat
      BY <1>1, <3>1
    <3> QED BY <1>1, <3>1, <3>2
  <2>4. h \in Bijection(1..m, Q)
    <3> HIDE DEF h
    <3>1. DOMAIN h = 1..m
      BY <2>2
    <3>2. IsInjective(h)
      BY <2>3, <3>1 DEF IsInjective
    <3>3. h \in Injection(1..m, Q)
      BY <2>2, <3>2 DEF Injection
    <3>4. h \in Surjection(1..m, Q)
      BY <2>2 DEF Surjection
    <3> QED BY <3>3, <3>4 DEF Bijection
  <2>5. IsFiniteSet(1..m) /\ Cardinality(1..m) = m
    BY <2>1, FS_Interval
  <2>6. ExistsBijection(1..m, Q)
    BY <2>4 DEF ExistsBijection
  <2> QED BY <2>5, <2>6, FS_Bijection
<1>3. ASSUME NEW k \in 1..n PROVE Cardinality(Under(f[k])) = k - 1 /\ f[k] \in P
  <2>1. k - 1 \in 0..n /\ \A j \in 1..(k - 1) : j \in 1..n /\ j < k
    OBVIOUS
  <2>2. Under(f[k]) \subseteq {f[j] : j \in 1..(k - 1)}
    <3> SUFFICES ASSUME NEW i \in P, i < f[k] PROVE \E j \in 1..(k - 1) : f[j] = i
      OBVIOUS
    <3>1. PICK j \in 1..n : f[j] = i
      BY <1>1
    <3>2. ~(k < j) /\ j # k
      <4>1. f[j] \in Nat /\ f[k] \in Nat
        BY <1>1
      <4> QED BY <1>1, <3>1, <4>1
    <3>3. j \in 1..(k - 1)
      BY <3>2
    <3> QED BY <3>1, <3>3
  <2>3. {f[j] : j \in 1..(k - 1)} \subseteq Under(f[k])
    BY <1>1, <2>1
  <2>4. Under(f[k]) = {f[j] : j \in 1..(k - 1)}
    BY <2>2, <2>3
  <2> QED BY <1>1, <1>2, <2>1, <2>4
<1>4. Cardinality(P) = n
  <2>1. P = {f[k] : k \in 1..n}
    BY <1>1
  <2> QED BY <1>2, <2>1
<1>5. ASSUME NEW k \in 1..n PROVE PlaceOf(P, k) = f[k]
  <2> DEFINE i == PlaceOf(P, k)
  <2>1. i \in P /\ Cardinality(Under(i)) = k - 1
    <3>1. \E j \in P : Cardinality(Under(j)) = k - 1
      BY <1>3
    <3> QED BY <3>1, Zenon DEF PlaceOf
  <2> HIDE DEF i
  <2>2. PICK m \in 1..n : f[m] = i
    BY <1>1, <2>1
  <2>3. m - 1 = k - 1
    BY <1>3, <2>1, <2>2
  <2>4. m = k
    BY <2>3
  <2> QED BY <2>2, <2>4 DEF i
<1>6. ItemsAt(items, P) = [k \in 1..n |-> items[PlaceOf(P, k)]]
  BY <1>4 DEF ItemsAt, PlaceOf
<1>7. [k \in 1..n |-> items[PlaceOf(P, k)]] = [k \in 1..n |-> items[f[k]]]
  BY <1>5
<1> QED BY <1>4, <1>6, <1>7

\* Filtering a sequence: what is left, and nothing twice if nothing was.
LEMMA FilterKeeps ==
  ASSUME NEW S, NEW s \in Seq(S), NEW P, P \subseteq DOMAIN s
  PROVE  /\ ItemsAt(s, P) \in Seq(S) /\ Len(ItemsAt(s, P)) = Cardinality(P)
         /\ Cardinality(P) \in Nat /\ IsFiniteSet(P)
         /\ ToSet(ItemsAt(s, P)) = {s[i] : i \in P}
         /\ \E p : Lists(p, Cardinality(P), P) /\ \A k \in 1..Cardinality(P) : ItemsAt(s, P)[k] = s[p[k]]
         /\ IsInjective(s) => IsInjective(ItemsAt(s, P))
<1>1. Len(s) \in Nat /\ DOMAIN s = 1..Len(s) /\ \A i \in 1..Len(s) : s[i] \in S
  OBVIOUS
<1>2. IsFiniteSet(P) /\ P \subseteq Nat
  BY <1>1, UpToFinite
<1>3. PICK p : Lists(p, Cardinality(P), P) /\ ItemsAt(s, P) = [k \in 1..Cardinality(P) |-> s[p[k]]]
  BY <1>2, ItemsListed
<1> DEFINE n == Cardinality(P)
           r == ItemsAt(s, P)
<1> HIDE DEF n, r
<1>4. /\ n \in Nat /\ p \in [1..n -> P]
      /\ \A i, j \in 1..n : i < j => p[i] < p[j]
      /\ \A i \in P : \E k \in 1..n : p[k] = i
  BY <1>3 DEF Lists, n
<1>5. r = [k \in 1..n |-> s[p[k]]]
  BY <1>3 DEF r, n
<1>6. \A k \in 1..n : p[k] \in P /\ s[p[k]] \in S /\ r[k] = s[p[k]]
  BY <1>1, <1>4, <1>5
<1>7. r \in Seq(S) /\ Len(r) = n /\ DOMAIN r = 1..n
  BY <1>4, <1>5, <1>6
<1>8. ToSet(r) = {s[i] : i \in P}
  <2>1. ToSet(r) = {r[k] : k \in 1..n}
    BY <1>7 DEF ToSet
  <2>2. {r[k] : k \in 1..n} \subseteq {s[i] : i \in P}
    BY <1>6
  <2>3. {s[i] : i \in P} \subseteq {r[k] : k \in 1..n}
    BY <1>4, <1>6
  <2> QED BY <2>1, <2>2, <2>3
<1>9. ASSUME IsInjective(s) PROVE IsInjective(r)
  <2> SUFFICES ASSUME NEW i \in 1..n, NEW j \in 1..n, r[i] = r[j], i # j PROVE FALSE
    BY <1>7 DEF IsInjective
  <2>1. p[i] \in 1..Len(s) /\ p[j] \in 1..Len(s) /\ s[p[i]] = s[p[j]]
    BY <1>1, <1>4, <1>6
  <2>2. p[i] = p[j]
    BY <1>1, <1>9, <2>1 DEF IsInjective
  <2>3. i < j \/ j < i
    BY <1>4
  <2> QED BY <1>4, <2>1, <2>2, <2>3
<1>10. Cardinality(P) = n /\ ItemsAt(s, P) = r
  BY DEF n, r
<1> HIDE DEF Lists
<1> QED BY <1>2, <1>3, <1>4, <1>6, <1>7, <1>8, <1>9, <1>10

\* The first occurrences hold everything, each thing once.
LEMMA DedupeKeeps ==
  ASSUME NEW S, NEW s \in Seq(S)
  PROVE  DedupeInOrder(s) \in Seq(S) /\ IsInjective(DedupeInOrder(s)) /\ ToSet(DedupeInOrder(s)) = ToSet(s)
<1> DEFINE P == {i \in DOMAIN s : \A j \in 1..(i - 1) : s[j] # s[i]}
           r == ItemsAt(s, P)
           n == Cardinality(P)
<1>1. DOMAIN s = 1..Len(s) /\ Len(s) \in Nat
  OBVIOUS
<1>2. \A i, j \in P : s[i] = s[j] => i = j
  <2> SUFFICES ASSUME NEW i \in P, NEW j \in P, s[i] = s[j], i < j PROVE FALSE
    BY <1>1
  <2>1. i \in 1..(j - 1)
    BY <1>1
  <2> QED BY <2>1
<1>3. ASSUME NEW i \in DOMAIN s PROVE \E j \in P : s[j] = s[i]
  <2> DEFINE T == {j \in DOMAIN s : s[j] = s[i]}
  <2>1. T \subseteq Nat /\ T # {}
    BY <1>1
  <2>2. PICK m \in T : \A k \in T : m <= k
    BY <2>1, LeastNat, Zenon
  <2>3. \A k \in 1..(m - 1) : s[k] # s[m]
    <3> SUFFICES ASSUME NEW k \in 1..(m - 1), s[k] = s[m] PROVE FALSE
      OBVIOUS
    <3>1. k \in DOMAIN s /\ k < m
      BY <1>1, <2>2
    <3>2. k \in T
      BY <2>2, <3>1
    <3> QED BY <2>1, <2>2, <3>1, <3>2
  <2> QED BY <2>2, <2>3
<1>4. P \subseteq DOMAIN s
  OBVIOUS
<1> HIDE DEF P
<1>5. /\ r \in Seq(S) /\ Len(r) = n /\ n \in Nat /\ ToSet(r) = {s[i] : i \in P}
      /\ \E p : Lists(p, n, P) /\ \A k \in 1..n : r[k] = s[p[k]]
  BY <1>4, FilterKeeps
<1>6. PICK p : Lists(p, n, P) /\ \A k \in 1..n : r[k] = s[p[k]]
  BY <1>5
<1> HIDE DEF r, n
<1>7. IsInjective(r)
  <2>1. p \in [1..n -> P] /\ \A i, j \in 1..n : i < j => p[i] < p[j]
    BY <1>6 DEF Lists
  <2> SUFFICES ASSUME NEW i \in 1..n, NEW j \in 1..n, r[i] = r[j], i # j PROVE FALSE
    BY <1>5 DEF IsInjective
  <2>2. p[i] = p[j]
    BY <1>2, <1>6, <2>1
  <2>3. (i < j \/ j < i) /\ p[i] \in Nat
    BY <1>1, <1>4, <1>5, <2>1
  <2> QED BY <2>1, <2>2, <2>3
<1>8. ToSet(r) = ToSet(s)
  <2>1. ToSet(s) = {s[i] : i \in DOMAIN s}
    BY DEF ToSet
  <2> QED BY <1>3, <1>4, <1>5, <2>1
<1>9. DedupeInOrder(s) = r
  BY DEF DedupeInOrder, r, P
<1> QED BY <1>5, <1>7, <1>8, <1>9

LEMMA FirstOfKeeps ==
  ASSUME NEW S, NEW s \in Seq(S), NEW n \in Int
  PROVE  /\ FirstOf(s, n) \in Seq(S) /\ Len(FirstOf(s, n)) <= Len(s)
         /\ Len(FirstOf(s, n)) = IF n < 0 THEN 0 ELSE IF n < Len(s) THEN n ELSE Len(s)
         /\ \A i \in 1..Len(FirstOf(s, n)) : FirstOf(s, n)[i] = s[i]
         /\ IsInjective(s) => IsInjective(FirstOf(s, n))
<1> DEFINE m == IF n < 0 THEN 0 ELSE IF n < Len(s) THEN n ELSE Len(s)
           r == FirstOf(s, n)
<1>1. Len(s) \in Nat /\ m \in 0..Len(s) /\ \A i \in 1..Len(s) : s[i] \in S
  OBVIOUS
<1>2. r = [i \in 1..m |-> s[i]]
  <2>1. CASE n < 0
    <3>1. r = SubSeq(s, 1, n) /\ m = 0
      BY <1>1, <2>1 DEF FirstOf
    <3>2. 1..n = {} /\ 1..m = {}
      BY <2>1, <3>1
    <3>3. SubSeq(s, 1, n) = << >>
      BY <2>1, <1>1
    <3> QED BY <3>1, <3>2, <3>3
  <2>2. CASE ~(n < 0)
    <3>1. r = SubSeq(s, 1, m)
      BY <2>2 DEF FirstOf
    <3> QED BY <1>1, <3>1
  <2> QED BY <2>1, <2>2
<1> HIDE DEF m
<1>3. r \in Seq(S) /\ Len(r) = m /\ DOMAIN r = 1..m /\ \A i \in 1..m : r[i] = s[i]
  BY <1>1, <1>2
<1>4. ASSUME IsInjective(s) PROVE IsInjective(r)
  BY <1>1, <1>3, <1>4 DEF IsInjective
<1> HIDE DEF r
<1>5. Len(r) <= Len(s)
  BY <1>1, <1>3
<1> QED BY <1>3, <1>4, <1>5 DEF r, m

\* A cut holds nothing twice, and everything if it is long enough.
LEMMA SelectedOnce ==
  ASSUME NEW S, NEW sc, NEW key, Comparable(S, sc, key), NEW limit \in Nat
  PROVE  LET sel == Selected(S, sc, key, limit)
         IN /\ sel \in Seq(S) /\ IsInjective(sel) /\ Cardinality(S) \in Nat
            /\ Len(sel) = Cut(S, limit)
            /\ limit >= Cardinality(S) => ToSet(sel) = S
<1> DEFINE sel == Selected(S, sc, key, limit)
           n == Cardinality(S)
           cut0 == Cut(S, limit)
           r == Ranked(S, sc, key)
<1>1. n \in Nat /\ cut0 \in 0..n /\ (limit >= n => cut0 = n)
  BY FS_CardinalityType DEF Comparable, Cut
<1>2. \A i \in 1..n : r[i] \in S /\ Rank(S, sc, key, r[i]) = i - 1
  BY RankedByRank
<1>3. r \in [1..n -> S]
  <2>1. r = [i \in 1..n |-> r[i]]
    BY DEF Ranked
  <2> HIDE DEF r
  <2> QED BY <1>2, <2>1
<1>4. sel = SubSeq(r, 1, cut0)
  BY DEF Selected
<1> HIDE DEF r, cut0
<1>5. sel \in Seq(S) /\ Len(sel) = cut0 /\ \A i \in 1..cut0 : sel[i] = r[i] /\ i \in 1..n
  <2>1. r \in Seq(S) /\ Len(r) = n
    BY <1>1, <1>3
  <2> QED BY <1>1, <1>4, <2>1
<1>6. IsInjective(sel)
  <2> SUFFICES ASSUME NEW i \in 1..cut0, NEW j \in 1..cut0, sel[i] = sel[j] PROVE i = j
    <3> HIDE DEF sel
    <3> QED BY <1>5 DEF IsInjective
  <2>1. i \in 1..n /\ j \in 1..n /\ r[i] = r[j]
    BY <1>5
  <2>2. i - 1 = j - 1
    BY <1>2, <2>1
  <2> QED BY <2>2
<1>7. ASSUME limit >= n PROVE ToSet(sel) = S
  <2>1. {sel[i] : i \in DOMAIN sel} = {e \in S : Rank(S, sc, key, e) < Cut(S, limit)}
    BY CutTakesBest, SMTT(30)
  <2>2. \A e \in S : Rank(S, sc, key, e) \in 0..(n - 1)
    BY RankGrows
  <2>3. Cut(S, limit) = n
    BY <1>1, <1>7 DEF cut0
  <2>4. {e \in S : Rank(S, sc, key, e) < Cut(S, limit)} = S
    BY <1>1, <2>2, <2>3
  <2> QED BY <2>1, <2>4 DEF ToSet
<1> QED BY <1>1, <1>5, <1>6, <1>7 DEF cut0

-----------------------------------------------------------------------------
(* The order of the evidence.  What a stage inserts is described by where   *)
(* the events of the old order are in the new one: f[k] is the new place of *)
(* the k-th.                                                                *)
Holds(old, new, f) ==
    /\ f \in [1..Len(old) -> 1..Len(new)]
    /\ \A i, j \in 1..Len(old) : i < j => f[i] < f[j]
    /\ \A k \in 1..Len(old) : new[f[k]] = old[k]

\* What holds the old order and nothing twice shows it when the new events are left out.
LEMMA HeldInOrder ==
  ASSUME NEW S, NEW old \in Seq(S), NEW new \in Seq(S), IsInjective(new), NEW f, Holds(old, new, f)
  PROVE  ItemsAt(new, {i \in DOMAIN new : Contains(old, new[i])}) = old
<1> DEFINE P == {i \in DOMAIN new : Contains(old, new[i])}
           n == Len(old)
<1>1. n \in Nat /\ DOMAIN new = 1..Len(new) /\ Len(new) \in Nat /\ old = [k \in 1..n |-> old[k]]
  OBVIOUS
<1>2. /\ f \in [1..n -> 1..Len(new)] /\ (\A i, j \in 1..n : i < j => f[i] < f[j])
      /\ \A k \in 1..n : new[f[k]] = old[k]
  BY DEF Holds
<1>3. IsFiniteSet(P) /\ P \subseteq Nat
  <2>1. P \subseteq 1..Len(new)
    BY <1>1
  <2> HIDE DEF P
  <2> QED BY <1>1, <2>1, UpToFinite
<1>4. f \in [1..n -> P]
  <2>1. \A k \in 1..n : f[k] \in P
    BY <1>1, <1>2 DEF Contains
  <2> HIDE DEF P
  <2> QED BY <1>2, <2>1
<1>5. \A i \in P : \E k \in 1..n : f[k] = i
  <2> SUFFICES ASSUME NEW i \in DOMAIN new, NEW k \in 1..n, new[i] = old[k] PROVE f[k] = i
    BY DEF Contains
  <2>1. f[k] \in DOMAIN new /\ new[f[k]] = new[i]
    BY <1>1, <1>2
  <2> QED BY <2>1 DEF IsInjective
<1> HIDE DEF P, n
<1>6. Lists(f, n, P)
  BY <1>1, <1>2, <1>4, <1>5 DEF Lists
<1>7. ItemsAt(new, P) = [k \in 1..n |-> new[f[k]]]
  BY <1>1, <1>3, <1>6, ItemsUnique
<1>8. [k \in 1..n |-> new[f[k]]] = [k \in 1..n |-> old[k]]
  BY <1>2
<1> QED BY <1>1, <1>7, <1>8 DEF P

\* The greatest of some numbers.
LEMMA MaxIs ==
  ASSUME NEW S, S \subseteq Int, NEW m \in S, \A x \in S : x <= m
  PROVE  Max(S) = m
<1>1. \A x \in S : x \in Int
  OBVIOUS
<1>2. Max(S) \in S /\ \A y \in S : Max(S) >= y
  <2>1. \E x \in S : \A y \in S : x >= y
    BY <1>1
  <2> QED BY <2>1, Zenon DEF Max
<1> DEFINE top == Max(S)
<1> HIDE DEF top
<1>3. top \in S /\ top >= m
  BY <1>2 DEF top
<1>4. top \in Int /\ m \in Int /\ top <= m
  BY <1>1, <1>3
<1>5. top = m
  BY <1>3, <1>4
<1> QED BY <1>5 DEF top

LEMMA MaxExists ==
  ASSUME NEW S, S \subseteq Int, S # {}, IsFiniteSet(S)
  PROVE  Max(S) \in S /\ \A y \in S : y <= Max(S)
<1> DEFINE sc == [x \in S |-> x]
<1>1. Comparable(S, sc, sc)
  BY DEF Comparable
<1>2. Cardinality(S) \in Nat /\ Cardinality(S) # 0
  BY FS_CardinalityType, FS_EmptySet
<1> HIDE DEF sc
<1>3. PICK m \in S : Rank(S, sc, sc, m) = 0
  <2> DEFINE z == 0
  <2>1. z \in 0..(Cardinality(S) - 1)
    BY <1>2
  <2> HIDE DEF z
  <2>2. RanksTaken(S, sc, sc)
    BY <1>1, EveryRank
  <2>3. \E m \in S : Rank(S, sc, sc, m) = z
    BY <2>1, <2>2 DEF RanksTaken
  <2> QED BY <2>3 DEF z
<1>4. \A y \in S : Rank(S, sc, sc, y) \in 0..(Cardinality(S) - 1)
  BY <1>1, RankGrows, Zenon
<1>5. ASSUME NEW y \in S PROVE y <= m
  <2>1. Rank(S, sc, sc, m) <= Rank(S, sc, sc, y)
    BY <1>2, <1>3, <1>4
  <2>2. sc[m] >= sc[y] /\ sc[m] = m /\ sc[y] = y
    BY <1>1, <2>1, RankOrdersScores DEF sc
  <2>3. m \in Int /\ y \in Int
    BY <1>3
  <2> QED BY <2>2, <2>3
<1>6. Max(S) = m
  BY <1>5, MaxIs
<1> QED BY <1>5, <1>6

LEMMA LesserOf ==
  ASSUME NEW a \in Int, NEW b \in Int
  PROVE  Min({a, b}) = IF a <= b THEN a ELSE b
<1> DEFINE m == IF a <= b THEN a ELSE b
<1>1. m \in {a, b} /\ \A y \in {a, b} : m <= y
  OBVIOUS
<1>2. Min({a, b}) \in {a, b} /\ \A y \in {a, b} : Min({a, b}) <= y
  <2>1. \E x \in {a, b} : \A y \in {a, b} : x <= y
    BY <1>1
  <2> QED BY <2>1, Zenon DEF Min
<1> QED BY <1>2

\* The place of the last event that passes a test.
LEMMA LastPlace ==
  ASSUME NEW I, NEW n \in Nat, I \subseteq 1..n
  PROVE  (IF I # {} THEN Max(I) ELSE 0) \in 0..n
<1>1. CASE I = {}
  BY <1>1
<1>2. CASE I # {}
  <2>1. IsFiniteSet(I) /\ I \subseteq Int
    BY UpToFinite
  <2>2. Max(I) \in I
    BY <1>2, <2>1, MaxExists
  <2>3. Max(I) \in 1..n
    BY <2>2
  <2> QED BY <1>2, <2>3
<1> QED BY <1>1, <1>2

\* What is put into a sequence behind a place, place by place.
LEMMA Spliced ==
  ASSUME NEW S, NEW o \in Seq(S), NEW n \in Seq(S), NEW at \in 0..Len(o)
  PROVE  LET new == SubSeq(o, 1, at) \o n \o SubSeq(o, at + 1, Len(o))
         IN /\ new \in Seq(S) /\ Len(new) = Len(o) + Len(n)
            /\ \A i \in 1..Len(new) :
                  new[i] = IF i <= at THEN o[i]
                           ELSE IF i <= at + Len(n) THEN n[i - at] ELSE o[i - Len(n)]
<1> DEFINE a == SubSeq(o, 1, at)
           b == SubSeq(o, at + 1, Len(o))
           ab == a \o n
           new == ab \o b
<1>1. Len(o) \in Nat /\ Len(n) \in Nat /\ at \in Nat /\ at <= Len(o)
  OBVIOUS
<1>2. a \in Seq(S) /\ Len(a) = at /\ \A i \in 1..at : a[i] = o[i]
  BY <1>1
<1>3. b \in Seq(S) /\ Len(b) = Len(o) - at /\ \A i \in 1..(Len(o) - at) : b[i] = o[at + i]
  <2>1. CASE at = Len(o)
    <3>1. b = << >>
      BY <1>1, <2>1
    <3> QED BY <1>1, <2>1, <3>1
  <2>2. CASE at < Len(o)
    BY <1>1, <2>2
  <2> QED BY <1>1, <2>1, <2>2
<1> HIDE DEF a, b
<1>4. /\ ab \in Seq(S) /\ Len(ab) = at + Len(n)
      /\ \A i \in 1..(at + Len(n)) : ab[i] = IF i <= at THEN a[i] ELSE n[i - at]
  BY <1>1, <1>2, ConcatProperties
<1> HIDE DEF ab
<1>5. /\ new \in Seq(S) /\ Len(new) = Len(o) + Len(n)
      /\ \A i \in 1..(Len(o) + Len(n)) : new[i] = IF i <= at + Len(n) THEN ab[i] ELSE b[i - (at + Len(n))]
  <2>1. /\ new \in Seq(S) /\ Len(new) = Len(ab) + Len(b)
        /\ \A i \in 1..(Len(ab) + Len(b)) : new[i] = IF i <= Len(ab) THEN ab[i] ELSE b[i - Len(ab)]
    BY <1>3, <1>4, ConcatProperties
  <2> QED BY <1>1, <1>3, <1>4, <2>1
<1> HIDE DEF new
<1>6. ASSUME NEW i \in 1..Len(new)
      PROVE  new[i] = IF i <= at THEN o[i] ELSE IF i <= at + Len(n) THEN n[i - at] ELSE o[i - Len(n)]
  <2>1. i \in 1..(Len(o) + Len(n))
    BY <1>5
  <2>2. CASE i <= at
    BY <1>1, <1>2, <1>4, <1>5, <2>1, <2>2
  <2>3. CASE at < i /\ i <= at + Len(n)
    BY <1>1, <1>4, <1>5, <2>1, <2>3
  <2>4. CASE at + Len(n) < i
    <3> DEFINE j == i - (at + Len(n))
    <3>1. j \in 1..(Len(o) - at) /\ at + j = i - Len(n)
      BY <1>1, <2>1, <2>4
    <3>2. b[j] = o[at + j]
      <4> HIDE DEF j
      <4> QED BY <1>3, <3>1
    <3>3. ~(i <= at + Len(n)) /\ ~(i <= at)
      BY <1>1, <2>1, <2>4
    <3>4. new[i] = b[j]
      BY <1>5, <2>1, <3>3
    <3> HIDE DEF j
    <3> QED BY <3>1, <3>2, <3>3, <3>4
  <2> QED BY <1>1, <2>1, <2>2, <2>3, <2>4
<1> QED BY <1>5, <1>6 DEF new, ab, a, b

-----------------------------------------------------------------------------
(* Packing.                                                                 *)

\* What the lines before each place cost, on top of what is spent already.
Used(items, cost, spent) ==
    LET used[n \in 0..Len(items)] == IF n = 0 THEN spent ELSE used[n - 1] + cost[items[n]] IN used

LEMMA UsedComputed ==
  ASSUME NEW S, NEW items \in Seq(S), NEW cost \in [S -> Nat], NEW spent \in Nat
  PROVE  /\ Used(items, cost, spent)[0] = spent
         /\ \A i \in 1..Len(items) : Used(items, cost, spent)[i] = Used(items, cost, spent)[i - 1] + cost[items[i]]
         /\ \A i \in 0..Len(items) : Used(items, cost, spent)[i] \in Nat
<1> DEFINE n == Len(items)
           g == [i \in 1..n |-> [x \in Nat |-> x + cost[items[i]]]]
<1>1. n \in Nat /\ \A i \in 1..n : items[i] \in S /\ cost[items[i]] \in Nat
  OBVIOUS
<1>2. g \in [1..n -> [Nat -> Nat]]
  <2>1. ASSUME NEW i \in 1..n, NEW x \in Nat PROVE x + cost[items[i]] \in Nat
    <3> DEFINE w == cost[items[i]]
    <3>1. w \in Nat
      BY <1>1
    <3> HIDE DEF w
    <3>2. x + w \in Nat
      BY <3>1
    <3> QED BY <3>2 DEF w
  <2> QED BY <2>1
<1>3. \A i \in 1..n : \A x \in Nat : g[i][x] = x + cost[items[i]]
  OBVIOUS
<1> HIDE DEF g
<1>4. \E f \in [0..n -> Nat] : Follows(f, n, spent, g)
  BY <1>1, <1>2, Recursion
<1>5. PICK f \in [0..n -> Nat] : f[0] = spent /\ \A i \in 1..n : f[i] = g[i][f[i - 1]]
  BY <1>4 DEF Follows
<1>6. \A i \in 1..n : f[i] = f[i - 1] + cost[items[i]]
  <2> TAKE i \in 1..n
  <2>1. i - 1 \in 0..n
    BY <1>1
  <2>2. f[i - 1] \in Nat
    BY <1>5, <2>1
  <2> QED BY <1>3, <1>5, <2>2
<1> DEFINE Sums(h) == h = [i \in 0..n |-> IF i = 0 THEN spent ELSE h[i - 1] + cost[items[i]]]
           F == CHOOSE h : Sums(h)
<1>7. Sums(f)
  <2>1. \A i \in 0..n : i # 0 => i \in 1..n
    BY <1>1
  <2> QED BY <1>5, <1>6, <2>1
<1>8. Sums(F)
  <2> HIDE DEF Sums
  <2> QED BY <1>7, Zenon
<1>9. Used(items, cost, spent) = F
  BY DEF Used
<1> HIDE DEF F
<1>10. \A k \in 0..n : F[k] = IF k = 0 THEN spent ELSE F[k - 1] + cost[items[k]]
  BY <1>8
<1> HIDE DEF Sums
<1>11. F[0] = spent /\ \A k \in 1..n : F[k] = F[k - 1] + cost[items[k]]
  <2>1. 0 \in 0..n /\ \A k \in 1..n : k \in 0..n /\ k # 0
    BY <1>1
  <2> QED BY <1>10, <2>1
<1>12. \A i \in Nat : i \in 0..n => F[i] \in Nat
  <2> DEFINE T == {i \in Nat : i \in 0..n => F[i] \in Nat}
  <2>1. 0 \in T
    BY <1>1, <1>11
  <2>2. ASSUME NEW i \in Nat, i \in T PROVE i + 1 \in T
    <3> SUFFICES ASSUME i + 1 \in 0..n PROVE F[i + 1] \in Nat
      OBVIOUS
    <3>1. i \in 0..n /\ i + 1 \in 1..n /\ (i + 1) - 1 = i
      BY <1>1
    <3>2. F[i] \in Nat /\ cost[items[i + 1]] \in Nat
      BY <1>1, <2>2, <3>1
    <3>3. F[i + 1] = F[i] + cost[items[i + 1]]
      BY <1>11, <3>1
    <3> QED BY <3>2, <3>3
  <2> HIDE DEF T
  <2>3. Nat \subseteq T
    BY <2>1, <2>2, Induct
  <2> QED BY <2>3 DEF T
<1> HIDE DEF n
<1>13. \A i \in 0..n : F[i] \in Nat
  BY <1>1, <1>12
<1> QED BY <1>9, <1>11, <1>13 DEF n

\* A prefix spends on its own what it spends as a part.
LEMMA PrefixSpends ==
  ASSUME NEW S, NEW items \in Seq(S), NEW cost \in [S -> Nat], NEW spent \in Nat, NEW m \in 0..Len(items)
  PROVE  /\ SubSeq(items, 1, m) \in Seq(S) /\ Len(SubSeq(items, 1, m)) = m
         /\ spent + Used(SubSeq(items, 1, m), cost, 0)[m] = Used(items, cost, spent)[m]
<1> DEFINE r == SubSeq(items, 1, m)
           z == 0
           f == Used(items, cost, spent)
           u == Used(r, cost, z)
<1>1. r \in Seq(S) /\ Len(r) = m /\ m \in Nat /\ Len(items) \in Nat /\ z \in Nat /\ \A i \in 1..m : r[i] = items[i]
  OBVIOUS
<1> HIDE DEF r
<1>2. z = 0
  OBVIOUS
<1> HIDE DEF z
<1>3. u[0] = 0 /\ (\A i \in 1..m : u[i] = u[i - 1] + cost[r[i]]) /\ \A i \in 0..m : u[i] \in Nat
  <2>0. ASSUME NEW q \in Seq(S), NEW y \in Nat
        PROVE  /\ Used(q, cost, y)[0] = y
               /\ \A i \in 1..Len(q) : Used(q, cost, y)[i] = Used(q, cost, y)[i - 1] + cost[q[i]]
               /\ \A i \in 0..Len(q) : Used(q, cost, y)[i] \in Nat
    BY UsedComputed
  <2>1. u[0] = z /\ (\A i \in 1..Len(r) : u[i] = u[i - 1] + cost[r[i]]) /\ \A i \in 0..Len(r) : u[i] \in Nat
    BY <1>1, <2>0, Zenon
  <2> HIDE DEF u
  <2> QED BY <1>1, <1>2, <2>1
<1>4. f[0] = spent /\ (\A i \in 1..Len(items) : f[i] = f[i - 1] + cost[items[i]]) /\ \A i \in 0..Len(items) : f[i] \in Nat
  BY UsedComputed
<1> HIDE DEF u, f
<1>5. \A i \in 1..m : cost[items[i]] \in Nat
  BY <1>1
<1>6. \A i \in Nat : i \in 0..m => spent + u[i] = f[i]
  <2> DEFINE T == {i \in Nat : i \in 0..m => spent + u[i] = f[i]}
  <2>1. 0 \in T
    BY <1>1, <1>3, <1>4
  <2>2. ASSUME NEW i \in Nat, i \in T PROVE i + 1 \in T
    <3> SUFFICES ASSUME i + 1 \in 0..m PROVE spent + u[i + 1] = f[i + 1]
      OBVIOUS
    <3>1. i \in 0..m /\ i + 1 \in 1..m /\ (i + 1) - 1 = i /\ i + 1 \in 1..Len(items)
      BY <1>1
    <3>2. spent + u[i] = f[i] /\ u[i] \in Nat
      BY <1>3, <2>2, <3>1
    <3> DEFINE w == cost[items[i + 1]]
    <3>3. w \in Nat /\ u[i + 1] = u[i] + w /\ f[i + 1] = f[i] + w
      BY <1>1, <1>3, <1>4, <1>5, <3>1
    <3> HIDE DEF w
    <3> QED BY <3>2, <3>3
  <2> HIDE DEF T
  <2>3. Nat \subseteq T
    BY <2>1, <2>2, Induct
  <2> QED BY <2>3 DEF T
<1>7. m \in 0..m
  BY <1>1
<1> QED BY <1>1, <1>2, <1>6, <1>7 DEF r, u, f

\* What is packed is a prefix, and fits.
LEMMA PackKeeps ==
  ASSUME NEW S, NEW items \in Seq(S), NEW cost \in [S -> Nat], NEW budget \in Nat, NEW spent \in Nat
  PROVE  \E m \in 0..Len(items) :
            /\ PackToBudget(items, cost, budget, spent) = SubSeq(items, 1, m)
            /\ m # 0 => spent + Used(SubSeq(items, 1, m), cost, 0)[m] <= budget
<1> DEFINE f == Used(items, cost, spent)
           over == {n \in 1..Len(items) : f[n] > budget}
           first == CHOOSE n \in over : \A m \in over : n <= m
<1>1. PackToBudget(items, cost, budget, spent) = IF over = {} THEN items ELSE SubSeq(items, 1, first - 1)
  BY DEF PackToBudget, Used
<1>2. Len(items) \in Nat /\ items = SubSeq(items, 1, Len(items))
  OBVIOUS
<1>3. \A i \in 0..Len(items) : f[i] \in Nat
  BY UsedComputed, SMTT(30)
<1> HIDE DEF f
<1>4. \A m \in 1..Len(items) : m \notin over => f[m] <= budget
  <2> TAKE m \in 1..Len(items)
  <2> DEFINE w == f[m]
  <2>1. w \in Nat
    BY <1>2, <1>3
  <2>2. m \notin over => ~(w > budget)
    OBVIOUS
  <2> HIDE DEF w, over
  <2>3. m \notin over => w <= budget
    BY <2>1, <2>2
  <2> QED BY <2>3 DEF w
<1>5. over \subseteq 1..Len(items)
  OBVIOUS
<1> HIDE DEF over
<1>6. \E m \in 0..Len(items) : /\ PackToBudget(items, cost, budget, spent) = SubSeq(items, 1, m)
                               /\ m # 0 => f[m] <= budget
  <2>1. CASE over = {}
    <3>1. Len(items) \in 0..Len(items) /\ (Len(items) # 0 => Len(items) \in 1..Len(items))
      BY <1>2
    <3> QED BY <1>1, <1>2, <1>4, <2>1, <3>1
  <2>2. CASE over # {}
    <3>1. over \subseteq Nat
      BY <1>2, <1>5
    <3>2. first \in over /\ \A m \in over : first <= m
      <4>1. \E n \in over : \A m \in over : n <= m
        BY <2>2, <3>1, LeastNat
      <4> QED BY <4>1
    <3> HIDE DEF first
    <3>3. first - 1 \in 0..Len(items) /\ (first - 1 # 0 => first - 1 \in 1..Len(items)) /\ first - 1 < first
      BY <1>2, <1>5, <3>2
    <3>4. first - 1 \notin over
      BY <3>1, <3>2, <3>3
    <3> DEFINE m == first - 1
    <3>5. /\ m \in 0..Len(items) /\ (m # 0 => f[m] <= budget)
          /\ PackToBudget(items, cost, budget, spent) = SubSeq(items, 1, m)
      BY <1>1, <1>4, <2>2, <3>3, <3>4
    <3> HIDE DEF m
    <3> QED BY <3>5
  <2> HIDE DEF first
  <2> QED BY <2>1, <2>2, ZenonT(60)
<1>7. PICK m \in 0..Len(items) : /\ PackToBudget(items, cost, budget, spent) = SubSeq(items, 1, m)
                                 /\ m # 0 => f[m] <= budget
  BY <1>6
<1>8. spent + Used(SubSeq(items, 1, m), cost, 0)[m] = f[m]
  BY PrefixSpends DEF f
<1> QED BY <1>7, <1>8

\* New events behind an order.
LEMMA Appended ==
  ASSUME NEW S, NEW old \in Seq(S), IsInjective(old), NEW n \in Seq(S), IsInjective(n),
         \A i \in 1..Len(n) : ~Contains(old, n[i])
  PROVE  old \o n \in Seq(S) /\ IsInjective(old \o n) /\ Holds(old, old \o n, [k \in 1..Len(old) |-> k])
<1> DEFINE new == old \o n
           a == Len(old)
           b == Len(n)
<1>1. a \in Nat /\ b \in Nat /\ new \in Seq(S) /\ Len(new) = a + b
      /\ DOMAIN old = 1..a /\ DOMAIN n = 1..b
  OBVIOUS
<1>2. \A i \in 1..(a + b) : new[i] = IF i <= a THEN old[i] ELSE n[i - a]
  OBVIOUS
<1> HIDE DEF new, a, b
<1>3. \A i \in 1..b : \A j \in 1..a : old[j] # n[i]
  BY DEF Contains, a, b
<1>4. \A i, j \in 1..a : old[i] = old[j] => i = j
  BY <1>1 DEF IsInjective
<1>5. \A i, j \in 1..b : n[i] = n[j] => i = j
  BY <1>1 DEF IsInjective
<1>6. IsInjective(new)
  <2>1. DOMAIN new = 1..(a + b)
    BY <1>1
  <2>2. ASSUME NEW i \in 1..(a + b), NEW j \in 1..(a + b), new[i] = new[j] PROVE i = j
    <3>1. CASE i <= a /\ j <= a
      <4>1. i \in 1..a /\ j \in 1..a
        BY <1>1, <3>1
      <4> QED BY <1>2, <1>4, <2>2, <3>1, <4>1
    <3>2. CASE i <= a /\ ~(j <= a)
      <4>1. i \in 1..a /\ j - a \in 1..b
        BY <1>1, <3>2
      <4> QED BY <1>2, <1>3, <2>2, <3>2, <4>1
    <3>3. CASE ~(i <= a) /\ j <= a
      <4>1. j \in 1..a /\ i - a \in 1..b
        BY <1>1, <3>3
      <4>2. new[i] = n[i - a] /\ new[j] = old[j]
        BY <1>2, <3>3
      <4> QED BY <1>3, <2>2, <4>1, <4>2
    <3>4. CASE ~(i <= a) /\ ~(j <= a)
      <4>1. i - a \in 1..b /\ j - a \in 1..b
        BY <1>1, <3>4
      <4>2. i - a = j - a
        BY <1>2, <1>5, <2>2, <3>4, <4>1
      <4> QED BY <1>1, <4>2
    <3> QED BY <3>1, <3>2, <3>3, <3>4
  <2> QED BY <2>1, <2>2 DEF IsInjective
<1>7. Holds(old, new, [k \in 1..a |-> k])
  <2> DEFINE f == [k \in 1..a |-> k]
  <2>1. f \in [1..a -> 1..Len(new)]
    BY <1>1
  <2>2. \A k \in 1..a : f[k] = k /\ new[k] = old[k]
    BY <1>1, <1>2
  <2> HIDE DEF f
  <2>3. \A k \in 1..a : new[f[k]] = old[k]
    BY <2>2
  <2> QED BY <2>1, <2>2, <2>3 DEF Holds, a
<1> QED BY <1>1, <1>6, <1>7 DEF new, a

\* New events before an order.
LEMMA Prepended ==
  ASSUME NEW S, NEW old \in Seq(S), IsInjective(old), NEW n \in Seq(S), IsInjective(n),
         \A i \in 1..Len(n) : ~Contains(old, n[i])
  PROVE  n \o old \in Seq(S) /\ IsInjective(n \o old) /\ Holds(old, n \o old, [k \in 1..Len(old) |-> Len(n) + k])
<1> DEFINE new == n \o old
           a == Len(old)
           b == Len(n)
<1>1. a \in Nat /\ b \in Nat /\ new \in Seq(S) /\ Len(new) = a + b
      /\ DOMAIN old = 1..a /\ DOMAIN n = 1..b
  OBVIOUS
<1>2. \A i \in 1..(a + b) : new[i] = IF i <= b THEN n[i] ELSE old[i - b]
  OBVIOUS
<1> HIDE DEF new, a, b
<1>3. \A i \in 1..b : \A j \in 1..a : old[j] # n[i]
  BY DEF Contains, a, b
<1>4. \A i, j \in 1..a : old[i] = old[j] => i = j
  BY <1>1 DEF IsInjective
<1>5. \A i, j \in 1..b : n[i] = n[j] => i = j
  BY <1>1 DEF IsInjective
<1>6. IsInjective(new)
  <2>1. DOMAIN new = 1..(a + b)
    BY <1>1
  <2>2. ASSUME NEW i \in 1..(a + b), NEW j \in 1..(a + b), new[i] = new[j] PROVE i = j
    <3>1. CASE i <= b /\ j <= b
      <4>1. i \in 1..b /\ j \in 1..b
        BY <1>1, <3>1
      <4> QED BY <1>2, <1>5, <2>2, <3>1, <4>1
    <3>2. CASE i <= b /\ ~(j <= b)
      <4>1. i \in 1..b /\ j - b \in 1..a
        BY <1>1, <3>2
      <4> QED BY <1>2, <1>3, <2>2, <3>2, <4>1
    <3>3. CASE ~(i <= b) /\ j <= b
      <4>1. j \in 1..b /\ i - b \in 1..a
        BY <1>1, <3>3
      <4>2. new[i] = old[i - b] /\ new[j] = n[j]
        BY <1>2, <3>3
      <4> QED BY <1>3, <2>2, <4>1, <4>2
    <3>4. CASE ~(i <= b) /\ ~(j <= b)
      <4>1. i - b \in 1..a /\ j - b \in 1..a
        BY <1>1, <3>4
      <4>2. i - b = j - b
        BY <1>2, <1>4, <2>2, <3>4, <4>1
      <4> QED BY <1>1, <4>2
    <3> QED BY <3>1, <3>2, <3>3, <3>4
  <2> QED BY <2>1, <2>2 DEF IsInjective
<1>7. Holds(old, new, [k \in 1..a |-> b + k])
  <2> DEFINE f == [k \in 1..a |-> b + k]
  <2>1. f \in [1..a -> 1..Len(new)]
    BY <1>1
  <2>2. \A k \in 1..a : f[k] = b + k
    OBVIOUS
  <2>3. \A k \in 1..a : new[b + k] = old[k]
    <3> TAKE k \in 1..a
    <3>1. b + k \in 1..(a + b) /\ ~(b + k <= b) /\ (b + k) - b = k
      BY <1>1
    <3> QED BY <1>2, <3>1
  <2> HIDE DEF f
  <2>4. \A k \in 1..a : new[f[k]] = old[k]
    BY <2>2, <2>3
  <2>5. \A i, j \in 1..a : i < j => f[i] < f[j]
    BY <1>1, <2>2
  <2>6. Holds(old, new, f)
    BY <2>1, <2>4, <2>5 DEF Holds, a
  <2> QED BY <2>6 DEF f
<1> QED BY <1>1, <1>6, <1>7 DEF new, a, b

\* At most as many places of a ranking are taken by an order as the order is long.
LEMMA TakenPlaces ==
  ASSUME NEW S, NEW order \in Seq(S), NEW n \in Nat, NEW r, \A i, j \in 1..n : r[i] = r[j] => i = j,
         NEW P, P = {i \in 1..n : ~Contains(order, r[i])}
  PROVE  Cardinality(P) >= n - Len(order)
<1> DEFINE Q == {i \in 1..n : Contains(order, r[i])}
           L == Len(order)
<1>1. L \in Nat
  OBVIOUS
<1>2. \A i \in Q : \E k \in 1..L : order[k] = r[i]
  BY DEF Contains
<1>3. Q \subseteq 1..n /\ P \subseteq 1..n /\ P \cup Q = 1..n /\ P \cap Q = {}
  OBVIOUS
<1> HIDE DEF Q, L
<1> DEFINE f == [i \in Q |-> CHOOSE k \in 1..L : order[k] = r[i]]
<1>4. \A i \in Q : f[i] \in 1..L /\ order[f[i]] = r[i]
  BY <1>2
<1>5. f \in Injection(Q, 1..L)
  <2>1. f \in [Q -> 1..L]
    BY <1>4
  <2>2. \A i, j \in Q : f[i] = f[j] => i = j
    <3> HIDE DEF f
    <3> QED BY <1>3, <1>4
  <2> HIDE DEF f
  <2> QED BY <2>1, <2>2 DEF Injection, IsInjective
<1> HIDE DEF f
<1>6. IsFiniteSet(P) /\ IsFiniteSet(Q)
  BY <1>3, UpToFinite
<1>7. IsFiniteSet(1..L) /\ Cardinality(1..L) = L /\ Cardinality(1..n) = n
  <2>1. 1 \in Int /\ L \in Int /\ n \in Int
    BY <1>1
  <2>2. IsFiniteSet(1..L) /\ Cardinality(1..L) = IF 1 > L THEN 0 ELSE L - 1 + 1
    BY <2>1, FS_Interval
  <2>3. Cardinality(1..n) = IF 1 > n THEN 0 ELSE n - 1 + 1
    BY <2>1, FS_Interval
  <2> QED BY <1>1, <2>2, <2>3
<1>8. Cardinality(Q) <= L
  <2> DEFINE I == 1..L
  <2>1. f \in Injection(Q, I) /\ IsFiniteSet(I) /\ Cardinality(I) = L
    BY <1>5, <1>7
  <2> HIDE DEF I
  <2> QED BY <2>1, FS_Injection
<1>9. Cardinality(P \cup Q) = Cardinality(P) + Cardinality(Q) - Cardinality(P \cap Q)
  BY <1>6, FS_Union
<1>10. Cardinality(P) \in Nat /\ Cardinality(Q) \in Nat /\ Cardinality(P \cap Q) = 0
  BY <1>3, <1>6, FS_CardinalityType, FS_EmptySet
<1>11. Cardinality(P \cup Q) = n
  BY <1>3, <1>7
<1> QED BY <1>1, <1>8, <1>9, <1>10, <1>11 DEF L

-----------------------------------------------------------------------------
(* What sums, rankings and sequences hold.                                *)

\* A sequence holds finitely many things.
LEMMA SeqFinite ==
  ASSUME NEW S, NEW s \in Seq(S)
  PROVE  IsFiniteSet(ToSet(s)) /\ DOMAIN s = 1..Len(s) /\ Len(s) \in Nat
         /\ ToSet(s) = {s[i] : i \in 1..Len(s)} /\ ToSet(s) \subseteq S
<1> DEFINE D == 1..Len(s)
           E == {s[i] : i \in D}
<1>1. DOMAIN s = D /\ Len(s) \in Nat /\ \A i \in D : s[i] \in S
  OBVIOUS
<1>2. IsFiniteSet(D)
  BY <1>1, FS_Interval
<1>3. s \in [D -> E] /\ \A e \in E : \E i \in D : s[i] = e
  <2>1. s = [i \in D |-> s[i]]
    BY <1>1
  <2> HIDE DEF D
  <2> QED BY <2>1
<1> HIDE DEF D, E
<1>4. s \in Surjection(D, E)
  BY <1>3 DEF Surjection
<1>5. IsFiniteSet(E)
  BY <1>2, <1>4, FS_Surjection
<1>6. ToSet(s) = E
  BY <1>1 DEF ToSet, E
<1>7. E \subseteq S
  BY <1>1 DEF E
<1> QED BY <1>1, <1>5, <1>6, <1>7 DEF D, E

\* The least of some numbers.
LEMMA MinIs ==
  ASSUME NEW S, S \subseteq Int, NEW m \in S, \A x \in S : m <= x
  PROVE  Min(S) = m
<1>1. Min(S) \in S /\ \A x \in S : Min(S) <= x
  BY DEF Min
<1>2. Min(S) <= m /\ m <= Min(S)
  BY <1>1
<1>3. Min(S) \in Int /\ m \in Int
  BY <1>1
<1> QED BY <1>2, <1>3

\* A ranking lists every item once, the better scores first.
LEMMA RankedAll ==
  ASSUME NEW S, NEW sc, NEW key, Comparable(S, sc, key), NEW n, n = Cardinality(S), NEW r, r = Ranked(S, sc, key)
  PROVE  /\ n \in Nat /\ r \in Seq(S) /\ Len(r) = n /\ DOMAIN r = 1..n
         /\ \A e \in S : \E i \in 1..n : r[i] = e
         /\ \A i, j \in 1..n : i <= j => sc[r[i]] >= sc[r[j]]
<1>1. n \in Nat
  BY FS_CardinalityType DEF Comparable
<1>2. \A i \in 1..n : r[i] \in S /\ Rank(S, sc, key, r[i]) = i - 1
  BY RankedByRank
<1>3. r = [i \in 1..n |-> r[i]]
  BY DEF Ranked
<1>4. r \in Seq(S) /\ Len(r) = n /\ DOMAIN r = 1..n
  BY <1>1, <1>2, <1>3
<1>5. ASSUME NEW e \in S PROVE \E i \in 1..n : r[i] = e
  <2> DEFINE k == Rank(S, sc, key, e)
  <2>1. k \in 0..(n - 1)
    BY RankGrows
  <2>2. k + 1 \in 1..n
    BY <1>1, <2>1
  <2>3. r[k + 1] \in S /\ Rank(S, sc, key, r[k + 1]) = k
    BY <1>2, <2>1, <2>2
  <2>4. \A d \in S : d # e => Rank(S, sc, key, d) # k
    <3> SUFFICES ASSUME NEW d \in S, d # e PROVE Rank(S, sc, key, d) # Rank(S, sc, key, e)
      OBVIOUS
    <3>1. Before(sc, key, d, e) \/ Before(sc, key, e, d)
      BY OrderStrict
    <3>2. Rank(S, sc, key, d) < Rank(S, sc, key, e) \/ Rank(S, sc, key, e) < Rank(S, sc, key, d)
      BY <3>1, RankGrows
    <3>3. Rank(S, sc, key, d) \in 0..(n - 1) /\ Rank(S, sc, key, e) \in 0..(n - 1)
      BY RankGrows
    <3> QED BY <1>1, <3>2, <3>3
  <2>5. r[k + 1] = e
    BY <2>3, <2>4
  <2> QED BY <2>2, <2>5
<1>6. ASSUME NEW i \in 1..n, NEW j \in 1..n, i <= j PROVE sc[r[i]] >= sc[r[j]]
  <2>1. r[i] \in S /\ r[j] \in S /\ Rank(S, sc, key, r[i]) <= Rank(S, sc, key, r[j])
    BY <1>1, <1>2, <1>6
  <2> QED BY <2>1, RankOrdersScores
<1> QED BY <1>1, <1>4, <1>5, <1>6

\* A sum is reached place by place.
LEMMA SumComputed ==
  ASSUME NEW n \in Nat, NEW cost \in [1..n -> Nat]
  PROVE  \E f \in [0..n -> Nat] : /\ f[0] = 0 /\ \A i \in 1..n : f[i] = f[i - 1] + cost[i]
                                  /\ SumTo(cost, n) = f[n]
<1> DEFINE g == [i \in 1..n |-> [x \in Nat |-> x + cost[i]]]
<1>1. g \in [1..n -> [Nat -> Nat]]
  <2>1. ASSUME NEW i \in 1..n, NEW x \in Nat PROVE x + cost[i] \in Nat
    <3> DEFINE w == cost[i]
    <3>1. w \in Nat
      OBVIOUS
    <3> HIDE DEF w
    <3>2. x + w \in Nat
      BY <3>1
    <3> QED BY <3>2 DEF w
  <2> QED BY <2>1
<1>2. \A i \in 1..n : \A x \in Nat : g[i][x] = x + cost[i]
  OBVIOUS
<1> HIDE DEF g
<1>3. \E f \in [0..n -> Nat] : Follows(f, n, 0, g)
  BY <1>1, Recursion
<1>4. PICK f \in [0..n -> Nat] : f[0] = 0 /\ \A i \in 1..n : f[i] = g[i][f[i - 1]]
  BY <1>3 DEF Follows
<1>5. \A i \in 1..n : f[i] = f[i - 1] + cost[i]
  <2> TAKE i \in 1..n
  <2>1. i - 1 \in 0..n
    OBVIOUS
  <2>2. f[i - 1] \in Nat
    BY <1>4, <2>1
  <2> QED BY <1>2, <1>4, <2>2
<1> DEFINE Sums(h) == h = [i \in 0..n |-> IF i = 0 THEN 0 ELSE h[i - 1] + cost[i]]
           F == CHOOSE h : Sums(h)
<1>6. Sums(f)
  <2>1. \A i \in 0..n : i # 0 => i \in 1..n
    OBVIOUS
  <2> QED BY <1>4, <1>5, <2>1
<1>7. Sums(F)
  <2> HIDE DEF Sums
  <2> QED BY <1>6, Zenon
<1>8. SumTo(cost, n) = F[n]
  BY DEF SumTo
<1> HIDE DEF F
<1>9. \A k \in 0..n : F[k] = IF k = 0 THEN 0 ELSE F[k - 1] + cost[k]
  BY <1>7
<1> HIDE DEF Sums
<1>10. \A i \in Nat : i \in 0..n => F[i] = f[i]
  <2> DEFINE T == {i \in Nat : i \in 0..n => F[i] = f[i]}
  <2>1. 0 \in T
    <3>1. 0 \in 0..n
      OBVIOUS
    <3> QED BY <1>4, <1>9, <3>1
  <2>2. ASSUME NEW i \in Nat, i \in T PROVE i + 1 \in T
    <3> SUFFICES ASSUME i + 1 \in 0..n PROVE F[i + 1] = f[i + 1]
      OBVIOUS
    <3>1. i \in 0..n /\ i + 1 \in 1..n /\ i + 1 # 0 /\ (i + 1) - 1 = i
      OBVIOUS
    <3>2. F[i] = f[i]
      BY <2>2, <3>1
    <3>3. F[i + 1] = F[(i + 1) - 1] + cost[i + 1]
      BY <1>9, <3>1
    <3>4. f[i + 1] = f[(i + 1) - 1] + cost[i + 1]
      BY <1>5, <3>1
    <3> QED BY <3>1, <3>2, <3>3, <3>4
  <2> HIDE DEF T
  <2>3. Nat \subseteq T
    BY <2>1, <2>2, Induct
  <2> QED BY <2>3 DEF T
<1>11. n \in 0..n
  OBVIOUS
<1>12. SumTo(cost, n) = f[n]
  BY <1>8, <1>10, <1>11
<1> QED BY <1>4, <1>5, <1>12

\* What costs no less anywhere costs no less together.
LEMMA SumGrows ==
  ASSUME NEW n \in Nat, NEW cost \in [1..n -> Nat], NEW more \in [1..n -> Nat],
         \A i \in 1..n : cost[i] <= more[i]
  PROVE  SumTo(cost, n) \in Nat /\ SumTo(more, n) \in Nat /\ SumTo(cost, n) <= SumTo(more, n)
<1>1. PICK f \in [0..n -> Nat] : f[0] = 0 /\ (\A i \in 1..n : f[i] = f[i - 1] + cost[i]) /\ SumTo(cost, n) = f[n]
  BY SumComputed
<1>2. PICK g \in [0..n -> Nat] : g[0] = 0 /\ (\A i \in 1..n : g[i] = g[i - 1] + more[i]) /\ SumTo(more, n) = g[n]
  BY SumComputed
<1>3. \A i \in Nat : i \in 0..n => f[i] <= g[i]
  <2> DEFINE T == {i \in Nat : i \in 0..n => f[i] <= g[i]}
  <2>1. 0 \in T
    BY <1>1, <1>2
  <2>2. ASSUME NEW i \in Nat, i \in T PROVE i + 1 \in T
    <3> SUFFICES ASSUME i + 1 \in 0..n PROVE f[i + 1] <= g[i + 1]
      OBVIOUS
    <3>1. i \in 0..n /\ i + 1 \in 1..n /\ (i + 1) - 1 = i
      OBVIOUS
    <3>2. f[i] <= g[i] /\ f[i] \in Nat /\ g[i] \in Nat
      BY <2>2, <3>1
    <3>3. f[i + 1] = f[i] + cost[i + 1] /\ g[i + 1] = g[i] + more[i + 1]
      BY <1>1, <1>2, <3>1
    <3>4. cost[i + 1] \in Nat /\ more[i + 1] \in Nat /\ cost[i + 1] <= more[i + 1]
      BY <3>1
    <3> QED BY <3>2, <3>3, <3>4
  <2> HIDE DEF T
  <2>3. Nat \subseteq T
    BY <2>1, <2>2, Induct
  <2> QED BY <2>3 DEF T
<1>4. n \in 0..n
  OBVIOUS
<1>5. f[n] <= g[n] /\ f[n] \in Nat /\ g[n] \in Nat
  BY <1>3, <1>4
<1> QED BY <1>1, <1>2, <1>5

\* A sum is no less than any of its parts.
LEMMA SumAtLeast ==
  ASSUME NEW n \in Nat, NEW cost \in [1..n -> Nat]
  PROVE  SumTo(cost, n) \in Nat /\ \A i \in 1..n : cost[i] <= SumTo(cost, n)
<1>1. PICK f \in [0..n -> Nat] : f[0] = 0 /\ (\A i \in 1..n : f[i] = f[i - 1] + cost[i]) /\ SumTo(cost, n) = f[n]
  BY SumComputed
<1>2. ASSUME NEW i \in 1..n PROVE cost[i] <= f[n]
  <2> DEFINE T == {k \in Nat : i + k \in 0..n => cost[i] <= f[i + k]}
  <2>1. 0 \in T
    <3>1. i + 0 = i /\ i - 1 \in 0..n /\ i \in 0..n
      OBVIOUS
    <3>2. f[i] = f[i - 1] + cost[i] /\ f[i - 1] \in Nat /\ cost[i] \in Nat
      BY <1>1, <3>1
    <3> QED BY <3>1, <3>2
  <2>2. ASSUME NEW k \in Nat, k \in T PROVE k + 1 \in T
    <3> SUFFICES ASSUME i + (k + 1) \in 0..n PROVE cost[i] <= f[i + (k + 1)]
      OBVIOUS
    <3> DEFINE m == i + k
    <3>1. m \in 0..n /\ m + 1 \in 1..n /\ (m + 1) - 1 = m /\ i + (k + 1) = m + 1
      OBVIOUS
    <3>2. cost[i] <= f[m]
      BY <2>2, <3>1
    <3> HIDE DEF m
    <3>3. f[m + 1] = f[m] + cost[m + 1]
      BY <1>1, <3>1
    <3>4. f[m] \in Nat /\ cost[m + 1] \in Nat /\ cost[i] \in Nat
      BY <1>1, <3>1
    <3>5. cost[i] <= f[m + 1]
      BY <3>2, <3>3, <3>4
    <3> QED BY <3>1, <3>5
  <2> HIDE DEF T
  <2>3. Nat \subseteq T
    BY <2>1, <2>2, Induct
  <2>4. n - i \in Nat /\ i + (n - i) = n /\ n \in 0..n
    OBVIOUS
  <2> QED BY <2>3, <2>4 DEF T
<1>3. n \in 0..n
  OBVIOUS
<1> QED BY <1>1, <1>2, <1>3
=============================================================================
