----------------------------- MODULE Selection -----------------------------
(***************************************************************************)
(* The selection kernel (src/src/core/selection.ts): rank, cut, and say    *)
(* whether the cut meant anything.  Items are the elements of a finite set *)
(* S; sc[e] is the score of an item and key[e] its place in the tie-break  *)
(* ("key-asc" with distinct keys, or "stable" with the input positions).   *)
(***************************************************************************)
EXTENDS Integers, Sequences, FiniteSets

Before(sc, key, d, e) == \/ sc[d] > sc[e]
                         \/ sc[d] = sc[e] /\ key[d] < key[e]

\* The items that are ranked before e.
Ahead(S, sc, key, e) == {d \in S : Before(sc, key, d, e)}

Ranked(S, sc, key) ==
  [i \in 1..Cardinality(S) |->
     CHOOSE e \in S : Cardinality(Ahead(S, sc, key, e)) = i - 1]

Cut(S, limit) == IF limit < Cardinality(S) THEN limit ELSE Cardinality(S)

Selected(S, sc, key, limit) == SubSeq(Ranked(S, sc, key), 1, Cut(S, limit))

\* Slip: the tie is looked for one place too early.
TiesAtCut_Early(S, sc, key, limit) ==
  LET r == Ranked(S, sc, key)
      cut == Cut(S, limit)
  IN cut < Cardinality(S) /\ cut > 1 /\ sc[r[cut - 1]] = sc[r[cut]]

\* The boundary of the cut lies inside a run of equal scores.
TiesAtCut(S, sc, key, limit) ==
  LET r == Ranked(S, sc, key)
      cut == Cut(S, limit)
  IN cut < Cardinality(S) /\ sc[r[cut]] = sc[r[cut + 1]]

\* No item scores above the floor, which every caller leaves at 0.
NoSignal(S, sc) == \A e \in S : sc[e] <= 0

Discriminated(S, sc, key, limit) ==
  /\ S # {} /\ limit > 0
  /\ ~NoSignal(S, sc)
  /\ ~TiesAtCut(S, sc, key, limit)
-----------------------------------------------------------------------------
\* The items at the places P, in order.
ItemsAt(items, P) ==
  [n \in 1..Cardinality(P) |-> items[CHOOSE i \in P : Cardinality({j \in P : j < i}) = n - 1]]

\* The first occurrence of every item, in order.
DedupeInOrder(items) ==
  ItemsAt(items, {i \in DOMAIN items : \A j \in 1..(i - 1) : items[j] # items[i]})

\* What the first n cost together.
SumTo(cost, n) == LET sum[i \in 0..n] == IF i = 0 THEN 0 ELSE sum[i - 1] + cost[i] IN sum[n]

FirstOf(items, n) == SubSeq(items, 1, IF n < Len(items) THEN n ELSE Len(items))

\* The items before the first that does not fit what is left of the budget.
PackToBudget(items, cost, budget, spent) ==
  LET used[n \in 0..Len(items)] == IF n = 0 THEN spent ELSE used[n - 1] + cost[items[n]]
      over == {n \in 1..Len(items) : used[n] > budget}
      first == CHOOSE n \in over : \A m \in over : n <= m
  IN IF over = {} THEN items ELSE SubSeq(items, 1, first - 1)
=============================================================================
