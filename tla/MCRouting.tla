----------------------------- MODULE MCRouting -----------------------------
(***************************************************************************)
(* Routing for TLC: three entries, of which two become candidates, scores  *)
(* apart by less, by exactly and by more than keepWithin, and any entries  *)
(* active.                                                                 *)
(***************************************************************************)
EXTENDS Routing

ThreeEntries == 1..3
ThreeScores == 0..2
AnyActive == SUBSET ThreeEntries
=============================================================================
