---------------------------- MODULE AskVerdicts ----------------------------
(***************************************************************************)
(* What a probe can say of a candidate shard, shared by the abstract and   *)
(* the detailed specification of ask().  Candidates are their positions in *)
(* the router's order, 1 being the router's top choice.                    *)
(***************************************************************************)
EXTENDS Integers, Sequences, Functions

CONSTANTS MaxProbe,    \* budget.maxProbeShards
          MaxRecall,   \* budget.maxRecallShards
          Scores,      \* the values scoreProbe can take
          NoVerdict    \* a candidate that was not probed

ASSUME AskBounds == /\ MaxProbe \in Nat \ {0}
                    /\ MaxRecall \in Nat
                    /\ Scores \subseteq Nat /\ Scores # {}

Cand == 1..MaxProbe
\* Nothing reads the score of a probe that does not qualify.
Verdicts == [qual : {TRUE}, score : Scores] \cup [qual : {FALSE}, score : {0}]

\* A verdict is an object, never the null of a shard that was not read.
ASSUME NoVerdictApart == NoVerdict \notin Verdicts

Top == 1

Heard(vs) == {c \in Cand : vs[c] # NoVerdict}
Qualifying(vs) == {c \in Heard(vs) : vs[c].qual}

\* d is recalled before c: higher probe score, router rank on a tie.
Outranks(vs, d, c) == \/ vs[d].score > vs[c].score
                      \/ vs[d].score = vs[c].score /\ d < c

\* The step a run failed at, when it did not.
NoOne == <<"none", 0>>
=============================================================================
