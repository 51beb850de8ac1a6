--------------------------- MODULE MCAskPipeline ---------------------------
(***************************************************************************)
(* AskPipeline for TLC: three candidates are the fewest for which a batch  *)
(* is used, two recalls the fewest for which one eager slot exists beside  *)
(* the top one, two scores the fewest for which the cut can reorder.       *)
(***************************************************************************)
EXTENDS AskPipeline

TwoScores == {0, 1}

\* A switch is set only where it can change a run: two candidates make no batch, and
\* nothing is eager while probes go one at a time.
Telling(m) == (m.keep # 0 => ~m.batch) /\ (m.eager => m.par \/ m.batch)

MCInit == Init /\ Telling(mode)
MCSpec == MCInit /\ [][Next]_vars /\ WF_vars(Steps) /\ WF_vars(Answers)
=============================================================================
