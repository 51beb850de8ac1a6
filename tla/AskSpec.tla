------------------------------ MODULE AskSpec ------------------------------
(***************************************************************************)
(* What ask() (src/src/core/ask.ts) promises its caller, whatever schedule *)
(* the run was made under: the router's candidates are probed, the shards  *)
(* that qualify are recalled best first, the router's own first choice is  *)
(* recalled in any case, and the run fails only for a call that a          *)
(* one-call-at-a-time execution would have made too.                       *)
(***************************************************************************)
EXTENDS AskVerdicts

\* A recall order ask() may produce from the verdicts vs.
LegalRecall(vs, r) ==
  LET R == Range(r) IN
  /\ Len(r) <= MaxRecall
  /\ \A i, j \in DOMAIN r : i # j => r[i] # r[j]
  /\ R \subseteq Qualifying(vs) \cup ({Top} \cap Heard(vs))
  /\ MaxRecall > 0 => {Top} \cap Heard(vs) \subseteq R
  /\ \A i, j \in DOMAIN r : i < j => \/ Outranks(vs, r[i], r[j])
                                     \/ i = 1 /\ r[1] = Top
  /\ \A c \in Qualifying(vs) \ R :
        /\ Len(r) = MaxRecall
        /\ \A d \in R \ {Top} : Outranks(vs, d, c)

Orders == UNION {[1..n -> Cand] : n \in 0..MaxRecall}

VARIABLES stage,      \* "asking", "probed", "answered" or "failed"
          verdicts,   \* what the probe stage established
          recalled,   \* the recalls the packet is made of, in order
          culprit     \* the step a failed run failed at
avars == <<stage, verdicts, recalled, culprit>>

AInit == /\ stage = "asking"
         /\ verdicts = [c \in Cand |-> NoVerdict]
         /\ recalled = <<>>
         /\ culprit = NoOne

\* The probe stage ends with a verdict for each shard it could ask.
Probed == /\ stage = "asking"
          /\ stage' = "probed"
          /\ verdicts' \in [Cand -> Verdicts \cup {NoVerdict}]
          /\ UNCHANGED <<recalled, culprit>>

Answered == /\ stage \in {"asking", "probed"}
            /\ stage' = "answered"
            /\ recalled' \in Orders
            /\ LegalRecall(verdicts, recalled')
            /\ UNCHANGED <<verdicts, culprit>>

ProbeFailed == /\ stage = "asking"
               /\ \E c \in Cand : culprit' = <<"probe", c>>

RecallFailed == /\ stage = "probed"
                /\ \E r \in Orders : /\ LegalRecall(verdicts, r)
                                     /\ \E c \in Range(r) : culprit' = <<"recall", c>>

SynthFailed == /\ stage = "probed"
               /\ \E r \in Orders : LegalRecall(verdicts, r) /\ Len(r) > 1
               /\ culprit' = <<"synth", 0>>

StorageFailed == /\ stage \in {"asking", "probed"}
                 /\ culprit' = <<"storage", 0>>

Failed == /\ ProbeFailed \/ RecallFailed \/ SynthFailed \/ StorageFailed
          /\ stage' = "failed"
          /\ UNCHANGED <<verdicts, recalled>>

ANext == Probed \/ Answered \/ Failed

ASpec == AInit /\ [][ANext]_avars
=============================================================================
