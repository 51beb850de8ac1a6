---------------------------- MODULE AskPipeline ----------------------------
(***************************************************************************)
(* One run of ask() (src/src/core/ask.ts): route, probe, recall, discard,  *)
(* synthesise, log.  LLM calls are in flight concurrently and answer in    *)
(* any order; the handlers that run on an answer are atomic, as they are   *)
(* on the JavaScript thread.  Three switches select the schedule: parallel *)
(* or serial jobs, batched or one-by-one probes, eager recalls on or off.  *)
(* A call (completeAndValidate, providerJson.ts) makes one attempt and, if *)
(* the reply does not validate, a second; every answered attempt is billed.*)
(* Snapshot files are taken not to be deleted during the run (no code in   *)
(* src/ deletes one); a read that throws is StorageFails.                  *)
(***************************************************************************)
EXTENDS AskVerdicts, Selection

CONSTANTS LocalKeeps,  \* values of CSM_PROBE_LOCAL_KEEP; 0 = no local pre-gate
          MaxRetries   \* bound: replies that fail validation in one run

ASSUME GateBounds == LocalKeeps \subseteq Nat /\ MaxRetries \in Nat

Batch == <<"batch", 0>>
Synth == <<"synth", 0>>
ProbeOf(c) == <<"probe", c>>
RecallOf(c) == <<"recall", c>>
Call == ({"probe", "recall"} \X Cand) \cup {Batch, Synth}

VARIABLES
  mode,       \* the run's switches: a member of Mode
  pc,         \* where ask() is suspended
  probed,     \* the candidates that get a probe
  snaps,      \* those of them whose snapshot file was found
  verdict,    \* what each probe said
  call,       \* every LLM call: its status and its answered attempts
  entries,    \* eagerRecalls: candidates with an eager handler attached
  others,     \* eagerStartedOthers
  targets,    \* recallTargets
  at,         \* 0 until the recall cut; in a serial run, the job running
  cost,       \* cost: the attempts accounted for
  discarded,  \* discardedRecalls
  blame       \* why the run failed
vars == <<mode, pc, probed, snaps, verdict, call, entries, others, targets,
          at, cost, discarded, blame>>

Mode == [par : BOOLEAN, batch : BOOLEAN, eager : BOOLEAN, keep : LocalKeeps]
Idle == [st |-> "idle", tries |-> 0]
Flying == [st |-> "flying", tries |-> 0]
CallState == [st : {"idle", "flying", "ok", "failed"}, tries : 0..2]

IsIn(k, st) == call[k].st = st
Settled(k) == call[k].st \in {"ok", "failed"}

\* The batched probe is used for three candidates or more, if recalls are on.
Batched == mode.batch /\ Cardinality(probed) > 2 /\ MaxRecall > 0
Rest == snaps \ {Top}
ProbeCalls == IF Batched
              THEN {ProbeOf(c) : c \in snaps \cap {Top}} \cup {Batch : c \in Rest}
              ELSE {ProbeOf(c) : c \in snaps}
\* Probes run concurrently; with recalls on, eager handlers are attached.
AllAtOnce == mode.par \/ Batched
EagerPath == AllAtOnce /\ MaxRecall > 0

Lowest(S) == {c \in S : \A d \in S : c <= d}

\* The answered attempts of the calls in K (none has more than two), and those billed:
\* of the calls that succeeded.
Attempts(K) == Cardinality({k \in K : call[k].tries > 0})
               + Cardinality({k \in K : call[k].tries > 1})
Billed(K) == Attempts({k \in K : IsIn(k, "ok")})

Target == Range(targets)
Unselected == entries \ Target

Init == /\ mode \in Mode
        /\ pc = "route"
        /\ probed = {} /\ snaps = {}
        /\ verdict = [c \in Cand |-> NoVerdict]
        /\ call = [k \in Call |-> Idle]
        /\ entries = {} /\ others = 0
        /\ targets = <<>> /\ at = 0
        /\ cost = 0 /\ discarded = 0
        /\ blame = NoOne

-----------------------------------------------------------------------------
\* The local pre-gate keeps the top candidate and at most keep - 1 others.
Gate(n) == IF mode.keep > 0 /\ mode.keep < n
           THEN {P \in SUBSET (1..n) : Top \in P /\ Cardinality(P) = mode.keep}
           ELSE {1..n}

\* loadDirectory, the router's cut, the shrink and local gates, the snapshot
\* loads.  No candidate: straight to the empty packet.
Route == /\ pc = "route"
         /\ \E n \in 0..MaxProbe :
              /\ pc' = IF n = 0 THEN "finalize" ELSE "start"
              /\ probed' \in Gate(n)
         /\ snaps' \in SUBSET probed'
         /\ UNCHANGED <<mode, verdict, call, entries, others, targets, at, cost, discarded, blame>>

\* Slip: a handler is attached to a candidate without a snapshot.
StartProbes_NoSnapshotCheck ==
  /\ pc = "start"
  /\ pc' = "probe"
  /\ call' = [k \in Call |-> IF k \in (IF AllAtOnce THEN ProbeCalls
                                       ELSE {ProbeOf(c) : c \in Lowest(snaps)})
                            THEN Flying ELSE call[k]]
  /\ entries' = IF EagerPath THEN {c \in probed : c = Top \/ mode.eager} ELSE {}
  /\ UNCHANGED <<mode, probed, snaps, verdict, others, targets, at, cost, discarded, blame>>

\* The probes are launched (a serial run launches the first) and the eager
\* handlers attached.
StartProbes ==
  LET first == IF AllAtOnce THEN ProbeCalls
               ELSE {ProbeOf(c) : c \in Lowest(snaps)}
  IN /\ pc = "start"
     /\ pc' = "probe"
     /\ call' = [k \in Call |-> IF k \in first THEN Flying ELSE call[k]]
     /\ entries' = IF EagerPath THEN {c \in snaps : c = Top \/ mode.eager} ELSE {}
     /\ UNCHANGED <<mode, probed, snaps, verdict, others, targets, at, cost, discarded, blame>>

\* Slip: no slot is reserved for the top candidate.
EagerStarts_NoReservedSlot(D, vs) ==
  LET Q == {c \in D \cap entries : c # Top /\ vs[c].qual}
  IN (D \cap entries \cap {Top})
     \cup {c \in Q : others + Cardinality({d \in Q : d < c}) < MaxRecall}

\* The eager recalls that a handler run over the fresh verdicts vs of the
\* candidates in D starts: the top one always, the others if they qualify and
\* while a slot is left, in router order.
EagerStarts(D, vs) ==
  LET Q == {c \in D \cap entries : c # Top /\ vs[c].qual}
  IN (D \cap entries \cap {Top})
     \cup {c \in Q : others + Cardinality({d \in Q : d < c}) < MaxRecall - 1}

\* Slip: a serial run stops at a candidate without a snapshot.
NextProbe_StopsAtGap == IF AllAtOnce THEN {}
                        ELSE {ProbeOf(c) : c \in {d \in snaps : /\ IsIn(ProbeOf(d), "idle")
                                                              /\ d - 1 \in snaps}}

\* The probe a serial run makes next: a candidate without a snapshot is skipped.
NextProbe == IF AllAtOnce THEN {}
             ELSE {ProbeOf(c) : c \in Lowest({d \in snaps : IsIn(ProbeOf(d), "idle")})}

\* Call k answers with a verdict for every candidate in D; then the handlers
\* run.  A batch is accounted for here, a solo probe at the barrier.
Verdict(k, D) ==
  /\ IsIn(k, "flying")
  /\ \E v \in [D -> Verdicts] :
       LET starts == EagerStarts(D, v)
       IN /\ verdict' = [c \in Cand |-> IF c \in D THEN v[c] ELSE verdict[c]]
          /\ others' = others + Cardinality(starts \ {Top})
          /\ call' = [j \in Call |->
               CASE j = k -> [st |-> "ok", tries |-> call[k].tries + 1]
                 [] j \in NextProbe \cup {RecallOf(c) : c \in starts} -> Flying
                 [] OTHER -> call[j]]
  /\ cost' = IF k = Batch THEN cost + call[k].tries + 1 ELSE cost
  /\ UNCHANGED <<mode, pc, probed, snaps, entries, targets, at, discarded, blame>>

ProbeAnswers == \E c \in Cand : Verdict(ProbeOf(c), {c})
BatchAnswers == Verdict(Batch, Rest)

\* A recall or synthesis call answers.
OtherAnswers == /\ \E k \in ({"recall"} \X Cand) \cup {Synth} :
                     /\ IsIn(k, "flying")
                     /\ call' = [call EXCEPT ![k] = [st |-> "ok", tries |-> @.tries + 1]]
                /\ UNCHANGED <<mode, pc, probed, snaps, verdict, entries, others, targets, at,
                               cost, discarded, blame>>

Retries == Cardinality({k \in Call : call[k].tries > 0 /\ ~IsIn(k, "ok")})
           + Cardinality({k \in Call : call[k].tries > 1})

\* The first reply does not validate: the prompt is sent once more.
InvalidReply == /\ \E k \in Call : /\ IsIn(k, "flying") /\ call[k].tries = 0
                                   /\ Retries < MaxRetries
                                   /\ call' = [call EXCEPT ![k].tries = 1]
                /\ UNCHANGED <<mode, pc, probed, snaps, verdict, entries, others, targets, at,
                               cost, discarded, blame>>

\* The call throws: the provider failed, or the second reply is invalid too.
CallFails == /\ \E k \in Call :
                  /\ IsIn(k, "flying")
                  /\ call' \in {[call EXCEPT ![k].st = "failed"]} \cup
                               (IF call[k].tries = 1
                                THEN {[call EXCEPT ![k] = [st |-> "failed", tries |-> 2]]} ELSE {})
             /\ UNCHANGED <<mode, pc, probed, snaps, verdict, entries, others, targets, at,
                            cost, discarded, blame>>

-----------------------------------------------------------------------------
\* The recall cut: qualifying probes by score, router order on ties, then the
\* router-trust net.
Best == Selected(Qualifying(verdict), [c \in Cand |-> verdict[c].score],
                 [c \in Cand |-> c], MaxRecall)
Trusted == LET net == <<Top>> \o Best
           IN IF Len(net) > MaxRecall THEN SubSeq(net, 1, MaxRecall) ELSE net
RecallCut == IF Top \in Heard(verdict) \ Range(Best) THEN Trusted ELSE Best

\* A job whose eager call was made waits for it; any other makes its own.
LaunchJobs(cs) == [k \in Call |-> IF k \in {RecallOf(c) : c \in cs} /\ IsIn(k, "idle")
                                  THEN Flying ELSE call[k]]

Probing == pc = "probe" /\ \A k \in ProbeCalls : IsIn(k, "ok")

\* Slip: the views of the batch carry its usage.
SelectRecalls_BillsViews ==
  /\ Probing
  /\ cost' = cost + Billed(ProbeCalls)
  /\ targets' = RecallCut
  /\ at' = 1
  /\ call' = LaunchJobs(IF mode.par THEN Range(targets')
                        ELSE Range(SubSeq(targets', 1, IF targets' = <<>> THEN 0 ELSE 1)))
  /\ pc' = "recall"
  /\ UNCHANGED <<mode, probed, snaps, verdict, entries, others, discarded, blame>>

\* Every probe has answered: account for the solo ones, cut, launch the jobs.
SelectRecalls ==
  /\ Probing
  /\ cost' = cost + Billed(ProbeCalls \ {Batch})
  /\ targets' = RecallCut
  /\ at' = 1
  /\ call' = LaunchJobs(IF mode.par THEN Range(targets')
                        ELSE Range(SubSeq(targets', 1, IF targets' = <<>> THEN 0 ELSE 1)))
  /\ pc' = "recall"
  /\ UNCHANGED <<mode, probed, snaps, verdict, entries, others, discarded, blame>>

\* A serial run moves to its next recall job.
NextRecall == /\ pc = "recall" /\ ~mode.par
              /\ at <= Len(targets)
              /\ IsIn(RecallOf(targets[at]), "ok")
              /\ at' = at + 1
              /\ call' = LaunchJobs(IF at < Len(targets) THEN {targets[at + 1]} ELSE {})
              /\ UNCHANGED <<mode, pc, probed, snaps, verdict, entries, others, targets, cost,
                             discarded, blame>>

RecallsDone == /\ pc = "recall"
               /\ mode.par \/ at > Len(targets)
               /\ \A c \in Target : IsIn(RecallOf(c), "ok")
               /\ cost' = cost + Billed({RecallOf(c) : c \in Target})
               /\ pc' = "discard"
               /\ UNCHANGED <<mode, probed, snaps, verdict, call, entries, others, targets, at,
                              discarded, blame>>

\* Slip: a discarded recall is dropped without awaiting it.
DiscardPass_NoAwait ==
  /\ pc = "discard"
  /\ cost' = cost + Billed({RecallOf(c) : c \in Unselected})
  /\ discarded' = Cardinality({c \in Unselected : IsIn(RecallOf(c), "ok")})
  /\ IF Len(targets) > 1
     THEN pc' = "synth" /\ call' = [call EXCEPT ![Synth] = Flying]
     ELSE pc' = "finalize" /\ call' = call
  /\ UNCHANGED <<mode, probed, snaps, verdict, entries, others, targets, at, blame>>

\* Eager recalls the cut did not pick are awaited, billed and dropped; then
\* two recalls or more are synthesised by one more call.
DiscardPass == /\ pc = "discard"
               /\ \A c \in Unselected : ~IsIn(RecallOf(c), "flying")
               /\ cost' = cost + Billed({RecallOf(c) : c \in Unselected})
               /\ discarded' = Cardinality({c \in Unselected : IsIn(RecallOf(c), "ok")})
               /\ IF Len(targets) > 1
                  THEN pc' = "synth" /\ call' = [call EXCEPT ![Synth] = Flying]
                  ELSE pc' = "finalize" /\ call' = call
               /\ UNCHANGED <<mode, probed, snaps, verdict, entries, others, targets, at, blame>>

SynthDone == /\ pc = "synth" /\ IsIn(Synth, "ok")
             /\ cost' = cost + Billed({Synth})
             /\ pc' = "finalize"
             /\ UNCHANGED <<mode, probed, snaps, verdict, call, entries, others, targets, at,
                            discarded, blame>>

\* The query-run record is appended and the result returned.
Finalize == /\ pc = "finalize"
            /\ pc' = "done"
            /\ UNCHANGED <<mode, probed, snaps, verdict, call, entries, others, targets, at,
                           cost, discarded, blame>>

-----------------------------------------------------------------------------
\* Slip: the failure of an eager recall is not captured.
Awaited_EagerErrors == CASE pc = "probe" -> ProbeCalls \cup {RecallOf(c) : c \in entries}
                         [] pc = "recall" -> {RecallOf(c) : c \in Target \cup entries}
                         [] pc = "synth" -> {Synth}
                         [] OTHER -> {}

\* What ask() is awaiting, by the failure that would reject it.
Awaited == CASE pc = "probe" -> ProbeCalls
             [] pc = "recall" -> {RecallOf(c) : c \in
                                    IF mode.par THEN Target
                                    ELSE {targets[i] : i \in DOMAIN targets \cap {at}}}
             [] pc = "synth" -> {Synth}
             [] OTHER -> {}

\* A rejection reaches ask(); the calls still in flight are not cancelled.
Rejects == /\ \E k \in Awaited : IsIn(k, "failed") /\ blame' = k
           /\ pc' = "failed"
           /\ UNCHANGED <<mode, probed, snaps, verdict, call, entries, others, targets, at,
                          cost, discarded>>

\* A read of the store, or the append of the query-run record, throws.
StorageFails == /\ pc \in {"route", "start", "finalize"} \/ Probing
                /\ pc' = "failed"
                /\ blame' = <<"storage", 0>>
                /\ UNCHANGED <<mode, probed, snaps, verdict, call, entries, others, targets, at,
                               cost, discarded>>

Answers == ProbeAnswers \/ BatchAnswers \/ OtherAnswers \/ InvalidReply \/ CallFails
Steps == Route \/ StartProbes \/ SelectRecalls \/ NextRecall \/ RecallsDone \/ DiscardPass
         \/ SynthDone \/ Finalize \/ Rejects
Next == Answers \/ Steps \/ StorageFails

Spec == Init /\ [][Next]_vars

\* The thread resumes whatever can go on, and every call is answered or fails:
\* the providers bound the wait for a response and the number of retries.
FairSpec == Spec /\ WF_vars(Steps) /\ WF_vars(Answers)

-----------------------------------------------------------------------------
TypeOK == /\ mode \in Mode
          /\ pc \in {"route", "start", "probe", "recall", "discard", "synth", "finalize",
                     "done", "failed"}
          /\ probed \in SUBSET Cand
          /\ snaps \in SUBSET probed
          /\ verdict \in [Cand -> Verdicts \cup {NoVerdict}]
          /\ call \in [Call -> CallState]
          /\ entries \in SUBSET snaps
          /\ others \in Nat
          /\ targets \in Seq(Cand)
          /\ at \in Nat /\ cost \in Nat /\ discarded \in Nat
          /\ blame \in Call \cup {NoOne, <<"storage", 0>>}

\* A run that succeeds charges its caller once for every attempt of every call
\* that succeeded, whoever awaited it: no promise view of the shared batch, no
\* eager recall reused by a job and no discarded recall is billed twice or
\* forgotten (ask.ts:269-274, 319-323).
CostExact == pc = "done" => cost = Billed(Call)

\* ... and for every attempt of any call it made, as the comment on discarded
\* eager recalls has it: "their token usage accumulated honestly".
SpendCounted ==
  pc = "done" => cost = Attempts(Call)

\* Speculation is bounded: at most maxRecallShards - 1 recalls are wasted, none
\* unless eager recalls are on, and a run makes at most 2 * maxRecallShards - 1
\* recall calls (ask.ts:317-323, 331-334, 363-366).
SpeculationBounded ==
  LET made == {c \in Cand : ~IsIn(RecallOf(c), "idle")}
      wasted == IF at = 0 THEN {} ELSE {c \in made : c \notin Target}
  IN /\ MaxRecall > 0 => Cardinality(made) <= 2 * MaxRecall - 1
     /\ MaxRecall = 0 => made = {}
     /\ wasted # {} => mode.eager
     /\ MaxRecall > 0 => Cardinality(wasted) < MaxRecall

\* A run that succeeds leaves no call running that nobody will read or bill.
NothingLeftRunning == pc = "done" => \A k \in Call : ~IsIn(k, "flying")

\* No call is made twice: a recall job reuses the eager call of its shard.
CallsNeverRepeat == [][\A k \in Call : Settled(k) => call'[k] = call[k]]_vars

\* Whatever the schedule, what the caller sees is what AskSpec allows.
Abstract == INSTANCE AskSpec WITH
  stage <- CASE pc = "done" -> "answered"
             [] pc = "failed" -> "failed"
             [] pc \notin {"done", "failed"} /\ at = 0 -> "asking"
             [] OTHER -> "probed",
  verdicts <- IF at = 0 THEN [c \in Cand |-> NoVerdict] ELSE verdict,
  recalled <- IF pc = "done" THEN targets ELSE <<>>,
  culprit <- IF blame = Batch THEN ProbeOf(Top) ELSE blame

ScheduleInvisible == Abstract!ASpec

\* Every run ends, with a result or an error.
Terminates == <>(pc \in {"done", "failed"})

\* What a run may make, waste and leave behind.
RunBounded == TypeOK /\ SpeculationBounded /\ NothingLeftRunning
=============================================================================
