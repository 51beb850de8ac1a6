----------------------------- MODULE PairedArms -----------------------------
(***************************************************************************)
(* The gate scripts that compare two arms query by query:                  *)
(* scripts/answer-arms.ts answers, judge-arms.ts and the null test of      *)
(* calibrate-judge.ts score the answers.  Workers share a cursor over the  *)
(* queries; a worker asks for both arms of its query at once, each through *)
(* the cache and, in the judges, again under a key of its own when the     *)
(* reply does not parse.  The results are written when every worker has    *)
(* ended, so a killed script leaves nothing but the cache.                 *)
(*                                                                         *)
(* Two arms that retrieved the same context have the same prompt, hence    *)
(* the same key.  Scores are abstracted to the reply they are read from.   *)
(***************************************************************************)
EXTENDS LlmCache

CONSTANTS
    Items,      \* bound: the queries, 1..n in the order of the cursor
    MaxJobs,    \* bound: --jobs
    Junk,       \* a response that does not parse
    MaxKills    \* bound: how often the script is killed

Arms == {"a", "b"}
Legs == Items \X Arms
Scripts == {"answer", "judge"}

Workers == 1..MaxJobs

VARIABLES
    jobs,       \* --jobs: the workers 1..jobs run; never changes
    script,     \* which script runs; never changes
    same,       \* queries whose two arms have one prompt; never changes
    bare,       \* queries without a rubric; never changes
    cursor,     \* the next query nobody has taken
    worker,     \* the query each worker is at, 0 for none; -1 once it has ended
    leg,        \* attempt of each leg, and what it resolved to
    out,        \* the scored pairs
    excluded,   \* the queries counted as excluded or failed
    phase,      \* "running", "written", "aborted" or "killed"
    kills       \* history

armsVars == <<jobs, script, same, bare, cursor, worker, leg, out, excluded, phase, kills>>

NoReply == "noReply"    \* both attempts were unparsable

ASSUME ArmsConstants ==
    /\ IsFiniteSet(Items) /\ Items = 1..Cardinality(Items)
    /\ MaxJobs \in Nat \ {0} /\ MaxKills \in Nat
    /\ NoReply \notin Texts \cup {TooShort}
    /\ Legs \subseteq Callers
    /\ Items \X Arms \X {0, 1} \subseteq Keys
LegStates == {"unasked", "asking", "resolved", "rejected"}
NoLeg == [st |-> "unasked", attempt |-> 0, text |-> NoReply]

\* Slip: the attempt is not part of the key.
ArmKey_NoAttempt(i, arm, attempt) == <<i, IF i \in same THEN "a" ELSE arm, 0>>

ArmKey(i, arm, attempt) == <<i, IF i \in same THEN "a" ELSE arm, attempt>>

\* A judge reads a score from the reply and asks once more if there is none;
\* answer-arms keeps whatever it gets.
Parses(t) == t \notin {Junk, TooShort}
LastAttempt == IF script = "answer" THEN 0 ELSE 1

NewWorkers == [w \in Workers |-> IF w <= jobs THEN 0 ELSE -1]

ArmsIdle ==
    /\ cursor = 1
    /\ worker = NewWorkers
    /\ leg = [l \in Legs |-> NoLeg]
    /\ out = {}
    /\ excluded = {}
    /\ phase = "running"

ArmsInit ==
    /\ jobs \in Workers
    /\ script \in Scripts
    /\ same \in SUBSET Items
    /\ bare \in SUBSET Items
    /\ script = "answer" => bare = {}
    /\ ArmsIdle
    /\ kills = 0

fixed == <<jobs, script, same, bare>>

-----------------------------------------------------------------------------
(* Slips.                                                                  *)

\* A pair with one unusable arm is dropped without a count.
Record_Silent(w) ==
    /\ LET i == worker[w]
           a == leg[<<i, "a">>].text
           b == leg[<<i, "b">>].text
       IN  out' = IF NoReply \in {a, b} THEN out ELSE out \cup {[item |-> i, a |-> a, b |-> b]}
    /\ UNCHANGED excluded

\* A pair with an unusable arm is scored like any other.
Record_KeepsMissing(w) ==
    /\ out' = out \cup {[item |-> worker[w], a |-> leg[<<worker[w], "a">>].text,
                                            b |-> leg[<<worker[w], "b">>].text]}
    /\ UNCHANGED excluded

\* A worker that meets a failure ends.
AfterFailure_Ends(w) == worker' = [worker EXCEPT ![w] = -1]

-----------------------------------------------------------------------------
(* The actions.                                                            *)

\* const i = cursor++: take the next query, and end when there is none.  A
\* query without a rubric is excluded on the spot.
Take(w) ==
    /\ phase = "running"
    /\ worker[w] = 0
    /\ IF cursor \notin Items
       THEN /\ worker' = [worker EXCEPT ![w] = -1]
            /\ UNCHANGED <<cursor, leg, excluded, cacheVars>>
       ELSE /\ cursor' = cursor + 1
            /\ IF cursor \in bare
               THEN /\ excluded' = excluded \cup {cursor}
                    /\ UNCHANGED <<worker, leg, cacheVars>>
               ELSE /\ worker' = [worker EXCEPT ![w] = cursor]
                    /\ leg' = [l \in Legs |->
                           IF l[1] = cursor THEN [leg[l] EXCEPT !.st = "asking"] ELSE leg[l]]
                    /\ call' = [l \in Callers |->
                           IF l \in Legs /\ l[1] = cursor
                           THEN [NoCall EXCEPT !.pc = "lookup", !.name = l,
                                               !.key = ArmKey(l[1], l[2], 0)]
                           ELSE call[l]]
                    /\ UNCHANGED <<excluded, entry, tmp, bought>>
    /\ UNCHANGED <<fixed, out, phase, kills>>

Replied(l) == leg[l].st = "asking" /\ call[l].pc = "done"

\* The answer of an arm is kept as it came.
AnswerReply(l) ==
    /\ script = "answer"
    /\ Replied(l)
    /\ leg' = [leg EXCEPT ![l].st = "resolved", ![l].text = call[l].text]
    /\ Become(l, NoCall)
    /\ UNCHANGED <<entry, tmp, bought, fixed, cursor, worker, out, excluded, phase, kills>>

\* A judge's reply is read, or asked for again; after the last attempt the arm
\* goes without a score.
ScoreReply(l) ==
    /\ script = "judge"
    /\ Replied(l)
    /\ LET t == call[l].text
           n == leg[l].attempt
       IN  \/ /\ Parses(t)
              /\ leg' = [leg EXCEPT ![l].st = "resolved", ![l].text = t]
              /\ Become(l, NoCall)
           \/ /\ ~Parses(t) /\ n < LastAttempt
              /\ leg' = [leg EXCEPT ![l].attempt = n + 1]
              /\ Begin(l, ArmKey(l[1], l[2], n + 1))
           \/ /\ ~Parses(t) /\ n = LastAttempt
              /\ leg' = [leg EXCEPT ![l].st = "resolved"]
              /\ Become(l, NoCall)
    /\ UNCHANGED <<entry, tmp, bought, fixed, cursor, worker, out, excluded, phase, kills>>

\* The call threw: the sidecar failed, or the store did.
LegThrows(l) ==
    /\ leg[l].st = "asking"
    /\ call[l].pc = "failed"
    /\ leg' = [leg EXCEPT ![l].st = "rejected"]
    /\ Become(l, NoCall)
    /\ UNCHANGED <<entry, tmp, bought, fixed, cursor, worker, out, excluded, phase, kills>>

\* Both arms are there: the pair is scored, or excluded when a reply is missing.
Record(w) ==
    LET i == worker[w]
        a == leg[<<i, "a">>].text
        b == leg[<<i, "b">>].text
    IN  IF NoReply \in {a, b}
        THEN excluded' = excluded \cup {i} /\ UNCHANGED out
        ELSE out' = out \cup {[item |-> i, a |-> a, b |-> b]} /\ UNCHANGED excluded

PairDone(w) ==
    /\ phase = "running"
    /\ worker[w] \in Items
    /\ \A arm \in Arms : leg[<<worker[w], arm>>].st = "resolved"
    /\ Record(w)
    /\ worker' = [worker EXCEPT ![w] = 0]
    /\ UNCHANGED <<cacheVars, fixed, cursor, leg, phase, kills>>

\* One arm rejected: Promise.all rejects at once, whatever the other is at.
ArmFailed(w) ==
    /\ phase = "running"
    /\ worker[w] \in Items
    /\ \E arm \in Arms : leg[<<worker[w], arm>>].st = "rejected"

AfterFailure(w) == worker' = [worker EXCEPT ![w] = 0]

\* answer-arms counts the query and goes on, the other arm still in flight.
CountFailure(w) ==
    /\ script = "answer"
    /\ ArmFailed(w)
    /\ excluded' = excluded \cup {worker[w]}
    /\ AfterFailure(w)
    /\ UNCHANGED <<cacheVars, phase, fixed, cursor, leg, out, kills>>

\* The judges have no catch but main's, which ends the process.
Abort(w) ==
    /\ script = "judge"
    /\ ArmFailed(w)
    /\ phase' = "aborted"
    /\ CacheCrash
    /\ UNCHANGED <<worker, excluded, fixed, cursor, leg, out, kills>>

\* Every worker has ended: the results are written.
WriteResults ==
    /\ phase = "running"
    /\ \A w \in Workers : worker[w] = -1
    /\ phase' = "written"
    /\ UNCHANGED <<cacheVars, fixed, cursor, worker, leg, out, excluded, kills>>

\* No continuation is left to run.  The event loop takes up the result of the
\* next file or network operation only then.
HandsFree ==
    /\ phase = "running"
    /\ \A l \in Legs : leg[l].st = "asking" => call[l].pc \notin {"done", "failed"}
    /\ \A w \in Workers :
        /\ worker[w] # 0
        /\ worker[w] \in Items =>
              /\ \A arm \in Arms : leg[<<worker[w], arm>>].st # "rejected"
              /\ \E arm \in Arms : leg[<<worker[w], arm>>].st # "resolved"

\* The script is killed and, like one that aborted, may be started again.
Kill ==
    /\ HandsFree
    /\ kills < MaxKills
    /\ kills' = kills + 1
    /\ phase' = "killed"
    /\ CacheCrash
    /\ UNCHANGED <<fixed, cursor, worker, leg, out, excluded>>

StartAgain ==
    /\ phase \in {"killed", "aborted"}
    /\ phase = "aborted" => kills < MaxKills
    /\ kills' = IF phase = "aborted" THEN kills + 1 ELSE kills
    /\ cursor' = 1
    /\ worker' = NewWorkers
    /\ leg' = [l \in Legs |-> NoLeg]
    /\ out' = {} /\ excluded' = {} /\ phase' = "running"
    /\ UNCHANGED <<cacheVars, fixed>>

LegStep(l) ==
    \/ HandsFree /\ CallStep(l) /\ UNCHANGED armsVars
    \/ AnswerReply(l)
    \/ ScoreReply(l)
    \/ LegThrows(l)

WorkerStep(w) == Take(w) \/ PairDone(w) \/ CountFailure(w) \/ Abort(w)

ArmsNext ==
    \/ \E w \in Workers : WorkerStep(w)
    \/ \E l \in Legs : LegStep(l)
    \/ WriteResults
    \/ Kill
    \/ StartAgain

ArmsSpec == CacheInit /\ ArmsInit /\ [][ArmsNext]_<<cacheVars, armsVars>>

-----------------------------------------------------------------------------
(* Properties.                                                             *)

SharedKeys == same \X Arms \X {0, 1}

ArmsTypeOK ==
    /\ cursor \in 1..Cardinality(Items) + 1
    /\ worker \in [Workers -> Items \cup {0, -1}]
    /\ leg \in [Legs -> [st: LegStates, attempt: 0..1, text: Texts \cup {TooShort, NoReply}]]
    /\ out \subseteq [item: Items, a: Texts \cup {TooShort}, b: Texts \cup {TooShort}]
    /\ excluded \subseteq Items
    /\ phase \in {"running", "written", "aborted", "killed"}

\* Whatever is killed when, an entry is the whole text of a response ("a crash
\* mid-write never produces a half-written file", cache.ts:139-142), as long as
\* no two calls of the process store under its key at a time.
EntryWhole ==
    \A k \in Keys \ SharedKeys : entry[k] \notin Torn

\* Every query ends up once, as a scored pair or as a counted exclusion: a
\* silent drop would un-pair the comparison (answer-arms.ts:284-286).
EveryQueryCounted ==
    phase = "written" =>
        \A i \in Items :
            Cardinality({r \in out : r.item = i}) = IF i \in excluded THEN 0 ELSE 1

\* A query is excluded for want of a reply only after each attempt of an arm drew
\* an unparsable reply of its own: a retry is never answered from the cache with
\* the reply it retries (calibrate-judge.ts:222-224).
RetryIsFresh ==
    \A l \in Legs :
        l[1] \notin same /\ leg[l].st = "resolved" /\ leg[l].text = NoReply =>
            \A n \in 0..LastAttempt : heard[<<l[1], l[2], n>>] \cap {Junk, TooShort} # {}

\* The artifact can be replayed: each reply a score was read from is the one the
\* cache holds, for a query whose two arms have different prompts ("replay reads
\* from disk", cachedLlm.ts:11-20).  Replies too short to store are the exception.
ReplayReproduces ==
    phase = "written" =>
        \A r \in out : r.item \notin same =>
            \A arm \in Arms :
                \/ r[arm] = TooShort
                \/ \E n \in 0..LastAttempt : entry[ArmKey(r.item, arm, n)] = r[arm]

\* A response that is stored is not bought again, kills and restarts included,
\* apart from the keys two calls may ask for at a time (cachedLlm.ts:11-20).
NeverBoughtAgain ==
    [][\A k \in Keys \ SharedKeys : entry[k] \in Texts => paid'[k] = paid[k]]_cacheVars

\* A gate compares pairs: nothing is dropped silently, no retry is a rerun of the
\* stored reply, and every score can be read again from the cache.
ArmsPaired == ArmsTypeOK /\ EntryWhole /\ EveryQueryCounted /\ RetryIsFresh /\ ReplayReproduces
=============================================================================
