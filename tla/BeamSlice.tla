------------------------------ MODULE BeamSlice ------------------------------
(***************************************************************************)
(* The BEAM slice driver (scripts/run-beam-slice.ts): one list of pending  *)
(* queries over all units, a pool of workers, write-time profiles and      *)
(* fact registries built once per unit and run, appends in one chain of    *)
(* promises, and resumption from the ids found in payloads.jsonl.          *)
(*                                                                         *)
(* A file of lines is abstracted to what its readers make of it: the lines *)
(* that can be read, each with its query and the retrieval it came from,   *)
(* and whether the last one lacks its newline.  The documents of a query   *)
(* are appended at once and count as a line.                               *)
(***************************************************************************)
EXTENDS Integers, Sequences, FiniteSets, SequencesExt

CONSTANTS
    Selected,   \* the queries of the run, in order
    UnitOf,     \* the unit (user) of a query
    Synth,      \* queries whose answer has synthesised documents
    Unscoped,   \* units without a document in scope
    SliceJobs,
    MaxStarts,  \* bound: times the driver is started
    MaxSpoils   \* bound: builds, retrievals and appends that fail

Queried == ToSet(Selected)
Units == {UnitOf[q] : q \in Queried}
Builders == {"profile", "facts"}
SliceWorkers == 1..SliceJobs

ASSUME SliceConstants ==
    /\ SliceJobs \in Nat \ {0} /\ MaxStarts \in Nat \ {0} /\ MaxSpoils \in Nat
    /\ Synth \subseteq Queried /\ Unscoped \subseteq Units
    /\ Selected \in Seq(Queried) /\ Selected # << >>
    /\ \A i, j \in DOMAIN Selected : Selected[i] = Selected[j] => i = j     \* ids are unique (beam.ts:29)

VARIABLES
    saved,          \* the readable lines <<file, query, retrieval>> of payloads.jsonl
                    \* ("rows") and synthesized-docs.jsonl ("docs")
    ragged,         \* the files whose last line has no newline
    loose,          \* of the lines in saved, those without their newline
    todo,           \* tasks not claimed, by their positions in Selected
    memo,           \* prefProfiles and factRegistries
    worker,
    chain,          \* appendChain: the queries that wait for their turn
    half,           \* the head of the chain has its documents appended
    poisoned,       \* a link of the chain has been rejected
    act,            \* "running", then "summarised", "rejected" or "killed"
    starts, spoils, \* histories: starts of the driver, things that failed
    tried,          \* history: retrievals of a query
    begun,          \* history: builds begun in this run
    joined          \* history: the lines that became part of another, and in which start

files == <<saved, ragged, loose, joined>>
sliceVars == <<files, todo, memo, worker, chain, half, poisoned, act, starts, spoils,
               tried, begun>>

OffDuty == [pc |-> "idle", q |-> Selected[1]]
Working(w) == worker[w].pc \in {"profile", "facts", "retrieving", "appending"}
Goes(w, pc) == worker' = [worker EXCEPT ![w].pc = pc]
Spoil == spoils < MaxSpoils /\ spoils' = spoils + 1

\* The retrievals a reader of the file finds for a query.
LinesOf(f, q) == {n \in 0..MaxStarts : <<f, q, n>> \in saved}
HasRow(q) == LinesOf("rows", q) # {}
Skipped(q) == UnitOf[q] \in Unscoped

\* Slip: every query that was ever begun counts as done.
Pending_Claimed ==
    {i \in DOMAIN Selected : ~HasRow(Selected[i]) /\ ~Skipped(Selected[i]) /\ tried[Selected[i]] = 0}

\* Slip: every selected query is run again.
Pending_All == DOMAIN Selected

\* What a start of the driver has to do: the queries without a readable row, but for
\* those of a unit without documents, which is passed over.
Pending == {i \in DOMAIN Selected : ~HasRow(Selected[i]) /\ ~Skipped(Selected[i])}

SliceIdle ==
    /\ saved = {} /\ ragged = {} /\ loose = {} /\ joined = {}
    /\ todo = {i \in DOMAIN Selected : ~Skipped(Selected[i])}
    /\ memo = [b \in Builders |-> [u \in Units |-> "unset"]]
    /\ worker = [w \in SliceWorkers |-> OffDuty]
    /\ chain = << >> /\ half = FALSE /\ poisoned = FALSE
    /\ tried = [q \in Queried |-> 0]
    /\ begun = [b \in Builders |-> [u \in Units |-> 0]]

SliceInit == act = "running" /\ starts = 1 /\ spoils = 0 /\ SliceIdle

-----------------------------------------------------------------------------
(* Slips.                                                                  *)

\* The promise is remembered when it settles.
BuildText_Late(b, u) ==
    /\ begun' = [begun EXCEPT ![b][u] = IF memo[b][u] \in {"text", "none"} THEN @ ELSE @ + 1]
    /\ memo' = [memo EXCEPT ![b][u] = IF @ = "unset" THEN "building" ELSE @]

\* The rejection of a build is not caught.
Settle_Rejects(b, u) ==
    /\ memo[b][u] = "building"
    /\ \/ memo' = [memo EXCEPT ![b][u] = "text"] /\ UNCHANGED spoils
       \/ memo' = [memo EXCEPT ![b][u] = "rejected"] /\ Spoil
    /\ UNCHANGED <<files, todo, worker, chain, half, poisoned, act, starts, tried, begun>>

-----------------------------------------------------------------------------
(* One worker.                                                             *)

\* getPreferenceProfile and getFactRegistry: the first caller of a unit starts
\* the build and remembers its promise before anything is awaited.
BuildText(b, u) ==
    /\ begun' = [begun EXCEPT ![b][u] = IF memo[b][u] = "unset" THEN @ + 1 ELSE @]
    /\ memo' = [memo EXCEPT ![b][u] = IF @ = "unset" THEN "building" ELSE @]

Claim(w) ==
    /\ act \in {"running", "rejected"} /\ worker[w].pc = "idle"
    /\ \E i \in todo :
        /\ \A j \in todo : i <= j
        /\ todo' = todo \ {i}
        /\ worker' = [worker EXCEPT ![w] = [pc |-> "profile", q |-> Selected[i]]]
        /\ BuildText("profile", UnitOf[Selected[i]])
    /\ UNCHANGED <<files, chain, half, poisoned, act, starts, spoils, tried>>

\* A build that fails stands for the text that is missing: it fails no query.
Settle(b, u) ==
    /\ act \in {"running", "rejected"} /\ memo[b][u] = "building"
    /\ \/ memo' = [memo EXCEPT ![b][u] = "text"] /\ UNCHANGED spoils
       \/ memo' = [memo EXCEPT ![b][u] = "none"] /\ Spoil
    /\ UNCHANGED <<files, todo, worker, chain, half, poisoned, act, starts, tried, begun>>

\* Slip: a worker that waits for a build wakes only when there is a text.
HasProfile_TextOnly(w) ==
    /\ worker[w].pc = "profile" /\ memo["profile"][UnitOf[worker[w].q]] = "text"
    /\ BuildText("facts", UnitOf[worker[w].q])
    /\ Goes(w, "facts")
    /\ UNCHANGED <<files, todo, chain, half, poisoned, act, starts, spoils, tried>>

HasProfile(w) ==
    /\ worker[w].pc = "profile" /\ memo["profile"][UnitOf[worker[w].q]] \in {"text", "none"}
    /\ BuildText("facts", UnitOf[worker[w].q])
    /\ Goes(w, "facts")
    /\ UNCHANGED <<files, todo, chain, half, poisoned, act, starts, spoils, tried>>

HasFacts(w) ==
    /\ worker[w].pc = "facts" /\ memo["facts"][UnitOf[worker[w].q]] \in {"text", "none"}
    /\ Goes(w, "retrieving")
    /\ UNCHANGED <<files, todo, memo, chain, half, poisoned, act, starts, spoils, tried, begun>>

\* executeAmbRetrieve returns: the append is chained behind the others; behind a
\* rejected link it is never made and the worker's await rejects.
Retrieved(w) ==
    /\ worker[w].pc = "retrieving"
    /\ tried' = [tried EXCEPT ![worker[w].q] = @ + 1]
    /\ IF poisoned
       THEN Goes(w, "dead") /\ act' = "rejected" /\ UNCHANGED chain
       ELSE Goes(w, "appending") /\ chain' = Append(chain, worker[w].q) /\ UNCHANGED act
    /\ UNCHANGED <<files, todo, memo, half, poisoned, starts, spoils, begun>>

\* It throws: this worker ends and the run is rejected, while the others, which
\* nobody stops, go on claiming tasks.
RetrieveFails(w) ==
    /\ worker[w].pc = "retrieving"
    /\ Spoil
    /\ Goes(w, "dead") /\ act' = "rejected"
    /\ UNCHANGED <<files, todo, memo, chain, half, poisoned, starts, tried, begun>>

-----------------------------------------------------------------------------
(* The chain of appends.                                                   *)

\* appendFile ends "whole", or stops with a part of its text ("torn") or with all
\* of it but the newline ("bare").  What is written to a ragged file becomes part of
\* its last line, and neither can be read.
AppendFile(f, q, how) ==
    LET line == <<f, q, tried[q]>>
        gone == {l \in loose : l[1] = f}
        new(readable) == IF readable /\ f \notin ragged THEN {line} ELSE {}
    IN  /\ saved' = (saved \ gone) \cup new(how # "torn")
        /\ loose' = (loose \ gone) \cup new(how = "bare")
        /\ ragged' = IF how = "whole" THEN ragged \ {f} ELSE ragged \cup {f}
        /\ joined' = IF f \in ragged THEN joined \cup ({starts} \X (gone \cup {line})) ELSE joined

\* The file the head is about to write: its documents, if it has any, then its row.
Target == IF ~half /\ Head(chain) \in Synth THEN "docs" ELSE "rows"

\* Its worker goes on.
Released(q) ==
    worker' = [w \in SliceWorkers |->
                 IF worker[w].pc = "appending" /\ worker[w].q = q THEN OffDuty ELSE worker[w]]

\* Slip: the row goes first, the documents after it.
AppendNext_RowFirst ==
    /\ chain # << >> /\ ~poisoned
    /\ LET q == Head(chain) IN
       /\ AppendFile(IF half THEN "docs" ELSE "rows", q, "whole")
       /\ IF ~half /\ q \in Synth
          THEN half' = TRUE /\ UNCHANGED <<chain, worker>>
          ELSE chain' = Tail(chain) /\ half' = FALSE /\ Released(q)
    /\ UNCHANGED <<todo, memo, poisoned, act, starts, spoils, tried, begun>>

\* The head of the chain appends its documents, then its row; then the next one.
AppendNext ==
    /\ chain # << >> /\ ~poisoned
    /\ AppendFile(Target, Head(chain), "whole")
    /\ IF Target = "docs"
       THEN half' = TRUE /\ UNCHANGED <<chain, worker>>
       ELSE chain' = Tail(chain) /\ half' = FALSE /\ Released(Head(chain))
    /\ UNCHANGED <<todo, memo, poisoned, act, starts, spoils, tried, begun>>

\* What an append that is cut short leaves of its text.
CutShort ==
    \/ UNCHANGED files
    \/ \E how \in {"torn", "bare", "whole"} : AppendFile(Target, Head(chain), how)

\* An append fails, as late as at the closing of the file: every link behind it is
\* rejected with it.
AppendFails ==
    /\ chain # << >> /\ ~poisoned
    /\ Spoil
    /\ CutShort
    /\ poisoned' = TRUE /\ act' = "rejected"
    /\ chain' = << >> /\ half' = FALSE
    /\ worker' = [w \in SliceWorkers |->
                    IF worker[w].pc = "appending" THEN [worker[w] EXCEPT !.pc = "dead"] ELSE worker[w]]
    /\ UNCHANGED <<todo, memo, starts, tried, begun>>

-----------------------------------------------------------------------------
(* The run.                                                                *)

\* Promise.all resolves when every worker found the list empty.
Summarise ==
    /\ act = "running" /\ todo = {} /\ \A w \in SliceWorkers : worker[w].pc = "idle"
    /\ act' = "summarised"
    /\ UNCHANGED <<files, todo, memo, worker, chain, half, poisoned, starts, spoils, tried, begun>>

\* The process is killed, in the middle of an append perhaps.
Kill ==
    /\ act \in {"running", "rejected"} /\ starts < MaxStarts
    /\ act' = "killed"
    /\ IF chain # << >> /\ ~poisoned THEN CutShort ELSE UNCHANGED files
    /\ UNCHANGED <<todo, memo, worker, chain, half, poisoned, starts, spoils, tried, begun>>

\* No worker of a rejected run has anything left to do: the process ends.
Spent == act = "rejected" /\ \A w \in SliceWorkers :
            worker[w].pc = "dead" \/ (worker[w].pc = "idle" /\ todo = {})

\* The driver is started again with --resume: the run directory is read, all
\* else starts afresh.
Resume ==
    /\ act \in {"killed", "summarised"} \/ Spent
    /\ starts < MaxStarts /\ starts' = starts + 1
    /\ act' = "running"
    /\ todo' = Pending
    /\ memo' = [b \in Builders |-> [u \in Units |-> "unset"]]
    /\ worker' = [w \in SliceWorkers |-> OffDuty]
    /\ chain' = << >> /\ half' = FALSE /\ poisoned' = FALSE
    /\ begun' = [b \in Builders |-> [u \in Units |-> 0]]
    /\ UNCHANGED <<files, spoils, tried>>

WorkerStep ==
    \/ \E w \in SliceWorkers : \/ Claim(w) \/ HasProfile(w) \/ HasFacts(w)
                               \/ Retrieved(w) \/ RetrieveFails(w)
    \/ \E b \in Builders, u \in Units : Settle(b, u)
    \/ AppendNext \/ AppendFails
    \/ Summarise

SliceRunning == act \in {"running", "rejected"}
SliceNext ==
    \/ SliceRunning /\ WorkerStep
    \/ Kill
    \/ Resume

\* The process runs: its timers fire and its requests are answered or fail.
SliceSpec == SliceInit /\ [][SliceNext]_sliceVars /\ WF_sliceVars(SliceRunning /\ WorkerStep)

-----------------------------------------------------------------------------
SliceTypeOK ==
    /\ saved \subseteq {"docs", "rows"} \X Queried \X (0..MaxStarts) /\ loose \subseteq saved
    /\ ragged \subseteq {"docs", "rows"}
    /\ memo \in [Builders -> [Units -> {"unset", "building", "text", "none"}]]
    /\ \A w \in SliceWorkers : worker[w].q \in Queried
    /\ todo \subseteq DOMAIN Selected /\ ToSet(chain) \subseteq Queried

\* A summary is written only when nothing failed, and then every selected query has a
\* readable row, but for the queries of units without documents (run-beam-slice.ts:
\* 374-377) and two at most whose rows became one line in this start: one appended
\* to the ragged file an earlier start left, and one that had counted as done for
\* want of nothing but its newline (568, 585-605, 623-637).
SummaryWhole ==
    act = "summarised" =>
        LET lost == {q \in Queried : \E n \in 0..MaxStarts : <<starts, <<"rows", q, n>>>> \in joined}
        IN  Cardinality(lost) <= 2 /\ \A q \in Queried : HasRow(q) \/ q \in lost \/ Skipped(q)

\* No query gets a second readable row, over any number of kills, failures and
\* resumptions, one whose row was destroyed and that is run again included
\* (run-beam-slice.ts:236, 371, 568, 623-637).
RowOnce == \A q \in Queried : \A m, n \in LinesOf("rows", q) : m = n

\* Wherever a run is killed or fails, a readable row finds the documents of its own
\* retrieval, as the last of its query, unless just these became part of another
\* line (run-beam-slice.ts:557-569; read by answer-arms.ts:67-80).
DocsOfTheRow ==
    \A q \in Synth : \A n \in LinesOf("rows", q) :
        \/ n \in LinesOf("docs", q) /\ \A m \in LinesOf("docs", q) : m <= n
        \/ \E s \in 1..starts : <<s, <<"docs", q, n>>>> \in joined

\* The passes over a unit are made once per run, however many of its queries are
\* in flight (run-beam-slice.ts:416-455).
BuiltOnce == \A b \in Builders, u \in Units : begun[b][u] <= 1

\* A run's files pair every query with one row and the documents of that row, from
\* passes made once per unit, and a summary vouches for them.
SliceSound == SliceTypeOK /\ SummaryWhole /\ RowOnce /\ DocsOfTheRow /\ BuiltOnce

\* Every run that is not killed writes its summary or ends rejected.
RunEnds == SliceRunning ~> (~SliceRunning \/ Spent)
=============================================================================
