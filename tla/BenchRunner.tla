---------------------------- MODULE BenchRunner ----------------------------
(***************************************************************************)
(* The benchmark sweep (src/eval/runner.ts): lanes of growing corpora, a   *)
(* row appended to results.jsonl per question, a lane abandoned at the     *)
(* first size it does badly at, and a resume that reads the rows back      *)
(* after a crash.  Every question goes through the cache of LlmCache.      *)
(*                                                                         *)
(* A lane is a system with a model context; the trials of a question are   *)
(* questions of their own.  Citation scores and latencies are left out: of *)
(* an answer only whether it is right is kept.                             *)
(***************************************************************************)
EXTENDS LlmCache, Sequences

CONSTANTS
    Lanes, Sizes, Questions,    \* bounds: 1..n each
    Runner,                     \* the caller the sweep is to the cache
    MaxRuns                     \* bound: how often the sweep is started

VARIABLES
    hard,       \* the cells a usual answer is wrong for; never changes
    stage,      \* "load", "loop", "done", or "down" after a kill
    at,         \* the cell the loops are at, or behind the last one
    lines,      \* results.jsonl, line by line
    ended,      \* whether its last line has its newline
    results,    \* the rows in memory, by cell
    stops,      \* failedAt: the size a lane stopped at, 0 for none
    summary,    \* summary.json
    runs,       \* history: sweeps started
    joined,     \* history: this sweep appended to an unfinished line
    misled,     \* history: a stop was set by less than a cell's answers
    scored      \* history: the score of every row that was appended or torn

sweepVars == <<at, results, stops>>
fileVars == <<lines, ended, joined, scored>>
benchVars == <<hard, stage, sweepVars, fileVars, summary, runs, misled>>

Cells == {"bench"} \X Lanes \X Sizes \X Questions
ASSUME BenchConstants ==
    /\ Runner \in Callers /\ Cells \subseteq Keys
    /\ \A S \in {Lanes, Sizes, Questions} :
        IsFiniteSet(S) /\ S # {} /\ S = 1..Cardinality(S)

Lane(c) == c[2]
Size(c) == c[3]
Group(l, s) == {c \in Cells : Lane(c) = l /\ Size(c) = s}

\* The order of the loops: lane, then size, then question.
FirstCell == <<"bench", 1, 1, 1>>
BehindLast == <<"bench", Cardinality(Lanes) + 1, 1, 1>>
FirstOfGroup(c) == c[4] = 1
LastOfGroup(c) == c[4] = Cardinality(Questions)
NextGroup(c) == IF Size(c) < Cardinality(Sizes) THEN <<"bench", Lane(c), Size(c) + 1, 1>>
                ELSE <<"bench", Lane(c) + 1, 1, 1>>
NextCell(c) == IF LastOfGroup(c) THEN NextGroup(c)
               ELSE <<"bench", Lane(c), Size(c), c[4] + 1>>
Looping == stage = "loop" /\ at \in Cells

NoStops == [l \in Lanes |-> 0]
NoRows ==
    /\ stage = "load" /\ at = FirstCell
    /\ lines = << >> /\ ended = TRUE
    /\ results = << >> /\ stops = NoStops /\ summary = << >>
    /\ joined = FALSE /\ misled = FALSE /\ scored = {}
BenchStart == NoRows /\ runs = 1

BenchInit == hard \in SUBSET Cells /\ BenchStart

-----------------------------------------------------------------------------
(* Rows, scores and stops.                                                 *)

\* Whether a response is scored as right.  What was too short to store is an
\* ordinary wrong answer.
Right(c, t) == t # TooShort /\ (t \in Usual <=> c \notin hard)

RowsOf(r, cells) == {c \in cells \cap DOMAIN r : r[c] # "error"}
CorrectOf(r, cells) == {c \in RowsOf(r, cells) : r[c] = "right"}

\* aggregate: the accuracy of no scores is 0.  The threshold is one half.
BelowThreshold(r, cells) ==
    LET n == Cardinality(RowsOf(r, cells)) IN
    n = 0 \/ 2 * Cardinality(CorrectOf(r, cells)) < n

\* Slip: the first row of a cell wins.
Loaded_FirstWins(file) ==
    LET readable == {i \in DOMAIN file : file[i].ok}
    IN  [c \in {file[i].cell : i \in readable} |->
           file[CHOOSE i \in readable :
                  /\ file[i].cell = c
                  /\ \A j \in readable : file[j].cell = c => i <= j].res]

\* loadExistingResults: unreadable lines are skipped, the last row of a cell wins.
Loaded(file) ==
    LET readable == {i \in DOMAIN file : file[i].ok}
    IN  [c \in {file[i].cell : i \in readable} |->
           file[CHOOSE i \in readable :
                  /\ file[i].cell = c
                  /\ \A j \in readable : file[j].cell = c => j <= i].res]

Answered(r) == Restrict(r, RowsOf(r, DOMAIN r))

\* Slip: a lane without a stop is marked by -1.
Reconstructed_Minus(r) ==
    [l \in Lanes |->
        LET bad == {s \in Sizes : RowsOf(r, Group(l, s)) # {} /\ BelowThreshold(r, Group(l, s))}
        IN  IF bad = {} THEN -1 ELSE CHOOSE s \in bad : \A t \in bad : s <= t]

\* reconstructEarlyStops: the smallest size whose answered rows fall below the
\* threshold, of the sizes that have any.
Reconstructed(r) ==
    [l \in Lanes |->
        LET bad == {s \in Sizes : RowsOf(r, Group(l, s)) # {} /\ BelowThreshold(r, Group(l, s))}
        IN  IF bad = {} THEN 0 ELSE CHOOSE s \in bad : \A t \in bad : s <= t]

\* computeSummaries, by lane and size.
Summaries(r, st) ==
    [g \in {<<Lane(c), Size(c)>> : c \in DOMAIN r} |->
        LET rows == DOMAIN r \cap Group(g[1], g[2])
        IN  [n |-> Cardinality(rows), correct |-> Cardinality(CorrectOf(r, rows)),
             earlyStopped |-> st[g[1]] # 0 /\ g[2] > st[g[1]]]]

\* appendFile onto the last line when that has no newline, onto a new one else.
Appended(row) ==
    IF ended THEN Append(lines, row)
    ELSE [lines EXCEPT ![Len(lines)].ok = FALSE]

-----------------------------------------------------------------------------
\* Slip: a lane that stopped is skipped whatever the size.
Skips_Any(c) == stops[Lane(c)] # 0

-----------------------------------------------------------------------------
(* The actions.                                                            *)

Load ==
    /\ stage = "load"
    /\ LET previous == Loaded(lines) IN
        /\ results' = Answered(previous)
        /\ stops' = Reconstructed(previous)
        /\ misled' = (misled \/ \E l \in Lanes :
                        LET s == Reconstructed(previous)[l] IN
                        s # 0 /\ RowsOf(previous, Group(l, s)) # Group(l, s))
    /\ stage' = "loop" /\ at' = FirstCell /\ joined' = FALSE
    /\ UNCHANGED <<cacheVars, hard, lines, ended, scored, summary, runs>>

Skips(c) == stops[Lane(c)] # 0 /\ Size(c) >= stops[Lane(c)]

\* The loop goes on behind cell `at`; behind the last cell of a group it decides
\* whether the lane stops there.
Advance(r) ==
    LET g == Group(Lane(at), Size(at))
        bad == LastOfGroup(at) /\ BelowThreshold(r, g)
    IN  /\ at' = NextCell(at)
        /\ results' = r
        /\ stops' = IF bad THEN [stops EXCEPT ![Lane(at)] = Size(at)] ELSE stops
        /\ misled' = (misled \/ (bad /\ RowsOf(r, g) = {}))

\* A smaller corpus failed already: the group is passed over.
SkipGroup ==
    /\ Looping /\ FirstOfGroup(at) /\ Skips(at)
    /\ at' = NextGroup(at)
    /\ UNCHANGED <<cacheVars, hard, stage, results, stops, fileVars, summary, runs, misled>>

Enters == Looping /\ (FirstOfGroup(at) => ~Skips(at)) /\ call[Runner].pc = "idle"

\* The row is there from an earlier sweep.
SkipSeen ==
    /\ Enters /\ at \in DOMAIN results
    /\ Advance(results)
    /\ UNCHANGED <<cacheVars, hard, stage, fileVars, summary, runs>>

AskCell ==
    /\ Enters /\ at \notin DOMAIN results
    /\ Begin(Runner, at)
    /\ UNCHANGED <<entry, tmp, bought, benchVars>>

\* What the call came to: a scored answer, or an error.
Outcome == IF call[Runner].pc = "failed" THEN "error"
           ELSE IF Right(at, call[Runner].text) THEN "right" ELSE "wrong"
Returned == Looping /\ call[Runner].pc \in {"done", "failed"}
Row == [cell |-> at, res |-> Outcome, ok |-> TRUE]

\* The row is appended and the loop goes on, after an error too.
RecordCell ==
    /\ Returned
    /\ Become(Runner, NoCall)
    /\ lines' = Appended(Row) /\ ended' = TRUE
    /\ joined' = (joined \/ ~ended)
    /\ scored' = scored \cup {<<at, Outcome>>}
    /\ Advance([c \in DOMAIN results \cup {at} |-> IF c = at THEN Outcome ELSE results[c]])
    /\ UNCHANGED <<entry, tmp, bought, hard, stage, summary, runs>>

WriteSummary ==
    /\ stage = "loop" /\ at \notin Cells
    /\ summary' = Summaries(results, stops)
    /\ stage' = "done"
    /\ UNCHANGED <<cacheVars, hard, sweepVars, fileVars, runs, misled>>

\* The process is killed.  A row being appended may be missing, torn, or whole
\* without its newline.
KillRunner ==
    /\ stage = "loop"
    /\ runs < MaxRuns
    /\ CacheCrash
    /\ stage' = "down"
    /\ \/ UNCHANGED fileVars
       \/ /\ Returned
          /\ \E whole \in BOOLEAN :
                lines' = IF ended THEN Append(lines, [Row EXCEPT !.ok = whole]) ELSE Appended(Row)
          /\ ended' = FALSE
          /\ scored' = scored \cup {<<at, Outcome>>}
          /\ UNCHANGED joined
    /\ UNCHANGED <<hard, sweepVars, summary, runs, misled>>

\* The sweep is started again, after a kill or to fill the gaps errors left.
StartSweep ==
    /\ stage \in {"down", "done"}
    /\ runs < MaxRuns
    /\ runs' = runs + 1
    /\ stage' = "load"
    /\ UNCHANGED <<cacheVars, hard, sweepVars, fileVars, summary, misled>>

BenchCall == Looping /\ CallStep(Runner) /\ UNCHANGED benchVars

BenchStep ==
    \/ Load
    \/ SkipGroup
    \/ SkipSeen
    \/ AskCell
    \/ BenchCall
    \/ RecordCell
    \/ WriteSummary

BenchNext == BenchStep \/ KillRunner \/ StartSweep

BenchSpec == CacheInit /\ BenchInit /\ [][BenchNext]_<<cacheVars, benchVars>>

-----------------------------------------------------------------------------
(* Properties.                                                             *)

BenchTypeOK ==
    /\ stage \in {"load", "loop", "done", "down"}
    /\ at \in Cells \cup {BehindLast}
    /\ \A i \in DOMAIN lines :
        lines[i] \in [cell: Cells, res: {"right", "wrong", "error"}, ok: BOOLEAN]
    /\ DOMAIN results \subseteq Cells
    /\ stops \in [Lanes -> Sizes \cup {0}]

\* A finished sweep has a row for every question of every size up to the one its
\* lane stopped at, and a lane stopped at no size but the first it does badly at:
\* kills and resumes leave the grid an uninterrupted sweep would have filled,
\* unless a stop was set by half a cell or by errors alone (runner.ts:170-196,
\* 484-520).
GridReached ==
    stage = "done" /\ ~misled =>
        \A l \in Lanes, s \in Sizes :
            /\ stops[l] = 0 \/ s <= stops[l] => Group(l, s) \subseteq DOMAIN results
            /\ stops[l] = s => BelowThreshold(results, Group(l, s))
            /\ stops[l] = 0 \/ s < stops[l] => ~BelowThreshold(results, Group(l, s))

\* A row lost to a crash is refilled with the same score: the answer comes from
\* the cache ("Resume re-fills them", runner.ts:480).  Answers too short to store
\* are the exception.
RefilledAlike ==
    \A c \in Cells :
        TooShort \notin heard[c] => ~({<<c, "right">>, <<c, "wrong">>} \subseteq scored)

\* A sweep that joined no lines leaves on disk exactly the answers it counted, so
\* the next one starts from them, and a replay from the file reports the same
\* numbers when there were no errors (replayResults, runner.ts:583-635).
DiskMatches ==
    stage = "done" /\ ~joined =>
        /\ Answered(Loaded(lines)) = Answered(results)
        /\ (\A i \in DOMAIN lines : lines[i].res # "error") /\ ~misled =>
              summary = Summaries(Loaded(lines), Reconstructed(Loaded(lines)))

\* Error rows are not answers: no lane is stopped by a size none of whose questions
\* was answered ("they must not drive an early stop", runner.ts:508).
ErrorsDriveNoStop ==
    stage = "done" =>
        \A l \in Lanes : stops[l] # 0 => RowsOf(results, Group(l, stops[l])) # {}

\* A sweep that was killed and resumed is the sweep that ran through: its grid, its
\* scores and its file.
SweepResumes == BenchTypeOK /\ GridReached /\ RefilledAlike /\ DiskMatches
=============================================================================
