------------------------------- MODULE MCEval -------------------------------
(***************************************************************************)
(* The TLC instance of what a benchmark runs: a behaviour is one of the    *)
(* gate scripts (PairedArms) or a sweep (BenchRunner), both over one       *)
(* LlmCache, or the AMB retrieval server, chosen at the start.  Requests   *)
(* to the server are interchangeable, and so are its users.                *)
(***************************************************************************)
EXTENDS PairedArms, BenchRunner, AmbServer

VARIABLE harness    \* "arms", "sweep" or "server"; never changes

scriptVars == <<cacheVars, armsVars, benchVars>>
evalVars == <<harness, scriptVars, vars>>

Interchangeable == Permutations(Reqs) \cup Permutations(Users)

MCItems == {1, 2}
MCLegs == MCItems \X {"a", "b"}
MCRunner == <<"bench">>
MCCallers == MCLegs \cup {MCRunner}
MCKeys == (MCItems \X {"a", "b"} \X {0, 1}) \cup ({"bench"} \X Lanes \X Sizes \X Questions)

\* Two faults, or one and a kill, for one worker; one fault for two that answer, none
\* for two that judge.
ArmsStart ==
    /\ harness = "arms"
    /\ hard = {}
    /\ same = {1}
    /\ \/ jobs = 1 /\ bare \in {{}, {2}} /\ <<faults, kills>> \in {<<0, MaxKills>>, <<1, 0>>}
       \/ /\ jobs = 2 /\ bare = {} /\ kills = MaxKills
          /\ faults = IF script = "answer" THEN 1 ELSE MaxFaults

\* One lane goes well, the other stops at its first size, or at its second when one
\* restart is left.
SweepStart ==
    /\ harness = "sweep"
    /\ \/ hard = Group(1, 1) /\ runs = 1
       \/ hard = {<<"bench", 1, 1, 1>>} \cup Group(1, 2) /\ runs = MaxRuns - 1
    /\ same = {} /\ bare = {} /\ jobs = 1
    /\ faults = 1 /\ kills = 0

\* A server that may be reset, or one whose builds may fail.
ServerStart ==
    /\ harness = "server"
    /\ count.resets = 0 \/ count.failures = 0
    /\ hard = {} /\ same = {} /\ bare = {} /\ jobs = 1
    /\ faults = 0 /\ kills = 0

\* The initial states of the harnesses; the histories start where the bounds
\* leave what the comments above say.
MCInit ==
    /\ faults \in 0..MaxFaults /\ kills \in 0..MaxKills
    /\ count \in {[ingests |-> 0, resets |-> MaxResets, failures |-> 0],
                  [ingests |-> 0, resets |-> 0, failures |-> MaxFailures]}
    /\ harness \in {"arms", "sweep", "server"}
    /\ jobs \in Workers /\ bare \in {{}, {2}}
    /\ script \in Scripts
    /\ runs \in 1..MaxRuns
    /\ ArmsStart \/ SweepStart \/ ServerStart
    /\ harness # "arms" => script = "judge"
    /\ harness # "server" => count.resets = 0
    /\ harness # "sweep" => runs = 1
    /\ script = "answer" => bare = {}
    /\ ArmsIdle
    /\ CacheEmpty
    /\ NoRows
    /\ Empty

EvalEnded ==
    /\ \/ harness = "arms" /\ (phase = "written" \/ (phase = "aborted" /\ kills = MaxKills))
       \/ harness = "sweep" /\ stage = "done" /\ runs = MaxRuns
    /\ UNCHANGED evalVars

MCNext ==
    \/ harness = "arms" /\ ArmsNext /\ UNCHANGED <<harness, benchVars, vars>>
    \/ harness = "sweep" /\ BenchNext /\ UNCHANGED <<harness, armsVars, vars>>
    \/ harness = "server" /\ Next /\ UNCHANGED <<harness, scriptVars>>
    \/ EvalEnded

MCSpec == MCInit /\ [][MCNext]_evalVars
=============================================================================
