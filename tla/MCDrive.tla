------------------------------- MODULE MCDrive -------------------------------
(***************************************************************************)
(* The TLC instance of what drives a retrieval run: the Gemini provider,   *)
(* the slice driver, the retrieval server as the BEAM harness uses it, and *)
(* the memory provider that keeps that server up.  They share no state, so *)
(* a behaviour is one of them, chosen at the start.                        *)
(***************************************************************************)
EXTENDS GeminiCache, BeamSlice, AmbServer, WarmProvider

VARIABLE engine     \* which part runs; never changes

driveVars == <<engine, geminiVars, sliceVars, vars, warmVars>>

MCPromptsOf == 1 :> {"p"} @@ 2 :> {"p", "q", "s"}
MCSelected == <<"a", "b", "c", "d">>
MCUnitOf == "a" :> 1 @@ "b" :> 1 @@ "c" :> 2 @@ "d" :> 3

\* The bounded histories start where the service may show two faults while the
\* clock stands still, one while it moves on once, or none while it runs; a driver
\* may be killed or fail and be started again; the provider may meet a request that
\* fails, or a kill of the benchmark.
DriveInit ==
    /\ engine \in {"gemini", "slice", "server", "warm"}
    /\ clock \in 0..MaxClock /\ mishaps \in 0..MaxMishaps
    /\ <<clock, mishaps>> \in {<<MaxClock - 1, MaxMishaps - 1>>}
            \cup (IF engine = "gemini" THEN {<<MaxClock, 0>>, <<0, MaxMishaps>>} ELSE {})
    /\ starts = 1 /\ spoils = 0
    /\ act = IF engine = "slice" THEN "running" ELSE "off"
    /\ used \in [docs : {0}, runs : 1..MaxRuns, lapses : 0..MaxLapses]
    /\ <<used.runs, used.lapses>> \in {<<MaxRuns, 0>>} \cup (IF engine = "warm" THEN {<<1, MaxLapses>>} ELSE {})
    /\ GeminiIdle /\ SliceIdle /\ Init /\ WarmIdle

GeminiStep(c) ==
    engine = "gemini" /\ Progress(c) /\ UNCHANGED <<engine, sliceVars, vars, warmVars>>
SliceStep ==
    engine = "slice" /\ SliceRunning /\ WorkerStep
                     /\ UNCHANGED <<engine, geminiVars, vars, warmVars>>
ServerStep ==
    engine = "server" /\ Continue /\ UNCHANGED <<engine, geminiVars, sliceVars, warmVars>>
ServerBuild ==
    /\ engine = "server" /\ (BuildDone \/ BuildFails) /\ PerUnit
    /\ UNCHANGED <<engine, geminiVars, sliceVars, warmVars>>
ProviderStep ==
    engine = "warm" /\ WarmStep /\ UNCHANGED <<engine, geminiVars, sliceVars, vars>>

DriveNext ==
    \/ engine = "gemini" /\ GeminiNext /\ UNCHANGED <<engine, sliceVars, vars, warmVars>>
    \/ engine = "slice" /\ SliceNext /\ UNCHANGED <<engine, geminiVars, vars, warmVars>>
    \/ /\ engine = "server" /\ Next /\ PerUnit
       /\ UNCHANGED <<engine, geminiVars, sliceVars, warmVars>>
    \/ /\ engine = "warm" /\ WarmNext
       /\ UNCHANGED <<engine, geminiVars, sliceVars, vars>>

\* One condition serves three parts, of which a behaviour has one.
DriveSpec ==
    /\ DriveInit /\ [][DriveNext]_driveVars
    /\ \A c \in Asks : WF_driveVars(GeminiStep(c))
    /\ WF_driveVars(SliceStep \/ ServerStep \/ ProviderStep)
    /\ WF_driveVars(ServerBuild)

\* Whatever was begun comes to an end: a provider's call, a run of the slice driver, a
\* request to the server with the pre-warms it queued, a call of the memory provider.
EachEnds == CallsEnd /\ RunEnds /\ Served /\ CallsReturn
=============================================================================
