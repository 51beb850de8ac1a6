------------------------------- MODULE Settings -------------------------------
(***************************************************************************)
(* Configuration through the environment (src/utils/env.ts) and the        *)
(* settings of one retrieval that go through it, read where they are used: *)
(* for the index, by ask(), with every model call, by attachCoverage and   *)
(* by the bridges of the CSM baseline.  Two arms of a comparison retrieve  *)
(* one query under environments that differ in one variable.               *)
(*                                                                         *)
(* A variable's text, trimmed and lowered, is of a kind: blank, a word of  *)
(* one of the two vocabularies, a whole number, a thinking level or none   *)
(* of these.  What a reader makes of it is a set: of one value, or empty   *)
(* when it throws EnvConfigError.                                          *)
(***************************************************************************)
EXTENDS Integers, Sequences

CONSTANTS
    SomeRaw,        \* per variable, the texts it may be given
    SomeAsked       \* the retrievals: [coverage, wide : BOOLEAN, gemini3, classify : BOOLEAN,
                    \*                  local : BOOLEAN, cited : number of events the packet cites]

Text(kind, n, word) == [kind |-> kind, n |-> n, word |-> word]
Unset == Text("blank", 0, "")
RealLevels == {"minimal", "low", "medium", "high"}
Modes == RealLevels \cup {"none", "default"}

\* The variables that are read; a blank text is one text, and a level is a known word.
ASSUME SettingsConstants ==
    /\ DOMAIN SomeRaw = {"descriptors", "hybrid", "parallel", "coverage", "tokens", "floor", "entries",
                         "bridgeK", "bridgeMax", "thinkingMin", "thinking"}
    /\ \A v \in DOMAIN SomeRaw : \A raw \in SomeRaw[v] :
          /\ raw.n \in Int
          /\ raw.kind = "blank" => raw = Unset
          /\ raw.kind = "level" => raw.word \in Modes

VARIABLES
    trial,      \* what is asked, and the environment of each arm
    arm,        \* the stage each arm enters, RanThrough or Stopped
    ran         \* what each arm has run with so far

settingVars == <<trial, arm, ran>>

Arms == {"control", "treatment"}

-----------------------------------------------------------------------------
(* Slips.                                                                  *)

\* Anything that is not a no is a yes.
EnvFlag_ByNegation(raw, fallback) ==
    IF raw.kind = "blank" THEN {fallback}
    ELSE {raw.word = "off" \/ (raw.kind # "no" /\ raw.n # 0)}

\* A number that cannot be read is the default.
EnvInt_Lenient(raw, min, fallback) ==
    IF raw.kind = "number" /\ raw.n >= min THEN {raw.n} ELSE {fallback}

\* "none" leaves the configuration out, which is the most thinking there is.
ThinkingMode_Omitted(mode, min) == IF mode \in {"default", "none"} THEN "omitted" ELSE mode

-----------------------------------------------------------------------------
(* The readers.                                                            *)

EnvFlag(raw, fallback) ==
    IF raw.kind = "blank" THEN {fallback}
    ELSE {said \in BOOLEAN : \/ raw.kind = IF said THEN "yes" ELSE "no"
                             \/ raw.kind = "number" /\ raw.n = IF said THEN 1 ELSE 0}

EnvInt(raw, min, fallback) ==
    IF raw.kind = "blank" THEN {fallback}
    ELSE IF raw.kind = "number" /\ raw.n >= min THEN {raw.n} ELSE {}

EnvPositiveInt(raw, fallback) == EnvInt(raw, 1, fallback)

EnvEnum(raw, allowed, fallback) ==
    IF raw.kind = "blank" THEN {fallback}
    ELSE IF raw.kind = "level" /\ raw.word \in allowed THEN {raw.word} ELSE {}

-----------------------------------------------------------------------------
(* The settings: q is what is asked, env the environment.                  *)

Descriptors(q, env) == EnvFlag(env.descriptors, TRUE)
RouterHybrid(q, env) == EnvFlag(env.hybrid, TRUE)
\* A local server takes one call at a time.
ParallelProbes(q, env) == EnvFlag(env.parallel, ~q.local)
CoverageMode(q, env) == EnvFlag(env.coverage, TRUE)

\* A point lookup keeps the budget of its caller and does not look.
CoverageRecallTokens(q, env) ==
    IF q.coverage THEN EnvPositiveInt(env.tokens, 3200) ELSE {1200}

StarvationFloor(q, env) == EnvInt(env.floor, 0, 4)

\* Coverage queries get a timeline; so does a point query whose packet cites fewer
\* events than the floor, and it is the wide one.
TimelineEntries(q, env) ==
    LET size == EnvPositiveInt(env.entries, IF ~q.coverage \/ q.wide THEN 32 ELSE 24) IN
    IF CoverageMode(q, env) = {FALSE} THEN {0}
    ELSE IF q.coverage THEN size
    ELSE UNION {IF floor <= 0 \/ q.cited >= floor THEN {0} ELSE size : floor \in StarvationFloor(q, env)}

BridgeK(q, env) == EnvInt(env.bridgeK, 0, 6)
BridgeMax(q, env) == EnvInt(env.bridgeMax, 0, 24)

ThinkingMin(env) == EnvEnum(env.thinkingMin, RealLevels, "minimal")
Thinking(env) == EnvEnum(env.thinking, Modes, "low")

\* "none" is the floor: leaving the configuration out is the default of the service.
ThinkingMode(mode, min) == IF mode = "default" THEN "omitted" ELSE IF mode = "none" THEN min ELSE mode

\* A stage that classifies runs at the floor, whatever the mode.
ThinkingConfig(q, env) ==
    IF ~q.gemini3 THEN {"omitted"}
    ELSE IF q.classify THEN ThinkingMin(env)
    ELSE UNION {{ThinkingMode(mode, min) : mode \in Thinking(env)} : min \in ThinkingMin(env)}

-----------------------------------------------------------------------------
(* A retrieval reads its settings stage by stage.                          *)

Stages == <<"index", "ask", "calls", "attach", "bridges">>
Settings == {"descriptors", "hybrid", "parallel", "coverage", "tokens", "thinking", "entries",
             "bridgeK", "bridgeMax"}
Read(stage) == CASE stage = "index" -> {"descriptors", "hybrid"}
                 [] stage = "ask" -> {"parallel", "coverage", "tokens"}
                 [] stage = "calls" -> {"thinking"}
                 [] stage = "attach" -> {"entries"}
                 [] stage = "bridges" -> {"bridgeK", "bridgeMax"}

Value(s, q, env) == CASE s = "descriptors" -> Descriptors(q, env)
                      [] s = "hybrid" -> RouterHybrid(q, env)
                      [] s = "parallel" -> ParallelProbes(q, env)
                      [] s = "coverage" -> CoverageMode(q, env)
                      [] s = "tokens" -> IF CoverageMode(q, env) = {FALSE} THEN {1200}
                                         ELSE CoverageRecallTokens(q, env)
                      [] s = "thinking" -> ThinkingConfig(q, env)
                      [] s = "entries" -> TimelineEntries(q, env)
                      [] s = "bridgeK" -> BridgeK(q, env)
                      [] s = "bridgeMax" -> BridgeMax(q, env)

Vars == DOMAIN SomeRaw
Bare == [v \in Vars |-> Unset]
\* env, and the environments that differ from it in one variable.
Beside(env) == UNION {{[env EXCEPT ![v] = raw] : raw \in SomeRaw[v] \cup {env[v]}} : v \in Vars}

Stopped == 0
RanThrough == Len(Stages) + 1

NothingRead == [a \in Arms |-> [s \in Settings |-> {}]]

SettingsIdle ==
    /\ trial = [asked |-> CHOOSE q \in SomeAsked : TRUE, env |-> [a \in Arms |-> Bare]]
    /\ arm = [a \in Arms |-> 1]
    /\ ran = NothingRead

\* One variable at most is set for the control arm, and the treatment changes one.
SettingsInit ==
    /\ \E q \in SomeAsked, control \in Beside(Bare) : \E treatment \in Beside(control) :
          trial = [asked |-> q, env |-> [a \in Arms |-> IF a = "control" THEN control ELSE treatment]]
    /\ arm = [a \in Arms |-> 1]
    /\ ran = NothingRead

\* A stage reads its settings and runs with them; one that cannot be read ends the retrieval.
ReadStage(a) ==
    /\ arm[a] \in DOMAIN Stages
    /\ LET read == [s \in Read(Stages[arm[a]]) |-> Value(s, trial.asked, trial.env[a])] IN
       IF \E s \in DOMAIN read : read[s] = {}
       THEN arm' = [arm EXCEPT ![a] = Stopped] /\ UNCHANGED ran
       ELSE /\ arm' = [arm EXCEPT ![a] = @ + 1]
            /\ ran' = [ran EXCEPT ![a] = [s \in Settings |-> IF s \in DOMAIN read THEN read[s] ELSE @[s]]]
    /\ UNCHANGED trial

\* The control arm is run first.
SettingsNext ==
    \/ ReadStage("control")
    \/ arm["control"] \in {Stopped, RanThrough} /\ ReadStage("treatment")

-----------------------------------------------------------------------------
Flags == {"descriptors", "hybrid", "parallel", "coverage"}
Levels == {"thinking", "thinkingMin"}
\* The texts a variable's description allows.
Legal(v) ==
    {Unset} \cup
    {raw \in SomeRaw[v] :
        CASE v \in Flags -> raw.kind \in {"yes", "no"} \/ (raw.kind = "number" /\ raw.n \in {0, 1})
          [] v = "thinkingMin" -> raw.kind = "level" /\ raw.word \in RealLevels
          [] v = "thinking" -> raw.kind = "level"
          [] v \in {"tokens", "entries"} -> raw.kind = "number" /\ raw.n > 0
          [] OTHER -> raw.kind = "number" /\ raw.n >= 0}

\* The variables a setting of the retrieval depends on.
Levers(s) == CASE s = "tokens" -> {"tokens", "coverage"}
               [] s = "entries" -> {"entries", "floor", "coverage"}
               [] s = "thinking" -> Levels
               [] OTHER -> {s}

\* An arm whose environment says a word of a flag runs with what the word says, so
\* that no control arm runs the treatment ("CSM_ROUTER_HYBRID=off turns the hybrid
\* router ON", env.ts:22-26).
FlagsAsSaid ==
    \A a \in Arms, v \in Flags : LET raw == trial.env[a][v] IN
        /\ raw.kind = "no" => ran[a][v] \subseteq {FALSE}
        /\ raw.kind = "yes" => ran[a][v] \subseteq {TRUE}

\* Two arms that both answered differ in what they ran with only where a variable
\* they differ in is a lever.
OneLever ==
    (\A a \in Arms : arm[a] = RanThrough) =>
        \A s \in Settings : ran["control"][s] # ran["treatment"][s] =>
            \E v \in Levers(s) : trial.env["control"][v] # trial.env["treatment"][v]

\* "An unrecognised configuration value is an error, never a default" (env.ts:34): a
\* retrieval is stopped by a text its variable does not allow, and no arm answers
\* with one in a variable that is read whatever is asked.
NoTypoRuns ==
    \A a \in Arms : LET typos == {v \in Vars : trial.env[a][v] \notin Legal(v)} IN
        /\ arm[a] = Stopped => typos # {}
        /\ arm[a] = RanThrough => typos \cap (Flags \cup {"bridgeK", "bridgeMax"}) = {}

\* A stage that classifies never thinks as much as the service lets it, and only
\* "default" asks for that (GeminiProvider.ts:633-660).
ThinkingBounded ==
    \A a \in Arms : ran[a]["thinking"] = {"omitted"} =>
        \/ ~trial.asked.gemini3
        \/ trial.env[a].thinking.word = "default" /\ ~trial.asked.classify

\* What an arm runs with is what its environment says.
SettingsSound == FlagsAsSaid /\ OneLever /\ NoTypoRuns /\ ThinkingBounded
=============================================================================
