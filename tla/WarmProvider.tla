---------------------------- MODULE WarmProvider ----------------------------
(***************************************************************************)
(* The memory provider inside the benchmark                                *)
(* (src/integrations/amb/csm_provider.py): it starts the warm retrieval    *)
(* server, keeps a log of the documents it ingested, and replays the log   *)
(* into a server it had to start again.  One call runs at a time; every    *)
(* request of a call is a step of its own, between which the server or the *)
(* benchmark itself may die.                                               *)
(***************************************************************************)
EXTENDS Integers, Sequences, FiniteSets, Functions

CONSTANTS
    WarmDocs,      \* bound: documents ingested, numbered in their order
    ReplayBatch,   \* _REPLAY_BATCH_BYTES, in documents
    MaxServers,    \* bound: servers started
    MaxRuns,       \* bound: benchmark processes
    MaxLapses      \* bound: requests that fail although the server is up

ASSUME WarmBounds == /\ {WarmDocs, ReplayBatch, MaxServers, MaxRuns} \subseteq Nat \ {0}
                     /\ MaxLapses \in Nat

VARIABLES
    docLog,     \* documents.jsonl; Torn is a line a kill cut short
    servers,    \* the servers started so far
    proc,       \* _proc, 0 for None
    port,       \* _port: the server that announced it, 0 for None
    call,       \* the provider's call: what it is, where it stands, lines left to replay
    prepared,   \* prepare() returned, and no cleanup() since
    acked,      \* documents whose ingest() returned since the last prepare(reset=True)
    dropped,    \* documents from before a prepare(reset=True) that returned (history)
    maimed,     \* servers a replay into which raised (history)
    answer,     \* what the retrieve() that just returned saw (history)
    used        \* [docs, runs, lapses], for the bounds
warmVars == <<docLog, servers, proc, port, call, prepared, acked, dropped, maimed, answer, used>>

Torn == 0
Document == 1..WarmDocs
NoCall == [op |-> "none", at |-> "none", left |-> << >>]
NoAnswer == [have |-> {}, need |-> {}, past |-> {}, from |-> 0]
StepsOf ==
    [initialize |-> {"ensure", "boot"},
     fresh |-> {"ensure", "boot", "reset", "unlink"},
     resume |-> {"ensure", "boot", "health", "replay"},
     ingest |-> {"write", "post"},
     retrieve |-> {"ensure", "boot", "health", "replay", "post"}]

\* A benchmark that was just started; nothing is on disk.
WarmIdle ==
    /\ docLog = << >> /\ servers = << >> /\ proc = 0 /\ port = 0
    /\ call = NoCall /\ prepared = FALSE
    /\ acked = {} /\ dropped = {} /\ maimed = {}
    /\ answer = NoAnswer

Up(s) == s # 0 /\ servers[s].up
Serving(s) == Up(s) /\ servers[s].ready
Raise == call' = NoCall
Go(step) == call' = [call EXCEPT !.at = step]
At(op, step) == call.op \in op /\ call.at = step

-----------------------------------------------------------------------------
\* initialize(), prepare(reset=True), prepare(reset=False), retrieve().  The benchmark
\* initializes once, and ingests and retrieves when a prepare() has returned.
Begin(op) ==
    /\ call = NoCall
    /\ call' = [op |-> op, at |-> "ensure", left |-> << >>]
    /\ prepared' = (IF op \in {"fresh", "resume"} THEN FALSE ELSE prepared)
    /\ acked' = (IF op = "fresh" THEN {} ELSE acked)
    /\ answer' = NoAnswer
    /\ UNCHANGED <<docLog, servers, proc, port, dropped, maimed, used>>
Initialize == proc = 0 /\ ~prepared /\ Begin("initialize")
Prepare == \E op \in {"fresh", "resume"} : Begin(op)
RetrieveDocs == prepared /\ Begin("retrieve")

\* ingest() writes the log first, and starts no server.
IngestDocs ==
    /\ call = NoCall /\ prepared /\ used.docs < WarmDocs
    /\ used' = [used EXCEPT !.docs = @ + 1]
    /\ call' = [op |-> "ingest", at |-> "write", left |-> <<used.docs + 1>>]
    /\ answer' = NoAnswer
    /\ UNCHANGED <<docLog, servers, proc, port, prepared, acked, dropped, maimed>>

\* A row written behind a torn line is joined to it.
LogRow ==
    /\ At({"ingest"}, "write")
    /\ docLog' = IF docLog # << >> /\ docLog[Len(docLog)] = Torn THEN docLog ELSE docLog \o call.left
    /\ Go("post")
    /\ UNCHANGED <<servers, proc, port, prepared, acked, dropped, maimed, answer, used>>

-----------------------------------------------------------------------------
\* _ensure_server: a server that runs and has announced a port is kept.
Spawned == Append(servers, [up |-> TRUE, ready |-> FALSE, docs |-> {}])

\* Slip: initialize() falls through to the replay when it started a server.
AfterEnsure_Falls(respawned) ==
    CASE call.op = "initialize" /\ ~respawned -> NoCall
      [] call.op = "fresh" -> [call EXCEPT !.at = "reset"]
      [] OTHER -> [call EXCEPT !.at = "health"]

AfterEnsure(respawned) ==
    CASE call.op = "initialize" -> NoCall
      [] call.op = "fresh" -> [call EXCEPT !.at = "reset"]
      [] call.op = "resume" -> [call EXCEPT !.at = "health"]
      [] OTHER -> [call EXCEPT !.at = IF respawned THEN "health" ELSE "post"]

EnsureKeeps ==
    /\ call.at = "ensure" /\ Up(proc) /\ port # 0
    /\ call' = AfterEnsure(FALSE)
    /\ UNCHANGED <<docLog, servers, proc, port, prepared, acked, dropped, maimed, answer, used>>
EnsureSpawns ==
    /\ call.at = "ensure" /\ ~(Up(proc) /\ port # 0) /\ Len(servers) < MaxServers
    /\ servers' = Spawned /\ proc' = Len(servers) + 1
    /\ Go("boot")
    /\ UNCHANGED <<docLog, port, prepared, acked, dropped, maimed, answer, used>>
\* No checkout, no npm: nothing is started.
EnsureFails ==
    /\ call.at = "ensure" /\ ~(Up(proc) /\ port # 0)
    /\ Raise
    /\ UNCHANGED <<docLog, servers, proc, port, prepared, acked, dropped, maimed, answer, used>>

\* The ready line is read.
Booted ==
    /\ call.at = "boot" /\ Serving(proc)
    /\ port' = proc
    /\ call' = AfterEnsure(TRUE)
    /\ UNCHANGED <<docLog, servers, proc, prepared, acked, dropped, maimed, answer, used>>

\* Slip: the deadline is looked at between the lines the child prints.
BootFails_BetweenLines ==
    /\ call.at = "boot" /\ (~Up(proc) \/ servers[proc].ready)
    /\ Raise
    /\ UNCHANGED <<docLog, servers, proc, port, prepared, acked, dropped, maimed, answer, used>>

\* The child exits, or is silent until the deadline; the port is left as it was.
BootFails ==
    /\ call.at = "boot"
    /\ Raise
    /\ UNCHANGED <<docLog, servers, proc, port, prepared, acked, dropped, maimed, answer, used>>

-----------------------------------------------------------------------------
\* A request to a port nobody serves fails; one to a server that is up may time
\* out, before or after the server has done what it asked.
Lapse == used' = [used EXCEPT !.lapses = @ + 1]
Holds(s, D) == servers' = [servers EXCEPT ![s].docs = D]

RequestFails ==
    /\ call.at \in {"reset", "health", "replay", "post"}
    /\ \/ ~Serving(port) /\ UNCHANGED used
       \/ Serving(port) /\ used.lapses < MaxLapses /\ Lapse
    /\ maimed' = IF call.at \in {"health", "replay"} THEN maimed \cup {port} ELSE maimed
    /\ Raise
    /\ UNCHANGED <<docLog, servers, proc, port, prepared, acked, dropped, answer>>
AnswerLost ==
    /\ Serving(port) /\ used.lapses < MaxLapses /\ Lapse
    /\ \/ At({"fresh"}, "reset") /\ Holds(port, {})
       \/ At({"ingest"}, "post") /\ Holds(port, servers[port].docs \cup Range(call.left))
    /\ Raise
    /\ UNCHANGED <<docLog, proc, port, prepared, acked, dropped, maimed, answer>>

ResetPosted ==
    /\ At({"fresh"}, "reset") /\ Serving(port)
    /\ Holds(port, {}) /\ Go("unlink")
    /\ UNCHANGED <<docLog, proc, port, prepared, acked, dropped, maimed, answer, used>>
\* Slip: the log outlives the reset.
LogUnlinked_Kept ==
    /\ At({"fresh"}, "unlink")
    /\ dropped' = 1..used.docs
    /\ prepared' = TRUE /\ Raise
    /\ UNCHANGED <<docLog, servers, proc, port, acked, maimed, answer, used>>
LogUnlinked ==
    /\ At({"fresh"}, "unlink")
    /\ docLog' = << >> /\ dropped' = 1..used.docs
    /\ prepared' = TRUE /\ call' = NoCall
    /\ UNCHANGED <<servers, proc, port, acked, maimed, answer, used>>

\* _replay_documents_if_empty: nothing to do without a log, or for a server
\* that holds documents already.
Replayed == IF call.op = "resume" THEN prepared' = TRUE /\ call' = NoCall
            ELSE Go("post") /\ UNCHANGED prepared
HealthRead ==
    /\ call.at = "health" /\ (docLog = << >> \/ Serving(port))
    /\ IF docLog = << >> \/ servers[port].docs # {}
       THEN Replayed
       ELSE call' = [call EXCEPT !.at = "replay", !.left = docLog] /\ UNCHANGED prepared
    /\ UNCHANGED <<docLog, servers, proc, port, acked, dropped, maimed, answer, used>>

NextBatch == SubSeq(call.left, 1, IF Len(call.left) < ReplayBatch THEN Len(call.left) ELSE ReplayBatch)
\* Slip: the rows behind the last full batch are not sent.
BatchPosted_NoRest ==
    /\ call.at = "replay" /\ Serving(port)
    /\ IF Len(call.left) >= ReplayBatch
       THEN /\ Holds(port, servers[port].docs \cup Range(NextBatch))
            /\ call' = [call EXCEPT !.left = SubSeq(@, Len(NextBatch) + 1, Len(@))]
            /\ UNCHANGED prepared
       ELSE UNCHANGED servers /\ Replayed
    /\ UNCHANGED <<docLog, proc, port, acked, dropped, maimed, answer, used>>
BatchPosted ==
    /\ call.at = "replay" /\ Serving(port) /\ Torn \notin Range(NextBatch)
    /\ IF call.left # << >>
       THEN /\ Holds(port, servers[port].docs \cup Range(NextBatch))
            /\ call' = [call EXCEPT !.left = SubSeq(@, Len(NextBatch) + 1, Len(@))]
            /\ UNCHANGED prepared
       ELSE UNCHANGED servers /\ Replayed
    /\ UNCHANGED <<docLog, proc, port, acked, dropped, maimed, answer, used>>
\* A torn line is no JSON: the batches before it have been sent.
BatchUnreadable ==
    /\ call.at = "replay" /\ Torn \in Range(NextBatch)
    /\ maimed' = maimed \cup {port}
    /\ Raise
    /\ UNCHANGED <<docLog, servers, proc, port, prepared, acked, dropped, answer, used>>

DocsPosted ==
    /\ At({"ingest"}, "post") /\ Serving(port)
    /\ Holds(port, servers[port].docs \cup Range(call.left))
    /\ acked' = acked \cup Range(call.left)
    /\ Raise
    /\ UNCHANGED <<docLog, proc, port, prepared, dropped, maimed, answer, used>>
QueryPosted ==
    /\ At({"retrieve"}, "post") /\ Serving(port)
    /\ answer' = [have |-> servers[port].docs, need |-> acked, past |-> dropped, from |-> port]
    /\ Raise
    /\ UNCHANGED <<docLog, servers, proc, port, prepared, acked, dropped, maimed, used>>

-----------------------------------------------------------------------------
\* The server announces itself, or dies; both at any time.
ServerReady == \E s \in DOMAIN servers :
    /\ Up(s) /\ ~servers[s].ready
    /\ servers' = [servers EXCEPT ![s].ready = TRUE]
    /\ UNCHANGED <<docLog, proc, port, call, prepared, acked, dropped, maimed, answer, used>>
ServerDies == \E s \in DOMAIN servers :
    /\ Up(s)
    /\ servers' = [servers EXCEPT ![s] = [up |-> FALSE, ready |-> FALSE, docs |-> {}]]
    /\ UNCHANGED <<docLog, proc, port, call, prepared, acked, dropped, maimed, answer, used>>
\* cleanup(): the server is asked to shut down and terminated.
CleanUp ==
    /\ call = NoCall /\ proc # 0
    /\ servers' = [servers EXCEPT ![proc] = [up |-> FALSE, ready |-> FALSE, docs |-> {}]]
    /\ proc' = 0 /\ port' = 0 /\ prepared' = FALSE
    /\ UNCHANGED <<docLog, call, acked, dropped, maimed, answer, used>>
\* The benchmark is killed, maybe inside a write, and started again.
BenchmarkDies ==
    /\ used.runs < MaxRuns
    /\ answer' = NoAnswer
    /\ used' = [used EXCEPT !.runs = @ + 1]
    /\ \/ docLog' = docLog
       \/ /\ At({"ingest"}, "write") /\ docLog' = Append(docLog, Torn)
          /\ (docLog # << >> => docLog[Len(docLog)] # Torn)
    /\ proc' = 0 /\ port' = 0 /\ call' = NoCall /\ prepared' = FALSE
    /\ UNCHANGED <<servers, acked, dropped, maimed>>

WarmStep ==
    \/ EnsureKeeps \/ EnsureSpawns \/ EnsureFails \/ Booted \/ BootFails
    \/ LogRow \/ RequestFails \/ AnswerLost \/ ResetPosted \/ LogUnlinked
    \/ HealthRead \/ BatchPosted \/ BatchUnreadable \/ DocsPosted \/ QueryPosted
WarmNext ==
    \/ Initialize \/ Prepare \/ RetrieveDocs \/ IngestDocs \/ CleanUp
    \/ WarmStep \/ ServerReady \/ ServerDies \/ BenchmarkDies
WarmInit == WarmIdle /\ used = [docs |-> 0, runs |-> 1, lapses |-> 0]
WarmSpec == WarmInit /\ [][WarmNext]_warmVars

-----------------------------------------------------------------------------
WarmTypeOK ==
    /\ docLog \in Seq(Document \cup {Torn})
    /\ servers \in Seq([up : BOOLEAN, ready : BOOLEAN, docs : SUBSET Document])
    /\ {proc, port} \subseteq 0..Len(servers)
    /\ call = NoCall \/ (call.op \in DOMAIN StepsOf /\ call.at \in StepsOf[call.op]
                           /\ call.left \in Seq(Document \cup {Torn}))
    /\ prepared \in BOOLEAN
    /\ acked \cup dropped \subseteq Document /\ maimed \subseteq 1..MaxServers

\* A query is answered from a server that holds every document whose ingestion was
\* confirmed since the last reset, whichever servers died in between and wherever the
\* benchmark was killed and resumed, unless a replay into that very server had raised.
WholeUnlessMaimed == answer.from \notin maimed => answer.need \subseteq answer.have

\* No answer comes from a document of before a completed reset: what the log replays
\* into a respawned server begins where the reset left it.
ResetIsFinal == answer.have \cap answer.past = {}

\* What a server answers from is the log since the last reset: all of it and nothing
\* else.
ServesTheLog == WarmTypeOK /\ WholeUnlessMaimed /\ ResetIsFinal

\* Every call comes back: a child that stays alive and prints nothing does not hang it.
CallsReturn == call # NoCall ~> call = NoCall

\* What retrieve() promises of a respawned server: "replaying documents.jsonl before
\* serving" (csm_provider.py:178), so that the rest of the unit is not served from an
\* empty one.  A replay that raises leaves the server up; the next call finds it running.
ServesWholeLog == answer.need \subseteq answer.have
=============================================================================
