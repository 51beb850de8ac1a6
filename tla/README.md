# Context Swarm Memory: a TLA+ verification project

Context Swarm Memory (CSM) stores long-term memory as *shards*: append-only
chains of immutable snapshots on disk. A question is answered by routing over a
directory of shards, probing a few of them with a language model, recalling from
fewer, and synthesising one packet. Around that core the repository carries a warm
retrieval server for a benchmark (AMB), an evaluation harness with caches and
resumable runs, and provider clients with retries.

This directory holds TLA+ models of the parts whose correctness depends on
*order*: which file is written first, which answer arrives late, what a crash
leaves behind, what two requests do to one cache; and of the pure kernels in which
a tie, a limit or a repeated id changes the answer without any visible sign. Paths
below are relative to the repository (PROJECT.json prefixes them with `src/`).

1. The system · 2. Modules · 3. The models, one by one · 4. The runs · 5. What is
proved · 6. What disagrees with the documentation · 7. What is not modelled · 8. Plan

## 1. The system

| part | code | state it keeps | what is hard about it |
|---|---|---|---|
| durable store and Committer | `src/core/commit.ts`, `src/storage/jsonlStorage.ts`, `src/utils/ids.ts` | snapshot files, manifests, `directory.json`, `chronicle.jsonl` | four unsynchronised file writes per command, no lock, crashes between any two, torn JSON |
| ask pipeline | `src/core/ask.ts`, `probe.ts`, `recall.ts`, `synthesize.ts`, `providerJson.ts` | one run: probes, eager recalls, costs | speculative recalls racing probes, errors of work that is then discarded, costs counted once |
| citation rules | `probe.ts`, `recall.ts`, `synthesize.ts`, `schemas.ts` | none | what a model may cite, and what is dropped or taken on trust |
| routing | `src/core/router.ts`, `routerEmbed.ts` | a module-global report of the last hybrid selection | the report outlives the query it belongs to |
| selection kernel | `src/core/selection.ts` | none | ties, limits, budgets |
| router index, descriptors | `src/core/descriptors.ts`, `retrievalUnit.ts`, `routerEmbed.ts` | a memoised promise per corpus | a failed build stays memoised; scores on two scales |
| coverage assembler | `src/core/coverage.ts` | none | caps, quotas and a token budget over ids that repeat between shards |
| CSM baseline | `src/eval/baselines/csm.ts`, `embed.ts` | index caches, a worker pool, embedding files | six stages that insert into one order; a fail-fast pool; shared promises |
| AMB retrieval bridge | `scripts/amb-csm-retrieve.ts`, `src/eval/ambReturnRank.ts` | none | repairs, folds and digests competing for a bounded return |
| AMB warm server | `scripts/amb-csm-server.ts`, `amb-fact-registry.ts`, `amb-preference-profile.ts` | documents, scope versions, five caches with in-flight slots, artifact files | single flight, versions read before an await, reset racing builds |
| AMB memory provider | `integrations/amb/csm_provider.py` | a child process, its port, `documents.jsonl` | server and benchmark die at different times; replay |
| LLM response cache | `src/eval/cache.ts`, `cachedLlm.ts` | one file per key | temporary file and rename, refusing empty answers |
| gate scripts | `scripts/answer-arms.ts`, `judge-arms.ts`, `calibrate-judge.ts` | a cursor shared by workers | a pair of calls of which one fails; retries through a cache |
| benchmark runner | `src/eval/runner.ts` | `results.jsonl`, early stops | crash and resume, early stops reconstructed from partial rows |
| BEAM slice driver | `scripts/run-beam-slice.ts` | an append chain, memoised builds, done ids | bounded workers, a rejected link, resume |
| provider clients | `src/providers/*.ts` | explicit caches, retry budget | retry against cache invalidation, timeouts, cut streams |
| corpus, parsing, scorers, judge | `src/eval/corpus*.ts`, `mcq.ts`, `scorer.ts`, `beamJudge.ts`, `retrievalScore.ts` | none | off-by-one ids, silent zeros, tails of exact tests |
| settings | `src/utils/env.ts` | the environment | each stage reads its own setting when it needs it |

How they interact: the CLI (`src/cli/index.ts`) starts one process per command.
`csm shard create`, `csm remember` and `csm commit` change the store; `csm ask` runs
the pipeline over a `StorageReader` and writes nothing but a query log. The warm
server, the baseline and the benchmark drivers run the same pipeline over an
in-memory reader, many requests at a time in one Node process, where every
`await` is a point at which another request may run. The Python provider owns the
warm server as a child process and talks to it over HTTP.

For each part, what makes it correct:

* **store**: versions form a gapless chain of immutable files; no pointer is ahead
  of what it points to; an acknowledged write survives later commands and crashes;
  freezing is final; an interrupted command can be repaired.
* **ask pipeline**: the schedule (parallel, batched, eager) changes latency and
  nothing else; each answered call is billed once; speculation is bounded; every
  run ends. Every id a packet cites was shown to the model that cited it.
* **routing, selection**: the report "discriminated" is true of the cut it is
  attached to; probes are saved only on a ranking that earned it.
* **AMB server and provider**: what is served as fresh was built from the documents
  of now; one build per artifact, scope and version; after a reset nothing old is
  seen; a query sees every document whose ingestion was confirmed.
* **runner, gate scripts, slice driver, cache**: a resumed run ends with the rows and
  the early stops of an uninterrupted one; no row is lost, joined or counted twice;
  a refused or failed answer is never cached; a comparison stays paired.
* **providers**: a request ends, within its retries; a cached prompt is never used
  for another prompt; what was created is deleted.
* **kernels**: every stage keeps its own limit and what an earlier stage found.

## 2. Modules

| module | models |
|---|---|
| `CsmStore` | the durable store: every command as a sequence of file-system steps |
| `ShardLog` | what the store promises: append-only logs, created once, frozen for good |
| `AskVerdicts`, `AskPipeline` | one run of `ask()` under every schedule |
| `AskSpec` | what `ask()` promises its caller, without a schedule |
| `Selection` | `select()`, `packToBudget`, `dedupeInOrder`; used by most of the modules below |
| `Routing` | the router's cut and the probe-shrink gate, several queries at a time |
| `RouterIndex` | descriptors, directory, index build and the two router scores |
| `Citations` | what each prompt of `ask()` shows and what its reply may cite |
| `Chronicle` | the coverage assembler |
| `Evidence` | from `ask()`'s packet to the evidence the answering model reads |
| `AmbReturn` | what the AMB bridge returns for one query |
| `AmbServer` | the warm retrieval server |
| `WarmProvider` | the memory provider that starts, loses and refills that server |
| `LlmCache` | one call through the response cache; used by the next two |
| `PairedArms` | the gate scripts that compare two arms |
| `BenchRunner` | the benchmark sweep and its resume |
| `BeamSlice` | the BEAM slice driver |
| `GeminiCache` | calls over the registry of explicit caches |
| `ChatClient` | one call through an OpenAI-compatible endpoint |
| `OrganizePool` | the write-time passes and their worker pool |
| `EmbedCache` | the embedding files and the model's pipeline |
| `Settings` | the environment as the stages of one retrieval read it |
| `Corpus`, `Grading`, `BeamJudge`, `BeamScore` | corpora, answer parsing and statistics, the judge, the slice scorer |
| `MCCsmStore`, `MCAskPipeline`, `MCEval`, `MCDrive`, `MCRouting`, `MCGrading`, `MCKernels` | instances for TLC, and compositions |
| `StoreProofs` | proofs about the store, without and with a discipline of use |
| `AskProofs` | proofs about a run of `ask()` |
| `SelectionProofs` | proofs about the selection kernel and about filtered, ranked and packed sequences; an induction principle |
| `CallProofs` | proofs about the calls that share work (embeddings, the write-time pool, the endpoint client, the settings), about the citations of `ask()` and about the router index |
| `KernelProofs` | proofs about the composition `MCKernels`: routing over several queries, the stages of the evidence, and what `CallProofs` proves beside the kernels |
| `DriveProofs` | proofs about the explicit caches and the slice driver |
| `ServerProofs` | proofs about the warm server and its provider |
| `EvalProofs` | proofs about the response cache and the gate scripts |


Operators whose name has a suffix (`Fresh_AnyVersion`) and whose comment begins
with "Slip" are plausible mistakes. PROJECT.json pairs each with the property that
catches it; no specification uses them. History variables are marked "history"
where they are declared; a bound is a constant `Max...`, marked "bound".

## 3. The models, one by one

### CsmStore

State and code: `snaps`/`snapFile` are `snapshots/Snnn.json` (the text last
written, and whether a reader finds it whole, empty, garbled or absent),
`manifest`/`manFile` the manifests, `directory`/`dirFile` `directory.json`,
`chronicle` the JSONL log. `op[w]` is the command process `w` executes: its phase
(`pc`), the manifest it read, the version it adds, the directory it is about to
save. `fs.writeFile` opens with truncation and then writes, so each JSON write is
two steps (`...Open`, `...Put`); two writers whose bytes overlap leave whole or
garbled text, and `JSON.parse` throws on anything but whole text, which ends the
command (`Stop`) with everything written so far left in place.

`createShard`, `appendEventAndSnapshot` (from `remember` or a commit decision) and
the freeze share their later steps; the first steps are separate actions with the
guards of the code (`CreateLoadManifest`, `AppendLoadManifest`,
`AppendLoadPrevious`, `AppendCheckOrphan`, `FreezeLoadManifest`, `SnapshotRefuse`).
`Crash` kills a command between any two steps. `RecoverAdopt` and `RecoverDelete`
are the two repairs the orphan error message offers an operator; they run while no
command does. `AskLoadDirectory`/`AskFinish` is a query holding a copy of the
directory while commands run.

`MCCsmStore` adds the discipline of use, chosen at the start of a behaviour and kept:
*alone* (one command at a time), *perShard* (one command per shard; commands on
different shards interleave and share `directory.json`) and *none*. A property that
needs a discipline says so in its definition.

### AskPipeline and AskSpec

State and code: `pc` is the `await` of `ask()` at which the run is suspended;
`call` holds every LLM call a run can make (a probe and a recall per candidate, the
shared batch, the synthesis) with its status and its answered attempts, as
`completeAndValidate` makes them (one attempt, and one more if the reply does not
validate); `entries` is `eagerRecalls`, `others` is `eagerStartedOthers`, `targets`
is `recallTargets`, `cost` counts attempts instead of tokens. `mode` holds the
switches: `parallelProbes`, `CSM_PROBE_BATCH`, `CSM_EAGER_RECALLS`,
`CSM_PROBE_LOCAL_KEEP`.

Calls answer in any order (`ProbeAnswers`, `BatchAnswers`, `OtherAnswers`,
`InvalidReply`, `CallFails`); the handler attached to a probe, which may start an
eager recall, runs with the answer, as it does on the JavaScript thread. The
pipeline's own steps follow the code from barrier to barrier: `Route`,
`StartProbes`, `SelectRecalls` (accounting, cut, router-trust net, jobs),
`NextRecall` for a serial run, `RecallsDone`, `DiscardPass`, `SynthDone`,
`Finalize`. `Rejects` is a rejection reaching the caller; calls in flight go on.
A verdict is abstracted to whether it qualifies for recall and to its score. The
candidates are their positions in the router's order.

`AskSpec` says what a caller may rely on without naming a schedule: the probe stage
ends with a verdict per shard asked, the recalled shards are a legal cut of the
verdicts, and a run fails only at a call that an execution of one call at a time
would also have made. `ScheduleInvisible` is that specification under a
refinement mapping.

### AmbServer and WarmProvider

`AmbServer`: `docs` is the document store, `scopeVersion` the map `scopeVersions`,
`corpora` the corpus cache, `cache[k]` and `inflight` the cache and the slots of each
artifact (Observation, Fact Registry, Preference profile, folded registry), `disk`
the artifact files, `pending` and `warming` the pre-warm queue and its workers,
`req[r]` a request between two awaits. A text is modelled by the set of documents it
was built from, which is what the properties compare. One step is what runs between
two awaits: `Ingest`, `Reset`, `Retrieve` (the corpus is taken here), `CallGetter`
(cache hit, slot joined, file read, or build launched), `Answer`, `PrewarmScope`,
`BuildDone`, `BuildFails`. The artifact file of a build may not get written, which the code
swallows (`Filed`); the text is then in the cache alone. New work is taken up only when no continuation is left
(`Quiet`), the order of the event loop. Eviction (`Store`) drops stale entries first,
then the oldest, never the key just written; the folded registry's cache has only the
first loop, as in the code. `SpecPerUnit` restricts `Spec` to the way the BEAM harness
uses the server: every unit ingested once, every query scoped to one unit.

`WarmProvider`: `docLog` is `documents.jsonl`, `servers` every child process there
ever was (up, ready, the documents it holds), `proc` and `port` the process and the
port the provider holds, `call` the request it is in the middle of. Each HTTP request
of a call is a step (`AfterEnsure`, `HealthRead`, `BatchPosted`, `DocsPosted`,
`QueryPosted`, ...), between which the server (`ServerDies`) or the benchmark
(`BenchmarkDies`, in the middle of a line perhaps) may die, or the request may fail
(a lapse). `maimed` records the servers into which a replay raised.

### LlmCache, PairedArms, BenchRunner

`LlmCache` is one cached call: `Lookup`, the provider (`Answers`, `ProviderThrows`),
`StoreOpen`, `StorePut`, `StoreRename`. The temporary file's name contains the
millisecond, so two calls of one key may share a file; a file that is renamed while
another call has it open is followed to where it is linked now (`at`).
`PairedArms` is the worker loop of the gate scripts over that cache, with both legs of
a pair in flight, retries under a key of their own, one leg failing, kills and
restarts. `BenchRunner` is the sweep: `Load` (rows and early stops reconstructed),
the nested loops over the cells (`at` is the cell they are at), rows appended, a summary,
kills that may tear the last row, restarts. A sweep has at least one lane, size and
question: with an empty list the loops have nothing to run.

### BeamSlice, GeminiCache, ChatClient

`BeamSlice`: files are abstracted to what their readers make of them: `saved`, the lines
that can be read, with their query and the retrieval they came from; `loose`, those of
them that lack their newline; `ragged`, the files whose last line does. An append
(`AppendFile`) ends whole, in the middle of its text or before its newline, when it fails
or the driver is killed (`CutShort`). `readDoneQueryIds` counts a line without its newline
as done; the next append makes it and the new line one that nobody can read (`joined`).
`chain` is the promise chain of appends, `memo` the memoised builds, `worker` the bounded
workers, `Kill` and `Resume` the life of the driver; a unit without a document in scope
(`Unscoped`) is passed over with its queries, as in the code (374-377).

`GeminiCache`: `registry` is the process's map of
explicit caches, `live` what the service holds and bills; a call captures the name
it was given and uses it across its retries while other calls replace or invalidate the
entry; the clock runs. `ChatClient`: the retry loop with its retryable statuses,
`Retry-After` and timeout, and the reading of a streamed body cut at any place.

### The kernels

`Routing` runs several queries in one process: the lexical cut in one step, the hybrid
one across the await of the query's embedding, and the gate (`ShrinkGate`), which reads
`last`, the variable `lastHybridSelection` that all queries share. Scores are free
small integers, so every shape of ranking is covered.

`RouterIndex`, `Citations`, `Chronicle`, `Evidence`, `AmbReturn`, `OrganizePool`,
`EmbedCache`, `Settings`, `Corpus`, `Grading`, `BeamJudge` and `BeamScore` translate
functions over data. Each has a small state machine where the code has stages (six for
`Evidence`, one per reader for `Settings`) or actors (callers of `EmbedCache`, workers
of `OrganizePool`), and otherwise one step that computes the outcome of a chosen input.
The inputs (*worlds*) are in `MCKernels` and `MCGrading`: small ones with ties inside
and at a cut, repeated ids, empty groups, limits that bind. Texts are sets or sequences
of words, logarithms and cosines are replaced by order-preserving small numbers.

A call of `EmbedCache` looks its texts up (`EmbLook`), then computes and writes each miss
(`EmbCompute`, `EmbOpen`, `EmbWritten`), between the steps of other calls. It may fail in
any of these phases (`EmbFails`): the pipeline cannot be loaded or throws, the directory
or the file cannot be made, the file is written in part. The process lives on, with a
vector that has no file (`unfiled`, history) or a short file that later calls take for a
hit (`cut`, history), as after a kill (`EmbKill`).

## 4. The runs

| run | over | shows |
|---|---|---|
| `store_disciplines` | `MCCsmStore`: two writers, a query, two shards, three commands, two crashes, the three disciplines | `FilesExist` in any discipline; with one command per shard `HistoryKept` (gapless chain, acknowledged writes survive, chronicle in order), `RoutingNeverAhead`, `HistoryFinal` (immutable files, freezing is final), `ImplementsShardLog`; with one command at a time `StoreConverges` |
| `ask_schedule` | `MCAskPipeline`: every switch, four candidates, two recalls, one invalid reply, any call failing | `ScheduleInvisible`, `CostExact`, `RunBounded`, `Terminates` |
| `eval_resume` | `MCEval`: a gate script, a sweep or the server, chosen at the start | `AnswersWhole`, `NeverBoughtAgain`; `ArmsPaired`; `SweepResumes`; `BuiltIsFresh`, `AnswersCurrent`, `WorkBounded` |
| `retrieval_drive` | `MCDrive`: Gemini calls, the slice driver, the server under BEAM's discipline or the provider, chosen at the start | `OwnPrompt`, `BudgetKept`, `RegistrySound`; `SliceSound`; `ArtifactsSound`; `ServesTheLog`; `EachEnds` |
| `kernels` | `MCKernels`: one kernel per behaviour | `ReportHonest`, `KeepersProbed`, `EvidenceSound`, `StagesDisciplined`, `ChronicleSound`, `RouterSound`, `CitationsSound`, `ReturnSound`, `CallsSound`, `SharedWorkSound`, `GradingSound`, `JudgeSound`, `SliceScored`, `CorpusSound` |
| `store_overwrite`, `ask_spend`, `amb_mixed`, `route_stale`, `router_units`, `router_fallback`, `replay_broken` | violations | section 6 |

**One part per behaviour.** Parts that share no state are run together: the initial
state chooses one (`harness`, `engine`, `kernel`), the others keep their initial
values, so a run explores the sum and not the product of its parts. Histories that
count faults, kills or restarts are bounded, and some start at a value that leaves just
as many as the comment over the initial states says.

**Composite properties.** A composite is the conjunction of named parts, each defined
and commented beside it: for instance `ArmsPaired` is `EntryWhole`,
`EveryQueryCounted`, `RetryIsFresh` and `ReplayReproduces`; `SliceSound` is
`SummaryWhole`, `RowOnce`, `DocsOfTheRow` and `BuiltOnce`. Each part has a mutant of
its own in PROJECT.json.

**Bounds and why they are enough.** Store: three commands create a shard, give it a
second version and freeze or race it; two crashes let a repair be followed by a crash;
`MaxSnap = MaxOps + 1` is never what stops a command. Ask: with four candidates and two
recalls an unbounded speculation would exceed `2 * maxRecallShards - 1` calls; a batch
needs three probed shards; two scores let the cut reorder the router's order. Server:
two ingests of any set of users let a version change during a build and a query, and
caches of one entry make every second scope evict. Cache and gate scripts: two queries,
one of them with both arms under one prompt, are a pair that shares a file beside one
that does not. Sweep: two lanes of two sizes and two questions, one lane stopping at its
first or second size. Slice: two queries of one unit, one of a second and one of a unit without documents,
two workers, one restart: a row cut short and the row that joins it, a unit passed over.
Embeddings: two calls over shared and own texts, either of them failing at any point, and
one kill. Provider: three documents in
replay batches of two, two servers. Gemini: two calls with one key and three prompts, a
clock that passes the expiry. Where the interesting case needs an input, it is named
beside the world that brings it.

**Symmetry** is used where writers, requests and users are interchangeable and no
liveness is checked (`eval_resume`, `kernels`).

**Fairness and why the code justifies it.** `ask_schedule`: what can run runs, and each
call is answered or fails (`WF` on the pipeline's steps and on answers). The providers
bound the wait for a response and the retries; the OpenAI-compatible client does not
bound the body once its headers are there (`OpenAIProvider.ts:202`), so for it this is
an assumption. `retrieval_drive`: weak fairness of each Gemini call's progress, of the
running part's own steps (timers fire, requests are answered or fail), and of a build's
end. A kill, a fault and the arrival of work are never fair.

**Deadlock** is checked except where a part may really stop: a run of `ask()` that is
over, a driver that may be killed for good, a kernel that has computed its outcome. In
`ask_schedule` and `retrieval_drive` the liveness properties cover what a deadlock check
would find. In the store `Finished` and in `MCEval` `EvalEnded` are the only ways to
stop, so a part that could neither go on nor fail would be reported.

## 5. What is proved

The theorems hold for every value of the constants that satisfies the named
assumptions (`ASSUME` in the module that declares the constant); TLC evaluates those
assumptions on every run. Each theorem is proved from an inductive invariant that TLC
checked first on the run's instance. The invariants below say what a *step in flight*
knows, which is what the properties themselves leave open.

| module | theorem | property | for all |
|---|---|---|---|
| `StoreProofs` | `TypeCorrect` | `TypeOK` | writers, readers, shards, bounds; operators' repairs included |
| | `PointersNeverDangle`, `ChronicleIsBacked`, `FilesAlwaysExist` | `NoDanglingPointer`, `ChronicleNeverInvents`, `FilesExist` | commands without any discipline, crashes anywhere |
| | `HistoryIsKept`, `HistoryIsFinal`, `RoutingIsNeverAhead` | `HistoryKept`, `HistoryFinal`, `RoutingNeverAhead` | one command at a time per shard |
| | `StoreRefinesLog` | `ImplementsShardLog` | the same |
| | `StoreAlwaysConverges` | `StoreConverges` | one command at a time over the whole store |
| `AskProofs` | `CostIsExact`, `RunsAreBounded` | `CostExact`, `RunBounded` | candidates, limits, modes, faults |
| | `CallsAreMadeOnce`, `ScheduleRefines` | no call is made twice; `ScheduleInvisible` | the same |
| `SelectionProofs` | `ReportExact` | the report of a cut is exact | rankings of any length, any score |
| `KernelProofs` | `RoutingTypeCorrect`, `ReportsAreHonest`, `KeepersAlwaysProbed` | `RoutingTypeOK`, `ReportHonest`, `KeepersProbed` | queries, shards, scores |
| | `SharedWorkIsSound` | `SharedWorkSound` | texts, corpora, embeddings, faults; jobs, workers, batches |
| | `CallsAreSound` | `CallsSound` | calls, responses, retries; environments, stages |
| | `EvidenceIsSound`, `StagesAreDisciplined` | `EvidenceSound`, `StagesDisciplined` | corpora, packets, recalls, cosines, terms, settings |
| | `CitationsAreSound` | `CitationsSound` | shards, events, hints, budgets, replies |
| | `RouterIsSound` | `RouterSound` | corpora, unit sizes, switches, queries |
| `DriveProofs` | `AnsweredUnderOwnPrompt`, `RetriesKept`, `RegistryNeverLies` | `OwnPrompt`, `BudgetKept`, `RegistrySound` | calls, keys, prompts, faults |
| | `SliceIsPaired` | `SliceSound` | queries, units, workers, starts, failures |
| `ServerProofs` | `TheLogIsServed` | `ServesTheLog` | documents, servers, batches |
| | `BuiltStaysFresh`, `WorkIsBounded`, `AnswersStayCurrent`, `ArtifactsAreSound` | `BuiltIsFresh`, `WorkBounded`, `AnswersCurrent`, `ArtifactsSound` | users, requests, artifacts, cache sizes |
| `EvalProofs` | `ArmsArePaired`, `CacheIsWhole`, `NothingBoughtTwice` | `ArmsPaired`, `AnswersWhole`, `NeverBoughtAgain` | queries, workers, kills, replies |
| | `SweepsResume`, `SweepAnswersWhole`, `SweepBuysOnce` | `SweepResumes`, `AnswersWhole`, `NeverBoughtAgain` | lanes, sizes, questions, kills, restarts |


**Store, no discipline.** `TypeInv` adds to `TypeOK` that the version a command carries
is the successor of the manifest it read. `BackedInv` adds that a command in flight
points only at versions that exist and that files only gain (`Grows`); a version once
created is on disk for good, so every copy of a pointer, however old, stays backed.

**Store, one command per shard.** `PastInv` is the chain itself (`Chain`: versions
`1..latest` whole and each extending its parent by one event, with at most one orphan
behind them) and, for each command, what it knows at each phase (`Flight`): while it has
not saved its manifest nobody moves the manifest it read; what it is about to write
extends the latest version; an orphan it leaves is adoptable. The refinement adds
`OnceInv`: the newest event of a version is of a command of its own, so no event enters
a log twice.

**Store, one command at a time.** `AloneInv` has two halves. Whatever crashes came before,
`Converge`: once a command has saved its manifest, the directory it is about to save, and
then has saved, agrees with that manifest on the command's own shard. While nothing
was killed, what the whole store looks like at each step of the command (`Scene`): its
files, manifest, directory and chronicle lines, shard by shard (`Tidy`), so that a
refusal, a repair or a missing entry cannot come after the first write.

**Ask.** `AskInv` relates every call to the stage: what has been asked early
(`Early`), which verdicts are known (`ProbesKnown`), which recalls (`RecallsKnown`), how
many speculative calls there can be (`Slots`), what does not change any more (`Steady`)
and that the cost is the sum over answered attempts (`Accounted`). `CostExact` follows
by counting, `RunBounded` from `Slots`. Proving the refinement uncovered two overlapping
guards in an earlier form of the mapping, which TLC's evaluation order had hidden.

**Selection, routing.** Ranking by (score, position) is a strict order (`OrderStrict`),
the rank is a bijection (`RankGrows`, `RankOnto`), so a cut takes exactly the best
(`CutTakesBest`) and the report says "discriminated" exactly when the last one in
scores above the first one out. `RoutingInv` carries it through several queries that
overwrite one report; the theorem is about each query's own report, which is what
distinguishes it from the finding of `route_stale`.

**Calls that share work.** `EmbInv`, `PoolInv`, `ChatInv` and `SettingsInv` are proved in
`CallProofs`, each from its module's own steps, and composed in `KernelProofs`, where each
step of `MCKernels` moves one part and leaves the others. `EmbInv` says of every call which
of its places are filled and which it has still to compute (`CallWhole`), that a text two
calls in flight both have is a shared one (`SharedNoted`), that a half-written file is in
somebody's hands or was at a kill or a failed write (`PartsHeld`), and that a text still to be computed
has no file yet (`CountsHeld`), so that a text no other call had is computed once, and once
more for each time its vector was computed and got no file. `PoolInv` says that the chunks of a pass hold its events each once and in order
(`WellChunked`), that every chunk taken is answered or at a worker (`AtWork`), and that a
merge has every answer (`Gathered`). `ChatInv` says that what a client has read so far is
the text of the lines the network has delivered, with the rest of a cut line in its buffer
(`ReadSoFar`), and counts requests against retries (`Asking`). `SettingsInv` says that a
stage behind the arm ran with what the arm's own environment says.

`OrganizePool`, `ChatClient` and `Evidence` compute with recursive functions over a text of any
length (`Packed`, `Marks`, `ApplyExpansion`). tlapm cannot instantiate the library's induction theorems, but
it can use the well-foundedness of `<` itself, which is stated about a set: `LeastNat` (a
set of numbers has a least element) gives `Induct` (a set with 0 that is closed under
successor holds every number) and `Recursion` (what a recursion from 0 to n says defines a
function), and from these follow what `Packed` packs and what `Marks` reads; they are in
`SelectionProofs`.

**Evidence.** `EvInv` says of each stage what it hands to the next: an order that names no
id twice (`EvidenceOnce`), events of the corpus where it adds or packs any, the floor's
count (`FloorReached`), and what was packed and cited. The filters of the code are
written as the items at a set of places (`ItemsAt`), the n-th being the place with n - 1
before it. That is the rank of the selection kernel with equal scores, so its lemmas give
that the places are listed each once and in order (`ItemsListed`, `PlacesInOrder`) and
what a filter, a cut and a removal of repeats keep (`FilterKeeps`, `FirstOfKeeps`,
`DedupeKeeps`). The floor fills by counting: ranked beyond `floorK`, the events of the
ranking that are not in the order yet suffice for the places left (`FloorFills`). What a
stage does to the order is one relation (`OrderStep`): a map of the old places to new
ones that keeps their order and ids, and a foothold of the same shard for every new
place. It composes over the groups of an expansion by `Induct`, each group inserted
behind the last place of its foothold (`LastPlace`, `Spliced`); from it `StagesOnlyInsert` and
`ExpansionLocal` follow. The assumptions are that the corpus lists each event once, that a
line costs at least a token, and that packets, recalls and timelines are finite sequences
of ids (`EvidenceConstants`, `EvidenceInputs`); which ids, cosines and terms they bring is free.

**Citations.** `CtInv` is the property and the types of what a run of `ask()` has at hand.
The index a probe sees is a cut of all events by relevance that a budget packs, so
`RankedAll` (a ranking lists every item once, best first) and `PackKeeps` say which events
it shows. A batched reply is read verdict by verdict (`BatchHolds`): one for each shard
asked, what the reply said first of it, and ids of that shard only. An excerpt is greedy:
`KeptFragments` visits the fragments by rank and keeps each that still fits; `SumGrows`
(a sum grows with the set it is over) gives that what was refused does not fit the final
excerpt either and that an anchor was refused only for anchors (`KeptIsWhole`). The
assumptions are that replies are well formed once parsed, whatever they name, and that no
fragment outranks one with a citation in it, as `fragmentScore` has it
(`digestSelection.ts:220`).

**Router index.** `RxInv` says that directory and index are what the corpus makes them, the
index from one build (`RxHolds`), and that a query is scored by the entries alone or by
the whole index (`AskHolds`). That units tile follows from where the unit of each event
begins (`UnitHolds`, `UnitRuns`), by `Induct`. `ThresholdLies` bounds the saturated score
on both sides of 4, and `CosineBounded` that a cosine in thousandths exists. `Described`
counts what can outrank a term that one shard has: terms that are rare too, or that occur
more often there (`Rivals`); a term with more shards and no more occurrences weighs less,
whatever the number of shards (`RareScores`). The proof corrected the model here: the
earlier hypothesis counted as rivals only terms that occur at least twice as often, which
is enough for up to five shards and false from six on, beyond the instance that is checked.

**Gemini.** Five invariants: types, the request budget per call (`BudgetInv`), the name
a call captured is of its own prompt (`PromptInv`), the registry names only caches of
that key and prompt (`HonestInv`), and, as long as no two calls meet on a key and no sweep
meets a call, each living cache is registered (`LeakInv`).

**Provider.** `WarmInv` says of every server which prefix of the log it holds and of the
call in flight how far its replay is; `ServesTheLog` exempts the servers a replay raised
in (`maimed`), which is the finding of `replay_broken`.

**Server.** `AmbInv` relates each cached text, slot, running build and continuation to
the version it captured. `BuiltIsFresh` and `WorkBounded` need `OnePerQuery` (no query
awaits one getter after another; without it `amb_mixed` shows the failure), which is a
hypothesis of the theorem and of the property. `AnswersStayCurrent` is about levers
whose artifact is not kept in a file (`FilesUnused`); `ArtifactsAreSound` is about the
levers that are, used as the BEAM harness uses them (`SpecPerUnit`, no reset). The
proof needs `NoBuildApart`: the placeholder for "no build" is not a set of documents.

**Cache and gate scripts.** `CacheInv` says what a file of a key may hold: a response
the provider gave for that key, or bytes that do not parse. It holds for *any* calls,
so `AnswersWhole` does too, even where two calls share a temporary file. `ArmsInv` adds
that a call in flight is the one its leg waits for (`CallsOwned`), that a call for a key
of its own has its file to itself and that its entry is missing until it renames
(`Lone`), that every query taken is at exactly one worker, scored or excluded
(`QueriesCounted`), that each attempt a leg has behind it drew an unusable reply of its
own (`RetriesFresh`), and that what was kept is in the cache (`RepliesStored`). Keys two
arms share are exempt where two calls may store at once. `NeverBoughtAgain` is an action
property of the same invariant.

**Sweep.** `SweepInv` says that the one call in flight is for the cell the loops are at,
which has no row yet and is not to be skipped (`RunnerAlone`); that the groups behind the
loops are filled, or beyond the size their lane stopped at, and that a stop is at a
filled group below the threshold (`GridFills`); that the rows in memory are the last
readable lines of the file but for errors of earlier sweeps (`FileFollows`); and that a
score is what the cache's entry would be scored as again (`ScoresHold`). That the stops
replayed from the file are those of the loops follows from the grid, not from the
history (`StopsTold`).

**Slice driver.** `SliceInv` says what the files hold: a line without its newline is the
last of its file and a query has one readable row at most (`FileInv`). It says where a
query is that has no row: unclaimed, at exactly one worker, in a unit that is passed over,
or joined with another line in this start (`Places`, `Covered`); that the chain holds the
queries of the workers that wait for it, each once, and behind a half-done head the
documents its row will refer to (`Chained`); and that in a start that goes on only the first
row appended can join a line, so that two rows at most are lost (`OneLost`): that one, and
the one before it, which was done for want of nothing but its newline. `SummaryWhole` says
just this: a summary vouches for every query but those two and those of units without
documents. It needs that the ids
of the selected queries are distinct, as the dataset forms them (conversation, category,
index: `src/eval/corpus/beam.ts:29`), and that there is a query to run.

**Model-checked only.**

* Liveness and `ENABLED`: `Terminates`, `EachEnds`. Out of the prover's reach.
* The composites of the kernels that compute one outcome from data (`ChronicleSound`,
  `ReturnSound`, `GradingSound`, `JudgeSound`, `SliceScored`, `CorpusSound`). Their definitions filter and
  fold sequences with operators that take a `LAMBDA` (`SelectSeq`, `FoldLeft`) or choose an
  order of a set (`SetToSortSeq`), whose definitions the provers cannot use, and some state
  facts of combinatorics (the exact tests of `Grading`). TLC checks them over enumerated
  worlds.

## 6. What disagrees with the documentation

Seven runs end in a violation of what a comment or a document says; PROJECT.json quotes
each line.

| run | property | the code |
|---|---|---|
| `store_overwrite` | `SnapshotFilesImmutable` | two appends pass the existence check together and the second replaces the snapshot of the first (`jsonlStorage.ts:108`; `docs/ARCHITECTURE.md:55-57`) |
| `ask_spend` | `SpendCounted` | an unselected eager recall whose second attempt fails is swallowed with the usage of its first (`ask.ts:518`; `providerJson.ts:14-15`) |
| `amb_mixed` | `BuiltIsFresh` | a query keeps its corpus across two getters while the second getter reads the version again (`amb-csm-server.ts:577`; `:248-250`) |
| `route_stale` | `ShrinkJustified` | when a query's embedding fails the gate reads the report of an earlier query (`ask.ts:214`; `:206-211`) |
| `replay_broken` | `ServesWholeLog` | a replay that raises leaves a half-filled server which the next query is answered from (`csm_provider.py:162`; `:151-158`) |
| `router_units` | `BestPassageRanks` | the unit centroids never reach the router index (`routerEmbed.ts:163`; `baselines/csm.ts:1751`) |
| `router_fallback` | `FloorNeedsSignal` | the floor's threshold is converted although the scores fell back to lexical ones (`baselines/csm.ts:1291`; `:1287`) |

Observed while modelling, without a run of its own:

* *Store.* A freeze beside an append on the same shard is undone when the append saves the
  manifest it read (`commit.ts:88`); a torn JSON file stops every later command until it is
  repaired by hand (`jsonlStorage.ts:158`). "All writes are visible in chronicle"
  (`specs/context_swarm_memory_spec.md:845`) is false after a kill between the manifest
  and the log. A dry run on a frozen shard says "would append" where the append throws.
* *Server.* A late build of an old version lets the newer one be built twice
  (`amb-csm-server.ts:609-610`); a second ingest of a unit may be served the first one's
  artifact file (`amb-fact-registry.ts:22-24`); the cost of a pre-warm build is charged to
  no query (`:83-86`), and a fact build is never billed while `CSM_AMB_FACT_FOLD` is on
  (`amb-csm-retrieve.ts:209-213, 228, 453-458`).
* *Provider.* After a respawn that times out the provider keeps the old port; a torn last
  line of `documents.jsonl` makes every later replay raise.
* *Runner, slice.* A cell of which every call failed counts as accuracy 0 and may stop a
  lane (`runner.ts:354`, against `:508`). A resumed append onto a last line without its newline
  joins two rows; the slice driver had counted the first as done, and a summary is written
  without either (`run-beam-slice.ts:568, 623-637`), as it is without the queries of a unit
  that has no documents (`:374-377`).
* *Embeddings.* A vector file that was written in part, by a process that lives on, is a hit
  for every later call (`embed.ts:71-82, 93`).
* *Retrieval.* Footholds described as always included can be dropped by the caps;
  `selectChronologicalCoverageIds` fills its limit in alphabetical order; chronological
  neighbours never cross a virtual shard; `textById`, `computeTemporalRelation` and
  `countCitedEvents` key by bare ids that repeat between shards; session digests cover at
  most twelve sessions; archived shards with three matching tags stay eligible for routing.
* *Bridge and scorer.* A document without an id is numbered per scope by the bridge and
  per file by the scorer; `parseFreeFormOutput` takes the first of several answers; a
  comment says "better" where the code compares with `>=`.
* *Settings and comments.* Coverage is described as off by default at `ask.ts:108` and in
  `baselines/csm.ts`, and is on; an invalid setting is reported only when its stage reads it;
  `key_claims.sources` of the synthesis is not checked
  (`specs/context_swarm_memory_spec.md:1312`).

## 7. What is not modelled

Text: prompts, digests beyond what they may cite, logs, reports, charts, the wording of
HTTP responses, the regular expressions that recognise intents (their result is an
input). Arithmetic on floats: cosines, BM25 weights, bootstrap intervals and
correlations are replaced by small ordered numbers or left out. Stateless code: CLI
parsing, token estimates, shard health, types. Adapters: other providers, the MCP
wrapper and the reranker, whose only state is a lazily loaded pipeline like the one
`EmbedCache` models. One-shot scripts over finished files (`scripts/build-*`,
`measure-*`, `verify-*`, `gen-*`). Within modelled parts: `csm init`, `appendQueryRun`,
`/healthz` and `/shutdown`, `headtohead-arms`, `runEval`, and the observation logs, all of
which write what nothing reads back. PROJECT.json says for each component what is left
out of it.

The abstractions that matter: hashes are injective; a text is the set of documents it
was built from, or a member of a small set; `fs.writeFile` is open-and-truncate followed
by one write, so that a file can be found empty or in part; only an artifact file of the
warm server is there whole or not at all; a process dies between steps and not inside one; the clock is the order of
events, except in `GeminiCache`, where it runs.

## 8. Plan

1. `Corpus` and `BeamScore`: their filters written as `ItemsAt`, their folds as
   recursive functions, in the way of `Evidence` and `Citations`.
2. After them `Chronicle` and `AmbReturn`, whose orders need the lemmas of the selection
   kernel over composite keys.
