----------------------------- MODULE AmbServer -----------------------------
(***************************************************************************)
(* The warm retrieval server (src/scripts/amb-csm-server.ts): documents    *)
(* per user, a corpus cache, and four write-time artifacts built by long   *)
(* LLM passes behind versioned caches with single-flight builds.  Two of   *)
(* the artifacts also have a file cache (amb-fact-registry.ts,             *)
(* amb-preference-profile.ts).  An artifact's text is modelled by the set  *)
(* of documents it was built from.                                         *)
(*                                                                         *)
(* One JavaScript thread: what a handler does between two awaits is one    *)
(* step, and a request, a reset or a build result is taken up only when no *)
(* continuation is left to run (Quiet).                                    *)
(***************************************************************************)
EXTENDS Integers, Sequences, FiniteSets, Functions

CONSTANTS
  Users,        \* user ids
  All,          \* the null scope, "__all__"
  Reqs,         \* /retrieve requests
  Active,       \* the artifacts whose flag is on
  Width,        \* CSM_AMB_PREWARM_SCOPES
  CorpusMax,    \* CORPUS_CACHE_MAX
  CacheMax,     \* OBSERVATION_CACHE_MAX, PREFERENCE_CACHE_MAX
  NoBuild,
  MaxIngests,   \* bound: /ingest calls
  MaxResets,    \* bound: /reset calls
  MaxFailures   \* bound: builds and writes of artifact files that fail

Kinds == {"observation", "facts", "preference", "fold"}

ASSUME ServerBounds == /\ Users # {} /\ All \notin Users
                       /\ Active \subseteq Kinds
                       /\ {Width, CorpusMax, CacheMax} \subseteq Nat \ {0}
                       /\ {MaxIngests, MaxResets, MaxFailures} \subseteq Nat

Scopes == Users \cup {All}
Intent == {"observation", "facts"}   \* at most one of them per query
DiskKinds == {"preference", "fold"}  \* also cached in a file; degrade on failure
Doc == (1..MaxIngests) \X Users

VARIABLES
  docs,          \* documents: one per ingest call and user
  scopeVersion,  \* scopeVersions
  corpora,       \* corpusCache, in insertion order
  cache,         \* per artifact: its cache, in insertion order
  inflight,      \* per artifact and version: the promise in its slot
  running,       \* builds whose LLM pass is going on
  built,         \* builds that succeeded and, where they have a file, are in it (history)
  disk,          \* the artifact files
  pending,       \* pre-warms waiting for a worker: [batch, user]
  warming,       \* pre-warms a worker is awaiting, with the builds awaited
  req,           \* the requests
  gone,          \* documents dropped by a reset (history)
  count          \* [ingests, resets, failures], for the bounds
vars == <<docs, scopeVersion, corpora, cache, inflight, running, built, disk,
          pending, warming, req, gone, count>>

Task == [batch : 1..MaxIngests, user : Users]
Entry == [scope : Scopes, version : 0..MaxIngests, src : SUBSET Doc, file : BOOLEAN]
CorpusEntry == [scope : Scopes, version : 0..MaxIngests, src : SUBSET Doc]
\* A build is known by what it builds and by who launched it.
Build == [kind : Kinds, scope : Scopes, version : 0..MaxIngests, src : SUBSET Doc,
          payer : Reqs \cup Task]
ASSUME NoBuildApart == NoBuild \notin Build
Request == [pc : {"idle", "run", "wait", "done", "failed"}, scope : Scopes,
            corpus : SUBSET Doc, todo : Seq(Kinds), wait : Build \cup {NoBuild},
            got : SUBSET [kind : Kinds, src : SUBSET Doc],
            before : SUBSET Doc]

DocsOf(s) == {d \in docs : s = All \/ d[2] = s}

Empty == /\ docs = {} /\ gone = {}
         /\ scopeVersion = [s \in Scopes |-> 0]
         /\ corpora = <<>> /\ cache = [k \in Kinds |-> <<>>]
         /\ inflight = {} /\ running = {} /\ built = {}
         /\ disk = [k \in DiskKinds |-> [s \in Scopes |-> {}]]
         /\ pending = {} /\ warming = {}
         /\ req = [r \in Reqs |-> [pc |-> "idle", scope |-> All, corpus |-> {}, todo |-> <<>>,
                                   wait |-> NoBuild, got |-> {}, before |-> {}]]

Init == Empty /\ count = [ingests |-> 0, resets |-> 0, failures |-> 0]

-----------------------------------------------------------------------------
\* A cache is a Map: setting a key that is there keeps its place.
Without(c, I) == LET keep == DOMAIN c \ I
                 IN [j \in 1..Cardinality(keep) |->
                       c[CHOOSE i \in keep : Cardinality({h \in keep : h < i}) = j - 1]]
Put(c, e) == IF \E i \in DOMAIN c : c[i].scope = e.scope
             THEN [i \in DOMAIN c |-> IF c[i].scope = e.scope THEN e ELSE c[i]]
             ELSE Append(c, e)
FirstOf(I, n) == {i \in I : Cardinality({h \in I : h < i}) < n}

Excess(c, max) == IF Len(c) > max THEN Len(c) - max ELSE 0
DropStale(c, key, max) ==
  Without(c, FirstOf({i \in DOMAIN c : /\ c[i].scope # key
                                       /\ c[i].version # scopeVersion[c[i].scope]}, Excess(c, max)))
DropOldest(c, key, max) ==
  Without(c, FirstOf({i \in DOMAIN c : c[i].scope # key}, Excess(c, max)))

\* Slip: fresh entries are never evicted, from no cache.
Store_StaleOnly(k, e) == DropStale(Put(cache[k], e), e.scope, CacheMax)

\* Stale versions go first, then the oldest; the folded registry's cache has
\* only the first of the two loops.
Store(k, e) ==
  LET trimmed == DropStale(Put(cache[k], e), e.scope, CacheMax)
  IN IF k = "fold" THEN trimmed ELSE DropOldest(trimmed, e.scope, CacheMax)

-----------------------------------------------------------------------------
\* getScopedCorpus: the cached corpus of the scope's version, or a new one.
CorpusHit(s) == {e \in Range(corpora) : e.scope = s /\ e.version = scopeVersion[s]}
CorpusOf(s) == IF CorpusHit(s) # {} THEN (CHOOSE e \in CorpusHit(s) : TRUE).src ELSE DocsOf(s)
CorporaAfter(s) ==
  IF CorpusHit(s) # {} \/ DocsOf(s) = {} THEN corpora
  ELSE LET e == [scope |-> s, version |-> scopeVersion[s], src |-> DocsOf(s)]
       IN DropOldest(DropStale(Put(corpora, e), s, CorpusMax), s, CorpusMax)

\* Slips: an entry is a hit whatever its version; a slot is never joined.
Fresh_AnyVersion(k, s) == {e \in Range(cache[k]) : e.scope = s}
Slot_Never(k, s) == {}

Fresh(k, s) == {e \in Range(cache[k]) : e.scope = s /\ e.version = scopeVersion[s]}
Slot(k, s) == {b \in inflight : b.kind = k /\ b.scope = s /\ b.version = scopeVersion[s]}
OnDisk(k, s) == k \in DiskKinds /\ disk[k][s] # {}
Absent(k, s) == Fresh(k, s) = {} /\ Slot(k, s) = {}

NewBuild(k, s, corpus, w) == [kind |-> k, scope |-> s, version |-> scopeVersion[s],
                              src |-> corpus, payer |-> w]
Launches(K, s, corpus, w) == {NewBuild(k, s, corpus, w) : k \in {j \in K : Absent(j, s) /\ ~OnDisk(j, s)}}
Loads(K, s) == {k \in K : Absent(k, s) /\ OnDisk(k, s)}
FromFile(k, s) == [scope |-> s, version |-> scopeVersion[s], src |-> disk[k][s], file |-> TRUE]

\* The getters of the artifacts K, called by w with the corpus it holds: a
\* fresh cache entry or a build in flight is used; else the file is read into
\* the cache; else a build is launched under the scope's current version.
Getters(K, s, corpus, w) ==
  LET new == Launches(K, s, corpus, w)
  IN /\ running' = running \cup new
     /\ inflight' = inflight \cup new
     /\ cache' = [k \in Kinds |-> IF k \in Loads(K, s) THEN Store(k, FromFile(k, s)) ELSE cache[k]]

\* The builds the caller w of those getters has to await.
Joined(K, s, corpus, w) == Launches(K, s, corpus, w) \cup UNION {Slot(k, s) : k \in {j \in K : Fresh(j, s) = {}}}

-----------------------------------------------------------------------------
\* Slip: a failed build keeps its worker.
Awaiting_Failed(t) == {b \in t.builds : b \notin built}

Awaiting(t) == {b \in t.builds : b \in running}

\* A worker is free: fewer than Width scopes of that batch are being warmed.
Startable(t) == Cardinality({w \in warming : w.task.batch = t.batch /\ Awaiting(w) # {}}) < Width

Runnable == \/ \E r \in Reqs : req[r].pc = "run"
            \/ \E t \in pending : Startable(t)
Quiet == ~Runnable

\* Slip: a scope's version is bumped for every document of the batch.
Ingest_PerDocument ==
  /\ Quiet /\ count.ingests < MaxIngests
  /\ \E U \in SUBSET Users \ {{}} :
       LET n == count.ingests + 1
       IN /\ docs' = docs \cup {<<n, u>> : u \in U}
          /\ scopeVersion' = [s \in Scopes |-> scopeVersion[s] +
                                 Cardinality({u \in U : s = All \/ s = u})]
          /\ pending' = pending \cup {[batch |-> n, user |-> u] : u \in U}
          /\ count' = [count EXCEPT !.ingests = n]
  /\ UNCHANGED <<corpora, cache, inflight, running, built, disk, warming, req, gone>>

\* POST /ingest: the documents join, their scopes' versions are bumped, and
\* their users are queued for the pre-warm.
Ingest == /\ Quiet /\ count.ingests < MaxIngests
          /\ \E U \in SUBSET Users \ {{}} :
               LET n == count.ingests + 1
               IN /\ docs' = docs \cup {<<n, u>> : u \in U}
                  /\ scopeVersion' = [s \in Scopes |-> IF s \in U \cup {All}
                                                       THEN scopeVersion[s] + 1 ELSE scopeVersion[s]]
                  /\ pending' = pending \cup {[batch |-> n, user |-> u] : u \in U}
                  /\ count' = [count EXCEPT !.ingests = n]
          /\ UNCHANGED <<corpora, cache, inflight, running, built, disk, warming, req, gone>>

\* A worker takes a user off its batch's queue and calls every getter that is on.
PrewarmScope ==
  \E t \in pending :
    LET s == t.user
        corpus == CorpusOf(s)
    IN /\ Startable(t)
       /\ pending' = pending \ {t}
       /\ corpora' = CorporaAfter(s)
       /\ IF corpus = {}
          THEN UNCHANGED <<cache, inflight, running, warming>>
          ELSE /\ Getters(Active, s, corpus, t)
               /\ warming' = warming \cup {[task |-> t, builds |-> Joined(Active, s, corpus, t)]}
       /\ UNCHANGED <<docs, scopeVersion, built, disk, req, gone, count>>

\* Slips: a reset starts the versions again; a reset keeps the corpora.
Reset_ClearsVersions ==
  /\ Quiet /\ count.resets < MaxResets
  /\ docs' = {} /\ gone' = gone \cup docs
  /\ scopeVersion' = [s \in Scopes |-> 0]
  /\ corpora' = <<>> /\ cache' = [k \in Kinds |-> <<>>]
  /\ inflight' = {b \in inflight : b.kind = "fold"}
  /\ count' = [count EXCEPT !.resets = @ + 1]
  /\ UNCHANGED <<running, built, disk, pending, warming, req>>
Reset_KeepsCorpora ==
  /\ Quiet /\ count.resets < MaxResets
  /\ docs' = {} /\ gone' = gone \cup docs
  /\ cache' = [k \in Kinds |-> <<>>]
  /\ inflight' = {b \in inflight : b.kind = "fold"}
  /\ count' = [count EXCEPT !.resets = @ + 1]
  /\ UNCHANGED <<scopeVersion, corpora, running, built, disk, pending, warming, req>>

\* POST /reset: everything but the versions and the folded registry's slots.
Reset == /\ Quiet /\ count.resets < MaxResets
         /\ docs' = {} /\ gone' = gone \cup docs
         /\ corpora' = <<>>
         /\ cache' = [k \in Kinds |-> <<>>]
         /\ inflight' = {b \in inflight : b.kind = "fold"}
         /\ count' = [count EXCEPT !.resets = @ + 1]
         /\ UNCHANGED <<scopeVersion, running, built, disk, pending, warming, req>>

\* The artifacts a query asks for: one by its intent, then the standing ones.
Standing == (IF "preference" \in Active THEN <<"preference">> ELSE <<>>)
            \o (IF "fold" \in Active THEN <<"fold">> ELSE <<>>)
Plans == {Standing} \cup {<<i>> \o Standing : i \in Active \cap Intent}

\* POST /retrieve: the corpus is fixed here, before any await.
Retrieve(r) ==
  /\ Quiet /\ req[r].pc = "idle"
  /\ \E s \in Scopes, plan \in Plans :
       /\ corpora' = CorporaAfter(s)
       /\ req' = [req EXCEPT ![r] = [@ EXCEPT !.pc = IF CorpusOf(s) = {} THEN "done" ELSE "run",
                                              !.scope = s, !.corpus = CorpusOf(s),
                                              !.todo = plan, !.before = gone]]
  /\ UNCHANGED <<docs, scopeVersion, cache, inflight, running, built, disk, pending, warming,
                 gone, count>>

\* The request calls its next getter, and awaits a build or goes on.
CallGetter(r) ==
  LET q == req[r]
      k == Head(q.todo)
      joined == Joined({k}, q.scope, q.corpus, r)
  IN /\ q.pc = "run" /\ q.todo # <<>>
     /\ Getters({k}, q.scope, q.corpus, r)
     /\ req' = [req EXCEPT ![r] =
          IF joined # {}
          THEN [q EXCEPT !.pc = "wait", !.wait = CHOOSE b \in joined : TRUE]
          ELSE [q EXCEPT !.todo = Tail(@),
                         !.got = @ \cup {[kind |-> k, src |-> e.src] :
                                           e \in IF Fresh(k, q.scope) # {} THEN Fresh(k, q.scope)
                                                 ELSE {FromFile(k, q.scope)}}]]
     /\ UNCHANGED <<docs, scopeVersion, corpora, built, disk, pending, warming, gone, count>>

\* executeAmbRetrieve answers from the corpus and the artifacts.
Answer(r) == /\ req[r].pc = "run" /\ req[r].todo = <<>>
             /\ req' = [req EXCEPT ![r].pc = "done"]
             /\ UNCHANGED <<docs, scopeVersion, corpora, cache, inflight, running, built, disk,
                            pending, warming, gone, count>>

-----------------------------------------------------------------------------
FreeSlot(b) == {c \in inflight : <<c.kind, c.scope, c.version>> # <<b.kind, b.scope, b.version>>}

\* Slip: the file name leaves out the unit.
BuildDone_OneFile ==
  \E b \in running :
    /\ Quiet
    /\ running' = running \ {b} /\ built' = built \cup {b}
    /\ inflight' = FreeSlot(b)
    /\ cache' = [cache EXCEPT ![b.kind] =
                   Store(b.kind, [scope |-> b.scope, version |-> b.version, src |-> b.src, file |-> FALSE])]
    /\ disk' = IF b.kind \in DiskKinds THEN [disk EXCEPT ![b.kind] = [s \in Scopes |-> b.src]] ELSE disk
    /\ req' = [r \in Reqs |->
         IF req[r].wait # b THEN req[r]
         ELSE [req[r] EXCEPT !.pc = "run", !.wait = NoBuild, !.todo = Tail(@),
                             !.got = @ \cup {[kind |-> b.kind, src |-> b.src]}]]
    /\ UNCHANGED <<docs, scopeVersion, corpora, pending, warming, gone, count>>

\* The artifact's file is written; a write that fails is swallowed and leaves none.
Filed(b) ==
    \/ /\ built' = built \cup {b}
       /\ disk' = IF b.kind \in DiskKinds THEN [disk EXCEPT ![b.kind][b.scope] = b.src] ELSE disk
       /\ UNCHANGED count
    \/ /\ b.kind \in DiskKinds /\ count.failures < MaxFailures
       /\ count' = [count EXCEPT !.failures = @ + 1]
       /\ UNCHANGED <<built, disk>>

\* A build ends: its file is written, and each waiter frees the slot, sets the
\* cache under the version captured at the start, and goes on.
BuildDone ==
  \E b \in running :
    /\ Quiet
    /\ running' = running \ {b}
    /\ Filed(b)
    /\ inflight' = FreeSlot(b)
    /\ cache' = [cache EXCEPT ![b.kind] =
                   Store(b.kind, [scope |-> b.scope, version |-> b.version, src |-> b.src, file |-> FALSE])]
    /\ req' = [r \in Reqs |->
         IF req[r].wait # b THEN req[r]
         ELSE [req[r] EXCEPT !.pc = "run", !.wait = NoBuild, !.todo = Tail(@),
                             !.got = @ \cup {[kind |-> b.kind, src |-> b.src]}]]
    /\ UNCHANGED <<docs, scopeVersion, corpora, pending, warming, gone>>

\* A build fails: the slot is freed; a query goes without a standing artifact
\* and fails without the one its intent called for.
BuildFails ==
  \E b \in running :
    /\ Quiet /\ count.failures < MaxFailures
    /\ count' = [count EXCEPT !.failures = @ + 1]
    /\ running' = running \ {b}
    /\ inflight' = FreeSlot(b)
    /\ req' = [r \in Reqs |->
         IF req[r].wait # b THEN req[r]
         ELSE IF b.kind \in DiskKinds
              THEN [req[r] EXCEPT !.pc = "run", !.wait = NoBuild, !.todo = Tail(@)]
              ELSE [req[r] EXCEPT !.pc = "failed", !.wait = NoBuild]]
    /\ UNCHANGED <<docs, scopeVersion, corpora, cache, built, disk, pending, warming, gone>>

Continue == PrewarmScope \/ \E r \in Reqs : CallGetter(r) \/ Answer(r)
Arrive == Ingest \/ Reset \/ \E r \in Reqs : Retrieve(r)
\* The server sits waiting for requests: nothing runs and nobody awaits a build.
Rest == /\ Quiet /\ running = {} /\ \A r \in Reqs : req[r].pc # "wait"
        /\ UNCHANGED vars
Next == Arrive \/ Continue \/ BuildDone \/ BuildFails \/ Rest

Spec == Init /\ [][Next]_vars

\* How the BEAM harness uses the server: every unit is ingested in one call and
\* every query names its unit.
PerUnit == /\ \A u \in Users : scopeVersion'[u] <= 1
           /\ \A r \in Reqs : req'[r].pc = "idle" \/ req'[r].scope \in Users
SpecPerUnit == Init /\ [][Next /\ PerUnit]_vars

\* Continuations run, and an LLM pass ends one way or the other.
FairPerUnit == SpecPerUnit /\ WF_vars(Continue) /\ WF_vars(BuildDone \/ BuildFails)

-----------------------------------------------------------------------------
TypeOK == /\ docs \in SUBSET Doc /\ gone \in SUBSET Doc
          /\ scopeVersion \in [Scopes -> 0..MaxIngests]
          /\ corpora \in Seq(CorpusEntry)
          /\ cache \in [Kinds -> Seq(Entry)]
          /\ \A B \in {inflight, running, built} : B \subseteq Build
          /\ disk \in [DiskKinds -> [Scopes -> SUBSET Doc]]
          /\ pending \in SUBSET Task
          /\ \A w \in warming : w.task \in Task /\ w.builds \subseteq Build
          /\ req \in [Reqs -> Request]
          /\ count \in [ingests : 0..MaxIngests, resets : 0..MaxResets, failures : 0..MaxFailures]

\* A cache entry that a query would be served as fresh and that this process
\* built was built from the documents the scope has now, whatever ingest or
\* reset raced the build (amb-csm-server.ts:99-103, 248-250).
BuiltIsFresh == \A k \in Kinds : \A e \in Range(cache[k]) :
  (~e.file /\ e.version = scopeVersion[e.scope] /\ DocsOf(e.scope) # {}) => e.src = DocsOf(e.scope)

\* ... and one read from the artifact file too, which is what a cache that
\* "an ingest invalidates" and a key of "unit content" promise.
LoadedIsFresh == \A k \in Kinds : \A e \in Range(cache[k]) :
  (e.file /\ e.version = scopeVersion[e.scope] /\ DocsOf(e.scope) # {}) => e.src = DocsOf(e.scope)

\* An answer's artifacts describe the very documents it was searched in.
AnswerConsistent ==
  \A r \in Reqs : req[r].pc = "done" => \A g \in req[r].got : g.src = req[r].corpus

\* A query that arrives after a reset sees no document from before it.
ResetForgets ==
  \A r \in Reqs : req[r].pc = "done" =>
    /\ req[r].corpus \cap req[r].before = {}
    /\ \A g \in req[r].got : g.src \cap req[r].before = {}

\* Never two builds of one artifact, scope and version at the same time.
SingleFlight == \A b, c \in running :
  (b.kind = c.kind /\ b.scope = c.scope /\ b.version = c.version) => b = c

\* A query that arrives early joins the pre-warm's build, one that arrives
\* late uses its result: no version is built again once its file is written. (A
\* version whose write failed lives in the cache alone, and is built again when
\* the cache has dropped it.)
NoDoubleBuild == \A b, c \in built :
  (b.kind = c.kind /\ b.scope = c.scope /\ b.version = c.version) => b = c

\* The bounded caches stay bounded (the folded registry's has no such bound).
CachesBounded == /\ Len(corpora) <= CorpusMax
                 /\ \A k \in Kinds \ {"fold"} : Len(cache[k]) <= CacheMax

\* Every request is answered and every ingested user's pre-warm gets its turn.
Served == /\ \A r \in Reqs : req[r].pc \in {"run", "wait"} ~> req[r].pc \in {"done", "failed"}
          /\ \A t \in Task : t \in pending ~> t \notin pending

\* A finished query answers from one state of the memory, and from none before the
\* reset it came after.
AnswersCurrent == TypeOK /\ AnswerConsistent /\ ResetForgets

\* Builds and caches cost no more than they must: nothing is built twice at a
\* time, and what is kept stays bounded.
WorkBounded == SingleFlight /\ CachesBounded

\* The artifacts that are kept on disk serve every version once and truly.
ArtifactsSound == LoadedIsFresh /\ NoDoubleBuild
=============================================================================
