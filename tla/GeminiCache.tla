----------------------------- MODULE GeminiCache -----------------------------
(***************************************************************************)
(* Calls through GeminiProvider in the "explicit" cache mode               *)
(* (src/providers/GeminiProvider.ts): the registry of server-side          *)
(* cachedContents entries, their creation, expiry, refusal and deletion,   *)
(* and the retries of one call, with several calls in flight.              *)
(*                                                                         *)
(* A model and a cacheKey are one registry key; a system prompt is a       *)
(* value, and its hash is the prompt itself.  The clock counts in units    *)
(* of the safety margin the code leaves before an entry expires.           *)
(***************************************************************************)
EXTENDS Integers, Sequences, FiniteSets, Functions, TLC

CONSTANTS
    Asks,           \* calls of generate()
    CacheKeys,      \* `${model}::${cacheKey}`
    Prompts,        \* system prompts
    PromptsOf,      \* the prompts a call may be made with
    ShortPrompts,   \* those below the minimum size of a cache
    MaxRetries,
    Ttl, Margin, NegativeFor,
    MaxClock, MaxMishaps    \* bounds: of the clock and of the faults of the service

ASSUME GeminiConstants ==
    /\ ShortPrompts \subseteq Prompts
    /\ PromptsOf \in [Asks -> SUBSET Prompts]
    /\ MaxRetries \in Nat /\ MaxClock \in Nat /\ MaxMishaps \in Nat
    /\ Ttl \in Nat /\ Margin \in 1..Ttl /\ NegativeFor \in Nat

VARIABLES
    clock,
    registry,   \* explicitCaches
    negative,   \* negativeCache: the time until which a key is not tried again
    server,     \* the caches the service was asked to create; a name is an index
    ask,        \* the calls
    sweep,      \* clearExplicitCaches
    mishaps,    \* history: how many faults the service has shown
    overlap,    \* history: two calls shared a key, or a sweep met a call in flight
    excused     \* history: caches given up because their time was up or the
                \* service refused them or lost the answer about them

geminiVars == <<clock, registry, negative, server, ask, sweep, mishaps, overlap, excused>>

NoCache == 0
Names == 1..Len(server)
Alive(n) == server[n].dies > clock
Live(k) == k \in DOMAIN registry /\ registry[k].until > clock

InFlight == {"creating", "created", "sent", "asleep"}
Flying(c) == ask[c].pc \in InFlight
NoAsk == [pc |-> "idle", key |-> CHOOSE k \in CacheKeys : TRUE,
          text |-> CHOOSE t \in Prompts : TRUE, using |-> NoCache, at |-> 0,
          attempt |-> 0, sends |-> 0, transients |-> 0, fatal |-> FALSE,
          reply |-> "none"]

Step(c, r) == ask' = [ask EXCEPT ![c] = r]
Unregister(k) == registry' = Restrict(registry, DOMAIN registry \ {k})
\* An entry for a key, over the one it has.
Register(k, e) == registry' = [j \in DOMAIN registry \cup {k} |-> IF j = k THEN e ELSE registry[j]]
Mishap == mishaps < MaxMishaps /\ mishaps' = mishaps + 1

\* What the service has once it has dropped a cache.
Dropped(made, n) == [made EXCEPT ![n].dies = 0]

\* The request goes out, with the cache it names or with the whole prompt.
Sent(r, name) == [r EXCEPT !.pc = "sent", !.using = name, !.sends = @ + 1]

GeminiIdle ==
    /\ registry = << >>
    /\ negative = [k \in CacheKeys |-> 0]
    /\ server = << >>
    /\ ask = [c \in Asks |-> NoAsk]
    /\ sweep = [pc |-> "idle", left |-> {}, name |-> NoCache]
    /\ overlap = FALSE /\ excused = {}

GeminiInit == clock = 0 /\ mishaps = 0 /\ GeminiIdle

-----------------------------------------------------------------------------
(* Slips.                                                                  *)

\* The hash of the prompt is not compared.
AskReuse_AnyText(c, k, t) ==
    /\ ask[c].pc = "idle"
    /\ Live(k)
    /\ Step(c, Sent([NoAsk EXCEPT !.key = k, !.text = t], registry[k].name))
    /\ overlap' = (overlap \/ sweep.pc = "deleting"
                           \/ \E d \in Asks : Flying(d) /\ ask[d].key = k)
    /\ UNCHANGED <<clock, registry, negative, server, sweep, mishaps, excused>>

\* The time to live counts from the response, with no margin.
CreateReturns_Late(c) ==
    /\ ask[c].pc = "created"
    /\ LET r == ask[c] IN
       /\ Register(r.key, [name |-> r.using, text |-> r.text, until |-> clock + Ttl])
       /\ Step(c, Sent(r, r.using))
    /\ UNCHANGED <<clock, negative, server, sweep, mishaps, overlap, excused>>

\* A response without a name is registered.
CreateFails_Registers(c) ==
    /\ ask[c].pc \in {"creating", "created"}
    /\ Mishap
    /\ Register(ask[c].key, [name |-> NoCache, text |-> ask[c].text, until |-> clock + Ttl])
    /\ Step(c, Sent(ask[c], NoCache))
    /\ UNCHANGED <<clock, negative, server, sweep, overlap, excused>>

\* The fallback spends one of the attempts.
Refuse_SpendsAttempt(c) ==
    /\ ask[c].pc = "sent" /\ ask[c].using # NoCache
    /\ \/ ~Alive(ask[c].using) /\ UNCHANGED mishaps
       \/ Mishap
    /\ Unregister(ask[c].key)
    /\ excused' = excused \cup {ask[c].using}
    /\ IF ask[c].attempt < MaxRetries
       THEN Step(c, [Sent(ask[c], NoCache) EXCEPT !.attempt = @ + 1])
       ELSE Step(c, [ask[c] EXCEPT !.pc = "failed"])
    /\ UNCHANGED <<clock, negative, server, sweep, overlap>>

\* An entry for another prompt is replaced.
AskReuse_Replaces(c, k, t) ==
    /\ ask[c].pc = "idle"
    /\ Live(k)
    /\ IF registry[k].text = t
       THEN Step(c, Sent([NoAsk EXCEPT !.key = k, !.text = t], registry[k].name)) /\ UNCHANGED registry
       ELSE /\ Step(c, [NoAsk EXCEPT !.pc = "creating", !.key = k, !.text = t, !.at = clock])
            /\ Unregister(k)
    /\ overlap' = (overlap \/ sweep.pc = "deleting"
                           \/ \E d \in Asks : Flying(d) /\ ask[d].key = k)
    /\ UNCHANGED <<clock, negative, server, sweep, mishaps, excused>>

\* The sleeping call is forgotten.
Wake_Never(c) == ask[c].pc = "asleep" /\ UNCHANGED geminiVars

-----------------------------------------------------------------------------
(* generate() up to its first await: the first half of ensureExplicitCache *)

Overlaps(k) ==
    overlap' = (overlap \/ sweep.pc = "deleting"
                        \/ \E d \in Asks : Flying(d) /\ ask[d].key = k)

\* A registered entry is used for the prompt it was made of; for another prompt
\* the call goes uncached and the entry stays.
AskReuse(c, k, t) ==
    /\ ask[c].pc = "idle"
    /\ Live(k)
    /\ Step(c, Sent([NoAsk EXCEPT !.key = k, !.text = t],
                    IF registry[k].text = t THEN registry[k].name ELSE NoCache))
    /\ Overlaps(k)
    /\ UNCHANGED <<clock, registry, negative, server, sweep, mishaps, excused>>

\* An entry whose time is up is dropped; then a new one is not even tried ...
AskUncached(c, k, t) ==
    /\ ask[c].pc = "idle"
    /\ ~Live(k)
    /\ negative[k] > clock \/ t \in ShortPrompts
    /\ Unregister(k)
    /\ excused' = excused \cup {registry[j].name : j \in DOMAIN registry \cap {k}}
    /\ negative' = IF negative[k] > clock THEN negative
                   ELSE [negative EXCEPT ![k] = clock + NegativeFor]
    /\ Step(c, Sent([NoAsk EXCEPT !.key = k, !.text = t], NoCache))
    /\ Overlaps(k)
    /\ UNCHANGED <<clock, server, sweep, mishaps>>

\* ... or asked for.
AskCreate(c, k, t) ==
    /\ ask[c].pc = "idle"
    /\ ~Live(k)
    /\ negative[k] <= clock /\ t \notin ShortPrompts
    /\ Unregister(k)
    /\ excused' = excused \cup {registry[j].name : j \in DOMAIN registry \cap {k}}
    /\ Step(c, [NoAsk EXCEPT !.pc = "creating", !.key = k, !.text = t, !.at = clock])
    /\ Overlaps(k)
    /\ UNCHANGED <<clock, negative, server, sweep, mishaps>>

-----------------------------------------------------------------------------
(* The creation of a cache.                                                *)

\* The service makes the cache.
ServerCreates(c) ==
    /\ ask[c].pc = "creating"
    /\ server' = Append(server, [key |-> ask[c].key, text |-> ask[c].text,
                                 born |-> clock, dies |-> clock + Ttl])
    /\ Step(c, [ask[c] EXCEPT !.pc = "created", !.using = Len(server')])
    /\ UNCHANGED <<clock, registry, negative, sweep, mishaps, overlap, excused>>

\* Its response arrives: the entry is registered, over whatever another call
\* has registered meanwhile, with a time counted from before the request.
CreateReturns(c) ==
    /\ ask[c].pc = "created"
    /\ LET r == ask[c] IN
       /\ Register(r.key, [name |-> r.using, text |-> r.text, until |-> r.at + Ttl - Margin])
       /\ Step(c, Sent(r, r.using))
    /\ UNCHANGED <<clock, negative, server, sweep, mishaps, overlap, excused>>

\* The creation is refused, or its response is lost: the key is not tried again
\* for a while and the call goes uncached.
CreateFails(c) ==
    /\ ask[c].pc \in {"creating", "created"}
    /\ Mishap
    /\ negative' = [negative EXCEPT ![ask[c].key] = ask[c].at + NegativeFor]
    /\ excused' = excused \cup ({ask[c].using} \ {NoCache})
    /\ Step(c, Sent(ask[c], NoCache))
    /\ UNCHANGED <<clock, registry, server, sweep, overlap>>

-----------------------------------------------------------------------------
(* The request of a call and its retries.                                  *)

Reply(c) ==
    /\ ask[c].pc = "sent"
    /\ ask[c].using # NoCache => Alive(ask[c].using)
    /\ Step(c, [ask[c] EXCEPT !.pc = "done",
                    !.reply = IF ask[c].using = NoCache THEN ask[c].text
                              ELSE server[ask[c].using].text])
    /\ UNCHANGED <<clock, registry, negative, server, sweep, mishaps, overlap, excused>>

\* The service refuses the cache: whatever entry the key has is dropped, and the
\* request goes out again at once without a cache and without spending an attempt.
Refuse(c) ==
    /\ ask[c].pc = "sent" /\ ask[c].using # NoCache
    /\ \/ ~Alive(ask[c].using) /\ UNCHANGED mishaps
       \/ Mishap
    /\ Unregister(ask[c].key)
    /\ excused' = excused \cup {ask[c].using}
    /\ Step(c, Sent(ask[c], NoCache))
    /\ UNCHANGED <<clock, negative, server, sweep, overlap>>

\* A status worth retrying, a timeout or a network failure: sleep and try again
\* while attempts are left, otherwise the call fails.
Transient(c) ==
    /\ ask[c].pc = "sent"
    /\ Mishap
    /\ Step(c, [ask[c] EXCEPT !.pc = IF ask[c].attempt < MaxRetries THEN "asleep" ELSE "failed",
                              !.transients = @ + 1])
    /\ UNCHANGED <<clock, registry, negative, server, sweep, overlap, excused>>

\* Any other failure ends the call: no JSON, another status, an empty response.
Fatal(c) ==
    /\ ask[c].pc = "sent"
    /\ Mishap
    /\ Step(c, [ask[c] EXCEPT !.pc = "failed", !.fatal = TRUE])
    /\ UNCHANGED <<clock, registry, negative, server, sweep, overlap, excused>>

\* The next attempt uses the same cache name, if the call has one.
Wake(c) ==
    /\ ask[c].pc = "asleep"
    /\ Step(c, Sent([ask[c] EXCEPT !.attempt = @ + 1], ask[c].using))
    /\ UNCHANGED <<clock, registry, negative, server, sweep, mishaps, overlap, excused>>

-----------------------------------------------------------------------------
(* clearExplicitCaches: one pass over a copy of the registry.              *)

\* The next key of the copy leaves the registry, whatever it holds by now, and
\* the cache the copy names is deleted.
SweepGo(left) ==
    IF left = {}
    THEN sweep' = [pc |-> "over", left |-> {}, name |-> NoCache] /\ UNCHANGED registry
    ELSE \E e \in left :
            /\ Unregister(e[1])
            /\ sweep' = [pc |-> "deleting", left |-> left \ {e}, name |-> e[2]]

SweepBegins ==
    /\ sweep.pc = "idle"
    /\ SweepGo({<<k, registry[k].name>> : k \in DOMAIN registry})
    /\ overlap' = (overlap \/ \E c \in Asks : Flying(c))
    /\ UNCHANGED <<clock, negative, server, ask, mishaps, excused>>

\* The DELETE is done, or fails and is forgotten.
SweepDeleted ==
    /\ sweep.pc = "deleting"
    /\ \/ /\ server' = Dropped(server, sweep.name)
          /\ UNCHANGED <<mishaps, excused>>
       \/ /\ Mishap
          /\ excused' = excused \cup {sweep.name}
          /\ UNCHANGED server
    /\ SweepGo(sweep.left)
    /\ UNCHANGED <<clock, negative, ask, overlap>>

-----------------------------------------------------------------------------
\* The service drops a cache before its time.
Evicts(n) ==
    /\ Alive(n)
    /\ Mishap
    /\ server' = Dropped(server, n)
    /\ UNCHANGED <<clock, registry, negative, ask, sweep, overlap, excused>>

Tick ==
    /\ clock < MaxClock
    /\ clock' = clock + 1
    /\ UNCHANGED <<registry, negative, server, ask, sweep, mishaps, overlap, excused>>

Progress(c) ==
    \/ ServerCreates(c) \/ CreateReturns(c) \/ CreateFails(c)
    \/ Reply(c) \/ Refuse(c) \/ Transient(c) \/ Fatal(c) \/ Wake(c)

GeminiNext ==
    \/ \E c \in Asks, k \in CacheKeys : \E t \in PromptsOf[c] :
          AskReuse(c, k, t) \/ AskUncached(c, k, t) \/ AskCreate(c, k, t)
    \/ \E c \in Asks : Progress(c)
    \/ SweepBegins \/ SweepDeleted
    \/ \E n \in Names : Evicts(n)
    \/ Tick

\* The service answers or fails every request: a request is aborted after
\* timeoutMs, a creation ends with the transport's own timeouts.
GeminiFairness == \A c \in Asks : WF_geminiVars(Progress(c))

GeminiSpec == GeminiInit /\ [][GeminiNext]_geminiVars /\ GeminiFairness

-----------------------------------------------------------------------------
GeminiTypeOK ==
    /\ clock \in 0..MaxClock
    /\ DOMAIN registry \subseteq CacheKeys
    /\ \A k \in DOMAIN registry :
          registry[k] \in [name: Names, text: Prompts, until: -Margin..(MaxClock + Ttl)]
    /\ negative \in [CacheKeys -> 0..(MaxClock + NegativeFor)]
    /\ \A n \in Names : server[n] \in [key: CacheKeys, text: Prompts,
                                        born: 0..MaxClock, dies: 0..(MaxClock + Ttl)]
    /\ \A c \in Asks :
          /\ ask[c].pc \in InFlight \cup {"idle", "done", "failed"}
          /\ ask[c].using \in Names \cup {NoCache}
          /\ ask[c].reply \in Prompts \cup {"none"}
    /\ sweep.pc \in {"idle", "deleting", "over"}

\* A call is answered under its own system prompt, whatever was cached under
\* its key, expired, evicted, replaced or deleted meanwhile: "never to an error
\* and never to stale content" (GeminiProvider.ts:296).
OwnPrompt == \A c \in Asks : ask[c].pc = "done" => ask[c].reply = ask[c].text

\* A cache costs a call nothing of its retries: a call fails only on an error
\* of its own or after MaxRetries + 1 failures worth retrying, and sends at most
\* one request more than its attempts (GeminiProvider.ts:332-343).
BudgetKept ==
    \A c \in Asks :
        /\ ask[c].pc = "failed" => ask[c].fatal \/ ask[c].transients = MaxRetries + 1
        /\ ask[c].sends <= MaxRetries + 2

\* An entry names a cache made of the prompt it is registered for, and expires
\* before the service reaps it, however long the creation took: a name about to
\* be reaped is not handed out (GeminiProvider.ts:410-412).
RegistryHonest ==
    \A k \in DOMAIN registry :
        LET e == registry[k] IN
        /\ server[e.name].key = k /\ server[e.name].text = e.text
        /\ e.until + Margin <= server[e.name].born + Ttl

\* Calls that do not overlap on a key, and a sweep that meets none of them, leave
\* no paid cache behind that is neither registered nor given up for a cause
\* (GeminiProvider.ts:214-218, 393-422, 431-434).
NothingLeaked ==
    (~overlap /\ sweep.pc # "deleting" /\ \A c \in Asks : ~Flying(c))
        => \A n \in Names : Alive(n) =>
              \/ n \in excused
              \/ \E k \in DOMAIN registry : registry[k].name = n

\* Every call that was made is answered or fails.
CallsEnd == \A c \in Asks : Flying(c) ~> ask[c].pc \in {"done", "failed"}

\* The registry names caches that are what it says, and the service holds none that
\* was forgotten.
RegistrySound == GeminiTypeOK /\ RegistryHonest /\ NothingLeaked
=============================================================================
