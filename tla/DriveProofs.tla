----------------------------- MODULE DriveProofs -----------------------------
(***************************************************************************)
(* Theorems about what drives retrievals through Gemini.                   *)
(*                                                                         *)
(* The Gemini client, for every set of calls, keys and prompts and every   *)
(* bound: a call is answered under its own prompt, a cache costs it no     *)
(* retries, and the registry neither lies nor forgets what is paid for.    *)
(*                                                                         *)
(* The BEAM slice driver, for every list of queries, every number of       *)
(* workers, starts and failures: its files pair each query with one row    *)
(* and the documents of that row, and a summary vouches for them.          *)
(* SliceInv is inductive.  It adds to the property where a query is that   *)
(* has no row yet: unclaimed, at one worker, or written behind a torn      *)
(* tail; and what the chain of appends knows of its head.                  *)
(***************************************************************************)
EXTENDS GeminiCache, BeamSlice, FiniteSetTheorems, SequenceTheorems, TLAPS

-----------------------------------------------------------------------------
(* Types.  An idle call has the placeholders of NoAsk for key and text.     *)

Made == [key : CacheKeys, text : Prompts, born : 0..MaxClock, dies : 0..(MaxClock + Ttl)]
Entry == [name : Nat, text : Prompts, until : (-Margin)..(MaxClock + Ttl)]
Calls == [pc : InFlight \cup {"idle", "done", "failed"},
          key : CacheKeys \cup {NoAsk.key}, text : Prompts \cup {NoAsk.text},
          using : Nat, at : 0..MaxClock, attempt : 0..MaxRetries,
          sends : Nat, transients : Nat, fatal : BOOLEAN,
          reply : Prompts \cup {"none"}]

CallTyped(r) == /\ r \in Calls
                /\ r.pc # "idle" => r.key \in CacheKeys /\ r.text \in Prompts

TypeInv ==
    /\ clock \in 0..MaxClock
    /\ DOMAIN registry \subseteq CacheKeys
    /\ \A k \in DOMAIN registry : registry[k] \in Entry /\ registry[k].name \in Names
    /\ negative \in [CacheKeys -> 0..(MaxClock + NegativeFor)]
    /\ server \in Seq(Made)
    /\ DOMAIN ask = Asks /\ \A c \in Asks : CallTyped(ask[c])
    /\ ask \in [Asks -> Calls]
    /\ sweep.pc \in {"idle", "deleting", "over"}
    /\ overlap \in BOOLEAN

(* Budgets.  One request per attempt, and one more once the cache is gone;  *)
(* every attempt after the first follows a failure worth retrying.          *)

Thrifty(r) ==
    /\ r.pc \in {"creating", "created"} =>
          r.sends = 0 /\ r.attempt = 0 /\ r.transients = 0
    /\ r.pc = "sent" =>
          /\ r.transients = r.attempt
          /\ r.sends <= r.attempt + (IF r.using = NoCache THEN 2 ELSE 1)
    /\ r.pc = "asleep" =>
          /\ r.transients = r.attempt + 1 /\ r.attempt < MaxRetries
          /\ r.sends <= r.attempt + (IF r.using = NoCache THEN 2 ELSE 1)
    /\ r.pc = "failed" => r.fatal \/ r.transients = MaxRetries + 1
    /\ r.sends <= MaxRetries + 2

BudgetInv == \A c \in Asks : Thrifty(ask[c])

(* Prompts.  The cache a call names was made of the call's prompt; a created *)
(* one, of its key too, and not before the call asked for it.               *)

Faithful(r, made, now) ==
    /\ r.pc = "creating" => r.at <= now
    /\ r.pc = "created" =>
          /\ r.using \in 1..Len(made)
          /\ made[r.using].key = r.key /\ made[r.using].text = r.text
          /\ r.at <= made[r.using].born
    /\ r.pc \in {"sent", "asleep"} /\ r.using # NoCache =>
          r.using \in 1..Len(made) /\ made[r.using].text = r.text
    /\ r.pc = "done" => r.reply = r.text
    /\ r.using \in 0..Len(made)

PromptInv == \A c \in Asks : Faithful(ask[c], server, clock)

(* The registry: names, keys, prompts and times.                            *)

Honest(k, e, made) ==
    /\ e.name \in 1..Len(made)
    /\ made[e.name].key = k /\ made[e.name].text = e.text
    /\ e.until + Margin <= made[e.name].born + Ttl

HonestInv == \A k \in DOMAIN registry : Honest(k, registry[k], server)

(* Leaks.  While no two calls have met on a key and no sweep has met a call, *)
(* every living cache is excused, registered, about to be registered, or    *)
(* about to be deleted.                                                     *)

Kept(n) == \/ n \in excused
           \/ \E k \in DOMAIN registry : registry[k].name = n
           \/ \E c \in Asks : ask[c].pc = "created" /\ ask[c].using = n
           \/ sweep.pc = "deleting" /\ sweep.name = n

Apart == /\ \A c, d \in Asks : Flying(c) /\ Flying(d) /\ ask[c].key = ask[d].key => c = d
         /\ sweep.pc = "deleting" => \A c \in Asks : ~Flying(c)
Registrations ==
    /\ \A c \in Asks : ask[c].pc \in {"creating", "created"} => ask[c].key \notin DOMAIN registry
    /\ \A c \in Asks : /\ ask[c].pc \in {"sent", "asleep"} /\ ask[c].using # NoCache
                       /\ ask[c].key \in DOMAIN registry
                       => registry[ask[c].key].name = ask[c].using
    /\ sweep.pc = "deleting" =>
         \A e \in sweep.left : e[1] \in DOMAIN registry => registry[e[1]].name = e[2]
AllKept == \A n \in Names : Alive(n) => Kept(n)

LeakInv == ~overlap => Apart /\ Registrations /\ AllKept

Inv == TypeInv /\ BudgetInv /\ PromptInv /\ HonestInv /\ LeakInv

-----------------------------------------------------------------------------
(* What the parts of a step do.                                             *)

LEMMA NoAskTyped ==
    /\ NoAsk \in Calls /\ NoAsk.pc = "idle" /\ NoAsk.using = 0
    /\ NoAsk.attempt = 0 /\ NoAsk.sends = 0 /\ NoAsk.transients = 0
BY GeminiConstants DEF NoAsk, Calls, InFlight, NoCache

LEMMA InitInv == GeminiInit => Inv
<1> SUFFICES ASSUME GeminiInit PROVE Inv
  OBVIOUS
<1> USE GeminiConstants
<1>1. TypeInv
  <2>1. CallTyped(NoAsk)
    BY NoAskTyped DEF CallTyped
  <2>2. DOMAIN registry = {} /\ server \in Seq(Made)
    BY DEF GeminiInit, GeminiIdle
  <2>3. ask \in [Asks -> Calls] /\ DOMAIN ask = Asks /\ \A c \in Asks : CallTyped(ask[c])
    BY <2>1 DEF GeminiInit, GeminiIdle, CallTyped
  <2>4. clock \in 0..MaxClock /\ negative \in [CacheKeys -> 0..(MaxClock + NegativeFor)]
    BY DEF GeminiInit, GeminiIdle
  <2> QED
    BY <2>2, <2>3, <2>4 DEF GeminiInit, GeminiIdle, TypeInv
<1>2. BudgetInv /\ PromptInv
  <2>1. \A c \in Asks : ask[c] = NoAsk
    BY DEF GeminiInit, GeminiIdle
  <2>2. Thrifty(NoAsk)
    BY NoAskTyped DEF Thrifty
  <2>3. server = << >> => Faithful(NoAsk, server, clock)
    BY NoAskTyped DEF Faithful
  <2> QED
    BY <2>1, <2>2, <2>3 DEF GeminiInit, GeminiIdle, BudgetInv, PromptInv
<1>3. HonestInv
  BY DEF GeminiInit, GeminiIdle, HonestInv
<1>4. LeakInv
  BY DEF GeminiInit, GeminiIdle, LeakInv, Apart, Registrations, AllKept, Names, Flying,
     InFlight, NoAsk
<1> QED
  BY <1>1, <1>2, <1>3, <1>4 DEF Inv

\* A call's step, from a record to a record.
LEMMA StepType ==
    ASSUME TypeInv, NEW c \in Asks, NEW r, CallTyped(r), Step(c, r)
    PROVE  /\ ask' \in [Asks -> Calls] /\ DOMAIN ask' = Asks
           /\ \A d \in Asks : CallTyped(ask'[d])
           /\ ask'[c] = r /\ \A d \in Asks \ {c} : ask'[d] = ask[d]
BY DEF TypeInv, Step, CallTyped

\* An entry leaves the registry, the others stay.
LEMMA UnregisterEffect ==
    ASSUME TypeInv, NEW k, Unregister(k)
    PROVE  /\ DOMAIN registry' = DOMAIN registry \ {k}
           /\ \A j \in DOMAIN registry' : registry'[j] = registry[j]
BY DEF Unregister, Restrict

\* Requests and the records they start from.
Fresh(k, t) == [NoAsk EXCEPT !.key = k, !.text = t]

LEMMA FreshCall ==
    ASSUME NEW k \in CacheKeys, NEW t \in Prompts
    PROVE  /\ CallTyped(Fresh(k, t))
           /\ Fresh(k, t).key = k /\ Fresh(k, t).text = t
           /\ Fresh(k, t).attempt = 0 /\ Fresh(k, t).sends = 0 /\ Fresh(k, t).transients = 0
           /\ Fresh(k, t).using = 0
BY NoAskTyped DEF Fresh, CallTyped, Calls

LEMMA MovedCall ==
    ASSUME NEW r \in Calls, NEW n \in Nat
    PROVE  /\ [r EXCEPT !.pc = "created", !.using = n] \in Calls
           /\ \A p \in {"asleep", "failed"} : [r EXCEPT !.pc = p, !.transients = n] \in Calls
BY DEF Calls, InFlight

LEMMA SentCall ==
    ASSUME NEW r, CallTyped(r), r.key \in CacheKeys, r.text \in Prompts, NEW n \in Nat
    PROVE  /\ CallTyped(Sent(r, n))
           /\ Sent(r, n).pc = "sent" /\ Sent(r, n).using = n /\ Sent(r, n).sends = r.sends + 1
           /\ Sent(r, n).key = r.key /\ Sent(r, n).text = r.text
           /\ Sent(r, n).attempt = r.attempt /\ Sent(r, n).transients = r.transients
<1> DEFINE s == r.sends + 1
<1>1. s \in Nat
  BY DEF CallTyped, Calls
<1>2. Sent(r, n) = [r EXCEPT !.pc = "sent", !.using = n, !.sends = s]
  BY DEF Sent
<1> HIDE DEF s
<1>3. Sent(r, n) \in Calls
  BY <1>1, <1>2 DEF CallTyped, Calls, InFlight
<1> QED
  BY <1>3 DEF Sent, CallTyped, Calls

\* What was true of a cache stays true when the service makes another or lets one die.
Extends(made, more) ==
    /\ Len(made) <= Len(more)
    /\ \A n \in 1..Len(made) : /\ more[n].key = made[n].key /\ more[n].text = made[n].text
                               /\ more[n].born = made[n].born

LEMMA FaithfulLater ==
    ASSUME NEW made \in Seq(Made), NEW more \in Seq(Made), Extends(made, more),
           NEW now \in Nat, NEW later \in Nat, now <= later,
           NEW r \in Calls, Faithful(r, made, now)
    PROVE  Faithful(r, more, later)
BY DEF Faithful, Extends, Calls

LEMMA HonestLater ==
    ASSUME NEW made \in Seq(Made), NEW more \in Seq(Made), Extends(made, more),
           NEW k, NEW e, Honest(k, e, made)
    PROVE  Honest(k, e, more)
BY DEF Honest, Extends

LEMMA Reflexive == ASSUME NEW made \in Seq(Made) PROVE Extends(made, made)
BY DEF Extends

LEMMA Deleted ==
    ASSUME NEW made \in Seq(Made), NEW n
    PROVE  /\ Dropped(made, n) \in Seq(Made) /\ Len(Dropped(made, n)) = Len(made)
           /\ Extends(made, Dropped(made, n))
           /\ \A i \in 1..Len(made) : i # n => Dropped(made, n)[i] = made[i]
           /\ n \in 1..Len(made) => Dropped(made, n)[n].dies = 0
<1>1. CASE n \in 1..Len(made)
  <2> DEFINE e == [made[n] EXCEPT !.dies = 0]
  <2>1. made[n] \in Made
    BY <1>1
  <2>2. /\ e \in Made /\ e.dies = 0
        /\ e.key = made[n].key /\ e.text = made[n].text /\ e.born = made[n].born
    <3>1. 0 \in 0..(MaxClock + Ttl)
      BY GeminiConstants
    <3> QED
      BY <2>1, <3>1 DEF Made
  <2>3. Dropped(made, n) = [made EXCEPT ![n] = e]
    BY DEF Dropped
  <2> HIDE DEF e
  <2>4. /\ Dropped(made, n) \in Seq(Made) /\ Len(Dropped(made, n)) = Len(made)
        /\ \A i \in 1..Len(made) : Dropped(made, n)[i] = IF i = n THEN e ELSE made[i]
    BY <1>1, <2>2, <2>3, ExceptSeq
  <2> QED
    BY <1>1, <2>2, <2>4 DEF Extends
<1>2. CASE n \notin 1..Len(made)
  <2>1. made = [i \in 1..Len(made) |-> made[i]]
    OBVIOUS
  <2>2. Dropped(made, n) = [i \in 1..Len(made) |-> made[i]]
    BY <1>2 DEF Dropped
  <2> QED
    BY <1>2, <2>1, <2>2, Reflexive
<1> QED
  BY <1>1, <1>2

LEMMA Created ==
    ASSUME NEW made \in Seq(Made), NEW e \in Made
    PROVE  /\ Append(made, e) \in Seq(Made) /\ Len(Append(made, e)) = Len(made) + 1
           /\ Extends(made, Append(made, e))
           /\ \A i \in 1..Len(made) : Append(made, e)[i] = made[i]
           /\ Append(made, e)[Len(made) + 1] = e
BY DEF Extends

-----------------------------------------------------------------------------
(* The parts of Inv other than the leaks, for a step of one call that makes *)
(* no cache: the record it goes to must have the type, the thrift and the   *)
(* faith, and what it registers must be honest.                             *)

LEMMA CallStepInv ==
    ASSUME Inv, NEW c \in Asks, NEW r, CallTyped(r), Step(c, r),
           Thrifty(r), Faithful(r, server, clock),
           UNCHANGED <<clock, server, sweep>>, overlap' \in BOOLEAN,
           negative' \in [CacheKeys -> 0..(MaxClock + NegativeFor)],
           DOMAIN registry' \subseteq CacheKeys,
           \A k \in DOMAIN registry' :
              /\ registry'[k] \in Entry /\ Honest(k, registry'[k], server)
    PROVE  TypeInv' /\ BudgetInv' /\ PromptInv' /\ HonestInv'
<1> USE DEF Inv
<1>1. /\ ask' \in [Asks -> Calls] /\ DOMAIN ask' = Asks
      /\ \A d \in Asks : CallTyped(ask'[d])
      /\ ask'[c] = r /\ \A d \in Asks \ {c} : ask'[d] = ask[d]
  BY StepType
<1>2. TypeInv'
  BY <1>1 DEF TypeInv, Names, Honest
<1>3. BudgetInv'
  BY <1>1 DEF BudgetInv
<1>4. PromptInv'
  BY <1>1 DEF PromptInv
<1>5. HonestInv'
  BY DEF HonestInv
<1> QED
  BY <1>2, <1>3, <1>4, <1>5

\* The registry with one entry less is as honest.
LEMMA UnregisterInv ==
    ASSUME Inv, NEW k, Unregister(k)
    PROVE  /\ DOMAIN registry' \subseteq CacheKeys
           /\ \A j \in DOMAIN registry' :
                 registry'[j] \in Entry /\ Honest(j, registry'[j], server)
BY UnregisterEffect DEF Inv, TypeInv, HonestInv

LEMMA KeepRegistryInv ==
    ASSUME Inv, UNCHANGED registry
    PROVE  /\ DOMAIN registry' \subseteq CacheKeys
           /\ \A j \in DOMAIN registry' :
                 registry'[j] \in Entry /\ Honest(j, registry'[j], server)
BY DEF Inv, TypeInv, HonestInv

\* How a step of one call keeps the leaks away: it meets no other call on its
\* key, and whatever it or its entry held is held by what they become.
LEMMA CallStepLeaks ==
    ASSUME Inv, NEW c \in Asks, NEW r, CallTyped(r), Step(c, r),
           UNCHANGED <<clock, server, sweep>>,
           excused \subseteq excused',
           \A k \in (DOMAIN registry \cup DOMAIN registry') \ {r.key} :
              /\ k \in DOMAIN registry <=> k \in DOMAIN registry'
              /\ registry'[k] = registry[k],
           ~overlap' =>
              /\ ~overlap /\ sweep.pc # "deleting"
              /\ \A d \in Asks \ {c} : Flying(d) => ask[d].key # r.key
              /\ r.pc \in {"creating", "created"} => r.key \notin DOMAIN registry'
              /\ r.pc \in {"sent", "asleep"} /\ r.using # NoCache /\ r.key \in DOMAIN registry'
                    => registry'[r.key].name = r.using
              /\ \A n \in Names :
                    \/ ask[c].pc = "created" /\ ask[c].using = n
                    \/ r.key \in DOMAIN registry /\ registry[r.key].name = n
                    => \/ n \in excused'
                       \/ r.key \in DOMAIN registry' /\ registry'[r.key].name = n
                       \/ r.pc = "created" /\ r.using = n
    PROVE  LeakInv'
<1> SUFFICES ASSUME ~overlap' PROVE (Apart /\ Registrations /\ AllKept)'
  BY DEF LeakInv
<1>1. Apart /\ Registrations /\ AllKept /\ TypeInv
  BY DEF Inv, LeakInv
<1>2. /\ ask'[c] = r /\ \A d \in Asks \ {c} : ask'[d] = ask[d]
  BY <1>1, StepType
<1>4. \A d \in Asks \ {c} : Flying(d) => ask[d].key # r.key
  OBVIOUS
<1>5. sweep.pc # "deleting"
  OBVIOUS
<1>3. Apart'
  BY <1>1, <1>2, <1>4, <1>5 DEF Apart, Flying
<1>6. Registrations'
  <2>1. ASSUME NEW d \in Asks, ask'[d].pc \in {"creating", "created"}
        PROVE  ask'[d].key \notin DOMAIN registry'
    <3>1. CASE d = c
      BY <1>1, <1>2, <2>1, <3>1 DEF Registrations
    <3>2. CASE d # c
      BY <1>1, <1>2, <1>4, <2>1, <3>2 DEF Registrations, Flying, InFlight
    <3> QED
      BY <3>1, <3>2
  <2>2. ASSUME NEW d \in Asks, ask'[d].pc \in {"sent", "asleep"}, ask'[d].using # NoCache,
               ask'[d].key \in DOMAIN registry'
        PROVE  registry'[ask'[d].key].name = ask'[d].using
    <3>1. CASE d = c
      BY <1>1, <1>2, <2>2, <3>1 DEF Registrations
    <3>2. CASE d # c
      <4>1. ask[d].key # r.key
        BY <1>2, <1>4, <2>2, <3>2 DEF Flying, InFlight
      <4> QED
        BY <1>1, <1>2, <2>2, <3>2, <4>1 DEF Registrations
    <3> QED
      BY <3>1, <3>2
  <2> QED
    BY <1>5, <2>1, <2>2 DEF Registrations
<1>7. AllKept'
  <2> SUFFICES ASSUME NEW n \in Names, Alive(n) PROVE Kept(n)'
    BY DEF AllKept, Names, Alive
  <2>1. Kept(n)
    BY <1>1 DEF AllKept
  <2>2. CASE n \in excused
    BY <2>2 DEF Kept
  <2>3. ASSUME NEW k \in DOMAIN registry, registry[k].name = n PROVE Kept(n)'
    <3>1. CASE k # r.key
      BY <2>3, <3>1 DEF Kept
    <3>2. CASE k = r.key
      BY <1>2, <2>3, <3>2 DEF Kept
    <3> QED
      BY <3>1, <3>2
  <2>4. ASSUME NEW d \in Asks, ask[d].pc = "created", ask[d].using = n PROVE Kept(n)'
    <3>1. CASE d # c
      BY <1>2, <2>4, <3>1 DEF Kept
    <3>2. CASE d = c
      BY <1>2, <2>4, <3>2 DEF Kept
    <3> QED
      BY <3>1, <3>2
  <2> QED
    BY <1>5, <2>1, <2>2, <2>3, <2>4 DEF Kept
<1> QED
  BY <1>3, <1>6, <1>7

-----------------------------------------------------------------------------
(* The steps of a call.                                                     *)

LEMMA AskInv ==
    ASSUME Inv, NEW c \in Asks, NEW k \in CacheKeys, NEW t \in PromptsOf[c],
           AskReuse(c, k, t) \/ AskUncached(c, k, t) \/ AskCreate(c, k, t)
    PROVE  Inv'
<1> USE GeminiConstants
<1> DEFINE f == Fresh(k, t)
<1>1. t \in Prompts
  OBVIOUS
<1>2. /\ CallTyped(f) /\ f.key = k /\ f.text = t
      /\ f.attempt = 0 /\ f.sends = 0 /\ f.transients = 0 /\ f.using = 0
      /\ Len(server) \in Nat
  BY <1>1, FreshCall DEF Inv, TypeInv
<1>3. TypeInv /\ ask[c].pc = "idle" /\ overlap' \in BOOLEAN
  BY DEF Inv, TypeInv, AskReuse, AskUncached, AskCreate, Overlaps
<1>4. ~overlap' => /\ ~overlap /\ sweep.pc # "deleting"
                   /\ \A d \in Asks \ {c} : Flying(d) => ask[d].key # k
  BY DEF AskReuse, AskUncached, AskCreate, Overlaps
<1>5. CASE AskReuse(c, k, t)
  <2> DEFINE r == Sent(f, IF registry[k].text = t THEN registry[k].name ELSE NoCache)
  <2>1. k \in DOMAIN registry /\ registry[k] \in Entry /\ Honest(k, registry[k], server)
    BY <1>3, <1>5 DEF AskReuse, Live, TypeInv, HonestInv, Inv
  <2>2. /\ CallTyped(r) /\ r.pc = "sent" /\ r.sends = 1 /\ r.key = k /\ r.text = t
        /\ r.attempt = 0 /\ r.transients = 0
        /\ r.using = IF registry[k].text = t THEN registry[k].name ELSE NoCache
    BY <1>1, <1>2, <2>1, SentCall DEF Entry, NoCache
  <2>3. Step(c, r) /\ UNCHANGED <<clock, registry, negative, server, sweep, excused>>
    BY <1>5 DEF AskReuse, Fresh
  <2> HIDE DEF r, f
  <2>4. Thrifty(r) /\ Faithful(r, server, clock)
    BY <2>1, <2>2 DEF Thrifty, Faithful, Honest, NoCache
  <2>5. TypeInv' /\ BudgetInv' /\ PromptInv' /\ HonestInv'
    BY <1>3, <2>2, <2>3, <2>4, KeepRegistryInv, CallStepInv DEF TypeInv
  <2>6. LeakInv'
    BY <1>3, <1>4, <2>2, <2>3, CallStepLeaks
  <2> QED
    BY <2>5, <2>6 DEF Inv
<1>6. CASE AskUncached(c, k, t)
  <2> DEFINE r == Sent(f, NoCache)
  <2>1. /\ CallTyped(r) /\ r.pc = "sent" /\ r.sends = 1 /\ r.key = k /\ r.text = t
        /\ r.attempt = 0 /\ r.transients = 0 /\ r.using = NoCache
    BY <1>1, <1>2, SentCall DEF NoCache
  <2>2. /\ Step(c, r) /\ UNCHANGED <<clock, server, sweep>> /\ Unregister(k)
        /\ excused' = excused \cup {registry[j].name : j \in DOMAIN registry \cap {k}}
    BY <1>6 DEF AskUncached, Fresh
  <2>3. negative' \in [CacheKeys -> 0..(MaxClock + NegativeFor)]
    BY <1>3, <1>6 DEF AskUncached, TypeInv
  <2> HIDE DEF r, f
  <2>4. Thrifty(r) /\ Faithful(r, server, clock)
    BY <2>1 DEF Thrifty, Faithful, NoCache
  <2>5. TypeInv' /\ BudgetInv' /\ PromptInv' /\ HonestInv'
    BY <1>3, <2>1, <2>2, <2>3, <2>4, UnregisterInv, CallStepInv
  <2>6. LeakInv'
    BY <1>3, <1>4, <2>1, <2>2, UnregisterEffect, CallStepLeaks
  <2> QED
    BY <2>5, <2>6 DEF Inv
<1>7. CASE AskCreate(c, k, t)
  <2> DEFINE r == [f EXCEPT !.pc = "creating", !.at = clock]
  <2>1. /\ CallTyped(r) /\ r.pc = "creating" /\ r.sends = 0 /\ r.key = k /\ r.text = t
        /\ r.attempt = 0 /\ r.transients = 0 /\ r.at = clock /\ r.using = 0
    BY <1>1, <1>2, <1>3 DEF CallTyped, Calls, InFlight, TypeInv
  <2>2. /\ Step(c, r) /\ UNCHANGED <<clock, negative, server, sweep>> /\ Unregister(k)
        /\ excused' = excused \cup {registry[j].name : j \in DOMAIN registry \cap {k}}
    <3>1. r = [NoAsk EXCEPT !.pc = "creating", !.key = k, !.text = t, !.at = clock]
      BY DEF Fresh, NoAsk
    <3> QED
      BY <1>7, <3>1 DEF AskCreate
  <2> HIDE DEF r, f
  <2>4. Thrifty(r) /\ Faithful(r, server, clock)
    BY <1>3, <2>1 DEF Thrifty, Faithful, TypeInv
  <2>5. TypeInv' /\ BudgetInv' /\ PromptInv' /\ HonestInv'
    BY <1>3, <2>1, <2>2, <2>4, UnregisterInv, CallStepInv DEF TypeInv
  <2>6. LeakInv'
    BY <1>3, <1>4, <2>1, <2>2, UnregisterEffect, CallStepLeaks
  <2> QED
    BY <2>5, <2>6 DEF Inv
<1> QED
  BY <1>5, <1>6, <1>7

LEMMA FlyingFacts ==
    ASSUME Inv, NEW c \in Asks, Flying(c)
    PROVE  /\ CallTyped(ask[c]) /\ ask[c].key \in CacheKeys /\ ask[c].text \in Prompts
           /\ Thrifty(ask[c]) /\ Faithful(ask[c], server, clock)
           /\ overlap \in BOOLEAN
           /\ negative \in [CacheKeys -> 0..(MaxClock + NegativeFor)]
           /\ ~overlap => /\ sweep.pc # "deleting"
                          /\ \A d \in Asks \ {c} : Flying(d) => ask[d].key # ask[c].key
           /\ ~overlap => Registrations
<1>1. CallTyped(ask[c]) /\ ask[c].pc # "idle"
  BY DEF Inv, TypeInv, Flying, InFlight
<1> QED
  BY <1>1 DEF Inv, TypeInv, CallTyped, BudgetInv, PromptInv, LeakInv, Apart

\* A step that leaves the registry alone.
LEMMA PlainStepInv ==
    ASSUME Inv, NEW c \in Asks, Flying(c), NEW r, CallTyped(r), Step(c, r),
           r.key = ask[c].key, r.pc \notin {"creating", "created"},
           r.pc \in {"sent", "asleep"} /\ r.using # NoCache =>
              ask[c].pc \in {"sent", "asleep"} /\ r.using = ask[c].using,
           Thrifty(r), Faithful(r, server, clock),
           UNCHANGED <<clock, registry, server, sweep, overlap>>,
           negative' \in [CacheKeys -> 0..(MaxClock + NegativeFor)],
           excused \subseteq excused',
           ask[c].pc = "created" => ask[c].using \in excused'
    PROVE  Inv'
<1>1. TypeInv' /\ BudgetInv' /\ PromptInv' /\ HonestInv'
  BY FlyingFacts, KeepRegistryInv, CallStepInv
<1>2. LeakInv'
  BY FlyingFacts, CallStepLeaks DEF Registrations
<1> QED
  BY <1>1, <1>2 DEF Inv

LEMMA CreateFailsInv == ASSUME Inv, NEW c \in Asks, CreateFails(c) PROVE Inv'
<1> USE GeminiConstants
<1> DEFINE r == Sent(ask[c], NoCache)
<1>1. Flying(c) /\ ask[c].pc \in {"creating", "created"}
  BY DEF CreateFails, Flying, InFlight
<1>2. /\ CallTyped(r) /\ r.pc = "sent" /\ r.using = NoCache /\ r.sends = ask[c].sends + 1
      /\ r.key = ask[c].key /\ r.text = ask[c].text
      /\ r.attempt = ask[c].attempt /\ r.transients = ask[c].transients
  BY <1>1, FlyingFacts, SentCall DEF NoCache
<1>3. Step(c, r) /\ UNCHANGED <<clock, registry, server, sweep, overlap>>
  BY DEF CreateFails
<1> HIDE DEF r
<1>4. Thrifty(r) /\ Faithful(r, server, clock)
  BY <1>1, <1>2, FlyingFacts DEF Thrifty, Faithful, NoCache
<1>5. negative' \in [CacheKeys -> 0..(MaxClock + NegativeFor)]
  BY <1>1, FlyingFacts DEF CreateFails, CallTyped, Calls
<1>6. excused \subseteq excused' /\ (ask[c].pc = "created" => ask[c].using \in excused')
  BY <1>1, FlyingFacts DEF CreateFails, Faithful, NoCache
<1> QED
  BY <1>1, <1>2, <1>3, <1>4, <1>5, <1>6, PlainStepInv

LEMMA EndsInv ==
    ASSUME Inv, NEW c \in Asks, Reply(c) \/ Transient(c) \/ Fatal(c)
    PROVE  Inv'
<1> USE GeminiConstants
<1>1. Flying(c) /\ ask[c].pc = "sent" /\ CallTyped(ask[c])
  BY FlyingFacts DEF Reply, Transient, Fatal, Flying, InFlight
<1>2. /\ UNCHANGED <<clock, registry, server, sweep, overlap, excused>>
      /\ negative' \in [CacheKeys -> 0..(MaxClock + NegativeFor)]
  BY <1>1, FlyingFacts DEF Reply, Transient, Fatal
<1>3. ASSUME NEW r, CallTyped(r), Step(c, r), r.key = ask[c].key,
             r.pc \in {"done", "failed", "asleep"}, r.using = ask[c].using,
             Thrifty(r), Faithful(r, server, clock)
      PROVE  Inv'
  BY <1>1, <1>2, <1>3, PlainStepInv
<1>4. CASE Reply(c)
  <2> DEFINE said == IF ask[c].using = NoCache THEN ask[c].text ELSE server[ask[c].using].text
             r == [ask[c] EXCEPT !.pc = "done", !.reply = said]
  <2>1. said = ask[c].text /\ said \in Prompts
    BY <1>1, FlyingFacts DEF Faithful
  <2>2. Step(c, r)
    BY <1>4 DEF Reply
  <2> HIDE DEF said
  <2>3. /\ CallTyped(r) /\ r.pc = "done" /\ r.reply = said
        /\ r.key = ask[c].key /\ r.text = ask[c].text /\ r.using = ask[c].using
        /\ r.sends = ask[c].sends
    BY <1>1, <2>1 DEF CallTyped, Calls
  <2> HIDE DEF r
  <2>4. Thrifty(r) /\ Faithful(r, server, clock)
    BY <1>1, <2>1, <2>3, FlyingFacts DEF Thrifty, Faithful
  <2> QED
    BY <1>3, <2>2, <2>3, <2>4
<1>5. CASE Transient(c)
  <2> DEFINE r == [ask[c] EXCEPT !.pc = IF ask[c].attempt < MaxRetries THEN "asleep" ELSE "failed",
                                 !.transients = @ + 1]
  <2>2. Step(c, r)
    BY <1>5 DEF Transient
  <2>3. /\ CallTyped(r) /\ r.pc = IF ask[c].attempt < MaxRetries THEN "asleep" ELSE "failed"
        /\ r.key = ask[c].key /\ r.text = ask[c].text /\ r.using = ask[c].using
        /\ r.sends = ask[c].sends /\ r.transients = ask[c].transients + 1
        /\ r.attempt = ask[c].attempt
    <3> DEFINE p == IF ask[c].attempt < MaxRetries THEN "asleep" ELSE "failed"
               t == ask[c].transients + 1
    <3>1. t \in Nat /\ p \in {"asleep", "failed"}
      BY <1>1 DEF CallTyped, Calls
    <3>2. r = [ask[c] EXCEPT !.pc = p, !.transients = t]
      BY SMTT(60)
    <3> HIDE DEF p, t
    <3>3. r \in Calls
      BY <1>1, <3>1, <3>2, MovedCall DEF CallTyped
    <3>4. p = (IF ask[c].attempt < MaxRetries THEN "asleep" ELSE "failed") /\ t = ask[c].transients + 1
      BY DEF p, t
    <3> QED
      BY <1>1, <3>2, <3>3, <3>4 DEF CallTyped, Calls
  <2> HIDE DEF r
  <2>4. Thrifty(r)
    BY <1>1, <2>3, FlyingFacts DEF Thrifty, CallTyped, Calls
  <2>5. Faithful(r, server, clock)
    BY <1>1, <2>3, FlyingFacts DEF Faithful
  <2> QED
    BY <1>3, <2>2, <2>3, <2>4, <2>5
<1>6. CASE Fatal(c)
  <2> DEFINE r == [ask[c] EXCEPT !.pc = "failed", !.fatal = TRUE]
  <2>2. Step(c, r)
    BY <1>6 DEF Fatal
  <2>3. /\ CallTyped(r) /\ r.pc = "failed" /\ r.fatal = TRUE
        /\ r.key = ask[c].key /\ r.text = ask[c].text /\ r.using = ask[c].using
        /\ r.sends = ask[c].sends
    BY <1>1 DEF CallTyped, Calls
  <2> HIDE DEF r
  <2>4. Thrifty(r) /\ Faithful(r, server, clock)
    BY <1>1, <2>3, FlyingFacts DEF Thrifty, Faithful
  <2> QED
    BY <1>3, <2>2, <2>3, <2>4
<1> QED
  BY <1>4, <1>5, <1>6

LEMMA WakeInv == ASSUME Inv, NEW c \in Asks, Wake(c) PROVE Inv'
<1> USE GeminiConstants
<1> DEFINE w == [ask[c] EXCEPT !.attempt = @ + 1]
           r == Sent(w, ask[c].using)
<1>1. Flying(c) /\ ask[c].pc = "asleep" /\ CallTyped(ask[c]) /\ ask[c].using \in Nat
  BY FlyingFacts DEF Wake, Flying, InFlight, CallTyped, Calls
<1>2. /\ CallTyped(w) /\ w.key = ask[c].key /\ w.text = ask[c].text
      /\ w.attempt = ask[c].attempt + 1 /\ w.sends = ask[c].sends
      /\ w.transients = ask[c].transients
  <2>1. ask[c].attempt + 1 \in 0..MaxRetries
    BY <1>1, FlyingFacts DEF CallTyped, Calls, Thrifty
  <2> QED
    BY <1>1, <2>1 DEF CallTyped, Calls
<1>3. Step(c, r) /\ UNCHANGED <<clock, registry, negative, server, sweep, overlap, excused>>
  BY DEF Wake
<1> HIDE DEF w
<1>4. /\ CallTyped(r) /\ r.pc = "sent" /\ r.using = ask[c].using /\ r.sends = ask[c].sends + 1
      /\ r.key = ask[c].key /\ r.text = ask[c].text
      /\ r.attempt = ask[c].attempt + 1 /\ r.transients = ask[c].transients
  BY <1>1, <1>2, FlyingFacts, SentCall
<1> HIDE DEF r
<1>5. Thrifty(r)
  <2>1. /\ ask[c].transients = ask[c].attempt + 1 /\ ask[c].attempt < MaxRetries
        /\ ask[c].sends <= ask[c].attempt + (IF ask[c].using = NoCache THEN 2 ELSE 1)
        /\ ask[c].attempt \in Nat /\ ask[c].sends \in Nat
    BY <1>1, FlyingFacts DEF Thrifty, CallTyped, Calls
  <2> QED
    BY <1>4, <2>1 DEF Thrifty
<1>6. Faithful(r, server, clock)
  BY <1>1, <1>4, FlyingFacts DEF Faithful
<1> QED
  BY <1>1, <1>3, <1>4, <1>5, <1>6, FlyingFacts, PlainStepInv

LEMMA RefuseInv == ASSUME Inv, NEW c \in Asks, Refuse(c) PROVE Inv'
<1> USE GeminiConstants
<1> DEFINE r == Sent(ask[c], NoCache)
<1>1. Flying(c) /\ ask[c].pc = "sent" /\ ask[c].using # NoCache
  BY DEF Refuse, Flying, InFlight
<1>2. /\ CallTyped(r) /\ r.pc = "sent" /\ r.using = NoCache /\ r.sends = ask[c].sends + 1
      /\ r.key = ask[c].key /\ r.text = ask[c].text
      /\ r.attempt = ask[c].attempt /\ r.transients = ask[c].transients
  BY <1>1, FlyingFacts, SentCall DEF NoCache
<1>3. /\ Step(c, r) /\ UNCHANGED <<clock, negative, server, sweep, overlap>>
      /\ Unregister(ask[c].key) /\ excused' = excused \cup {ask[c].using}
  BY DEF Refuse
<1> HIDE DEF r
<1>4. Thrifty(r) /\ Faithful(r, server, clock)
  <2>1. /\ ask[c].transients = ask[c].attempt /\ ask[c].attempt \in 0..MaxRetries
        /\ ask[c].sends <= ask[c].attempt + 1 /\ ask[c].sends \in Nat
    BY <1>1, FlyingFacts DEF Thrifty, CallTyped, Calls
  <2>2. Thrifty(r)
    BY <1>2, <2>1 DEF Thrifty
  <2>3. Len(server) \in Nat
    BY DEF Inv, TypeInv
  <2>4. Faithful(r, server, clock)
    BY <1>2, <2>3 DEF Faithful, NoCache
  <2> QED
    BY <2>2, <2>4
<1>5. TypeInv' /\ BudgetInv' /\ PromptInv' /\ HonestInv'
  BY <1>1, <1>2, <1>3, <1>4, FlyingFacts, UnregisterInv, CallStepInv
<1>6. \A n : ~overlap /\ ask[c].key \in DOMAIN registry /\ registry[ask[c].key].name = n
             => n \in excused'
  BY <1>1, <1>3, FlyingFacts DEF Registrations
<1>7. /\ DOMAIN registry' = DOMAIN registry \ {ask[c].key}
      /\ \A j \in DOMAIN registry' : registry'[j] = registry[j]
  BY <1>3, UnregisterEffect DEF Inv
<1>8. LeakInv'
  BY <1>1, <1>2, <1>3, <1>6, <1>7, FlyingFacts, CallStepLeaks
<1> QED
  BY <1>5, <1>8 DEF Inv

LEMMA Timely ==
    ASSUME NEW at \in 0..MaxClock, NEW born \in 0..MaxClock, at <= born
    PROVE  /\ at + Ttl - Margin \in (-Margin)..(MaxClock + Ttl)
           /\ (at + Ttl - Margin) + Margin <= born + Ttl
BY GeminiConstants

LEMMA CreateReturnsInv == ASSUME Inv, NEW c \in Asks, CreateReturns(c) PROVE Inv'
<1> USE GeminiConstants
<1> DEFINE q == ask[c]
           r == Sent(q, q.using)
           e == [name |-> q.using, text |-> q.text, until |-> q.at + Ttl - Margin]
<1>1. Flying(c) /\ q.pc = "created" /\ q.using \in Nat /\ q.at \in 0..MaxClock /\ CallTyped(q)
  BY FlyingFacts DEF CreateReturns, Flying, InFlight, CallTyped, Calls
<1>2. /\ CallTyped(r) /\ r.pc = "sent" /\ r.using = q.using /\ r.sends = q.sends + 1
      /\ r.key = q.key /\ r.text = q.text
      /\ r.attempt = q.attempt /\ r.transients = q.transients
  BY <1>1, FlyingFacts, SentCall
<1>3. /\ Step(c, r) /\ UNCHANGED <<clock, negative, server, sweep, overlap, excused>>
      /\ Register(q.key, e)
  BY DEF CreateReturns
<1> HIDE DEF r
<1>4. /\ DOMAIN registry' = DOMAIN registry \cup {q.key}
      /\ registry'[q.key] = e
      /\ \A k \in DOMAIN registry \ {q.key} : registry'[k] = registry[k]
  BY <1>3 DEF Register
<1>5. Thrifty(r) /\ Faithful(r, server, clock)
  BY <1>1, <1>2, FlyingFacts DEF Thrifty, Faithful
<1>6. e \in Entry /\ Honest(q.key, e, server)
  <2>1. /\ q.using \in 1..Len(server)
        /\ server[q.using].key = q.key /\ server[q.using].text = q.text
        /\ q.at <= server[q.using].born
    BY <1>1, FlyingFacts DEF Faithful
  <2>2. server[q.using] \in Made
    BY <2>1 DEF Inv, TypeInv
  <2>3. /\ q.at + Ttl - Margin \in (-Margin)..(MaxClock + Ttl)
        /\ (q.at + Ttl - Margin) + Margin <= server[q.using].born + Ttl
    <3>1. server[q.using].born \in 0..MaxClock
      BY <2>2 DEF Made
    <3> QED
      BY <1>1, <2>1, <3>1, Timely
  <2>4. e \in Entry
    BY <1>1, <2>3, FlyingFacts DEF Entry
  <2>5. e.name = q.using /\ e.text = q.text /\ e.until = q.at + Ttl - Margin
    OBVIOUS
  <2> HIDE DEF e
  <2> QED
    BY <2>1, <2>3, <2>4, <2>5 DEF Honest
<1> HIDE DEF e
<1>7. /\ DOMAIN registry' \subseteq CacheKeys
      /\ \A k \in DOMAIN registry' :
            registry'[k] \in Entry /\ Honest(k, registry'[k], server)
  BY <1>1, <1>4, <1>6, FlyingFacts DEF Inv, TypeInv, HonestInv
<1>8. TypeInv' /\ BudgetInv' /\ PromptInv' /\ HonestInv'
  BY <1>1, <1>2, <1>3, <1>5, <1>7, FlyingFacts, CallStepInv
<1>9. e.name = q.using
  BY DEF e
<1>10. ~overlap => q.key \notin DOMAIN registry
  BY <1>1, FlyingFacts DEF Registrations
<1>11. LeakInv'
  BY <1>1, <1>2, <1>3, <1>4, <1>9, <1>10, FlyingFacts, CallStepLeaks
<1> QED
  BY <1>8, <1>11 DEF Inv

LEMMA ServerCreatesInv == ASSUME Inv, NEW c \in Asks, ServerCreates(c) PROVE Inv'
<1> USE GeminiConstants
<1> DEFINE q == ask[c]
           m == [key |-> q.key, text |-> q.text, born |-> clock, dies |-> clock + Ttl]
           r == [q EXCEPT !.pc = "created", !.using = Len(server')]
<1>1. Flying(c) /\ q.pc = "creating" /\ CallTyped(q) /\ server \in Seq(Made) /\ clock \in 0..MaxClock
  BY FlyingFacts DEF ServerCreates, Flying, InFlight, Inv, TypeInv
<1>2. m \in Made
  BY <1>1, FlyingFacts DEF Made
<1>3. /\ Step(c, r) /\ server' = Append(server, m)
      /\ UNCHANGED <<clock, registry, negative, sweep, overlap, excused>>
  BY DEF ServerCreates
<1> HIDE DEF m
<1>4. /\ server' \in Seq(Made) /\ Len(server') = Len(server) + 1 /\ Extends(server, server')
      /\ \A i \in 1..Len(server) : server'[i] = server[i]
      /\ server'[Len(server) + 1] = m /\ Len(server) \in Nat
  BY <1>1, <1>2, <1>3, Created
<1>5. /\ CallTyped(r) /\ r.pc = "created" /\ r.using = Len(server) + 1 /\ r.at = q.at
      /\ r.key = q.key /\ r.text = q.text /\ r.sends = q.sends
      /\ r.attempt = q.attempt /\ r.transients = q.transients
  <2>1. Len(server') \in Nat /\ Len(server') = Len(server) + 1
    BY <1>4
  <2>2. q \in Calls
    BY <1>1 DEF CallTyped
  <2> HIDE DEF q
  <2>3. r \in Calls
    BY <2>1, <2>2, MovedCall
  <2> USE DEF q
  <2> QED
    BY <1>1, <2>1, <2>3, FlyingFacts, SMTT(60) DEF CallTyped, Calls
<1>6. m.key = q.key /\ m.text = q.text /\ m.born = clock /\ q.at <= clock
  BY <1>1, FlyingFacts DEF m, Faithful
<1> HIDE DEF r
<1>7. Thrifty(r) /\ Faithful(r, server', clock)
  BY <1>1, <1>4, <1>5, <1>6, FlyingFacts DEF Thrifty, Faithful
<1>8. TypeInv /\ BudgetInv /\ PromptInv /\ HonestInv
  BY DEF Inv
<1>9. /\ ask' \in [Asks -> Calls] /\ DOMAIN ask' = Asks
      /\ \A d \in Asks : CallTyped(ask'[d])
      /\ ask'[c] = r /\ \A d \in Asks \ {c} : ask'[d] = ask[d]
  BY <1>3, <1>5, <1>8, StepType
<1>10. TypeInv'
  BY <1>3, <1>4, <1>8, <1>9 DEF TypeInv, Names
<1>11. BudgetInv'
  BY <1>7, <1>8, <1>9 DEF BudgetInv
<1>12. PromptInv'
  <2>1. \A d \in Asks \ {c} : Faithful(ask[d], server', clock)
    BY <1>1, <1>4, <1>8, FaithfulLater DEF PromptInv, TypeInv
  <2> QED
    BY <1>3, <1>7, <1>9, <2>1 DEF PromptInv
<1>13. HonestInv'
  BY <1>1, <1>3, <1>4, <1>8, HonestLater DEF HonestInv
<1>14. LeakInv'
  <2> SUFFICES ASSUME ~overlap PROVE (Apart /\ Registrations /\ AllKept)'
    BY <1>3 DEF LeakInv
  <2>1. Apart /\ Registrations /\ AllKept
    BY DEF Inv, LeakInv
  <2>2. Apart'
    BY <1>1, <1>3, <1>5, <1>9, <2>1, SMTT(60) DEF Apart, Flying, InFlight
  <2>3. Registrations'
    BY <1>1, <1>3, <1>5, <1>9, <2>1 DEF Registrations
  <2>4. ASSUME NEW n \in Names', Alive(n)' PROVE Kept(n)'
    <3>1. CASE n = Len(server) + 1
      BY <1>5, <1>9, <3>1 DEF Kept
    <3>2. CASE n # Len(server) + 1
      <4>1. n \in Names /\ Alive(n)
        BY <1>3, <1>4, <2>4, <3>2 DEF Names, Alive
      <4>2. Kept(n)
        BY <2>1, <4>1 DEF AllKept
      <4> QED
        BY <1>1, <1>3, <1>9, <4>2 DEF Kept
    <3> QED
      BY <3>1, <3>2
  <2> QED
    BY <2>2, <2>3, <2>4 DEF AllKept
<1> QED
  BY <1>10, <1>11, <1>12, <1>13, <1>14 DEF Inv

-----------------------------------------------------------------------------
(* The steps of the sweep, the service and the clock.                       *)

\* A step that touches no call and registers nothing.
LEMMA OutsideInv ==
    ASSUME Inv, UNCHANGED <<ask, negative>>, overlap' \in BOOLEAN,
           sweep'.pc \in {"idle", "deleting", "over"},
           clock' \in 0..MaxClock, clock <= clock',
           server' \in Seq(Made), Len(server') = Len(server), Extends(server, server'),
           DOMAIN registry' \subseteq DOMAIN registry,
           \A k \in DOMAIN registry' : registry'[k] = registry[k]
    PROVE  TypeInv' /\ BudgetInv' /\ PromptInv' /\ HonestInv'
<1> USE GeminiConstants
<1>1. TypeInv /\ BudgetInv /\ PromptInv /\ HonestInv /\ server \in Seq(Made)
      /\ clock \in 0..MaxClock
  BY DEF Inv, TypeInv
<1>2. TypeInv'
  BY <1>1 DEF TypeInv, Names
<1>3. BudgetInv'
  BY <1>1 DEF BudgetInv
<1>4. PromptInv'
  <2>1. \A c \in Asks : ask[c] \in Calls
    BY <1>1 DEF TypeInv
  <2> QED
    BY <1>1, <2>1, FaithfulLater DEF PromptInv
<1>5. HonestInv'
  BY <1>1, HonestLater DEF HonestInv
<1> QED
  BY <1>2, <1>3, <1>4, <1>5

LEMMA SweepGoEffect ==
    ASSUME TypeInv, NEW left, SweepGo(left)
    PROVE  /\ sweep'.pc \in {"idle", "deleting", "over"}
           /\ DOMAIN registry' \subseteq DOMAIN registry
           /\ \A k \in DOMAIN registry' : registry'[k] = registry[k]
<1>1. CASE left = {}
  BY <1>1 DEF SweepGo
<1>2. CASE left # {}
  <2>1. PICK e \in left : /\ Unregister(e[1])
                          /\ sweep' = [pc |-> "deleting", left |-> left \ {e}, name |-> e[2]]
    BY <1>2 DEF SweepGo
  <2> QED
    BY <2>1, UnregisterEffect
<1> QED
  BY <1>1, <1>2

\* While no call is in flight, what the sweep has not reached is registered still.
LEMMA SweepGoLeaks ==
    ASSUME TypeInv, \A c \in Asks : ~Flying(c), UNCHANGED ask,
           NEW left, SweepGo(left),
           \A e \in left : e[1] \in DOMAIN registry => registry[e[1]].name = e[2],
           \A n \in Names' : Alive(n)' =>
              n \in excused' \/ \E k \in DOMAIN registry : registry[k].name = n
    PROVE  (Apart /\ Registrations /\ AllKept)'
<1>1. \A c \in Asks : ask[c].pc \notin InFlight
  BY DEF Flying
<1>2. Apart'
  BY <1>1 DEF Apart, Flying
<1>3. CASE left = {}
  <2>1. UNCHANGED registry /\ sweep'.pc = "over"
    BY <1>3 DEF SweepGo
  <2>2. Registrations'
    BY <1>1, <2>1 DEF Registrations, InFlight
  <2>3. AllKept'
    BY <2>1 DEF AllKept, Kept
  <2> QED
    BY <1>2, <2>2, <2>3
<1>4. CASE left # {}
  <2>1. PICK e \in left : /\ Unregister(e[1])
                          /\ sweep' = [pc |-> "deleting", left |-> left \ {e}, name |-> e[2]]
    BY <1>4 DEF SweepGo
  <2>2. /\ DOMAIN registry' = DOMAIN registry \ {e[1]}
        /\ \A j \in DOMAIN registry' : registry'[j] = registry[j]
    BY <2>1, UnregisterEffect
  <2>3. sweep'.pc = "deleting" /\ sweep'.left = left \ {e} /\ sweep'.name = e[2]
    BY <2>1
  <2>4. Registrations'
    BY <1>1, <2>2, <2>3 DEF Registrations, InFlight
  <2>5. ASSUME NEW n \in Names', Alive(n)' PROVE Kept(n)'
    <3>1. CASE n \in excused'
      BY <3>1 DEF Kept
    <3>2. ASSUME NEW k \in DOMAIN registry, registry[k].name = n PROVE Kept(n)'
      BY <2>2, <2>3, <3>2 DEF Kept
    <3> QED
      BY <2>5, <3>1, <3>2
  <2> QED
    BY <1>2, <2>4, <2>5 DEF AllKept
<1> QED
  BY <1>3, <1>4

LEMMA SweepBeginsInv == ASSUME Inv, SweepBegins PROVE Inv'
<1> DEFINE left == {<<k, registry[k].name>> : k \in DOMAIN registry}
<1>1. TypeInv /\ sweep.pc = "idle" /\ SweepGo(left)
  BY DEF Inv, SweepBegins
<1> HIDE DEF left
<1>2. /\ UNCHANGED <<clock, negative, server, ask, mishaps, excused>>
      /\ overlap' = (overlap \/ \E c \in Asks : Flying(c))
  BY DEF SweepBegins
<1>3. server \in Seq(Made) /\ clock \in 0..MaxClock /\ overlap' \in BOOLEAN
  BY <1>1, <1>2 DEF TypeInv
<1>4. TypeInv' /\ BudgetInv' /\ PromptInv' /\ HonestInv'
  BY <1>1, <1>2, <1>3, SweepGoEffect, Reflexive, OutsideInv, GeminiConstants
<1>5. ASSUME ~overlap' PROVE (Apart /\ Registrations /\ AllKept)'
  <2>1. ~overlap /\ \A c \in Asks : ~Flying(c)
    BY <1>2, <1>5
  <2>2. AllKept
    BY <2>1 DEF Inv, LeakInv
  <2>3. \A e \in left : e[1] \in DOMAIN registry => registry[e[1]].name = e[2]
    BY DEF left
  <2>4. ASSUME NEW n \in Names', Alive(n)'
        PROVE  n \in excused' \/ \E k \in DOMAIN registry : registry[k].name = n
    <3>1. n \in Names /\ Alive(n)
      BY <1>2, <2>4 DEF Names, Alive
    <3> QED
      BY <1>1, <1>2, <2>1, <2>2, <3>1 DEF AllKept, Kept, Flying, InFlight
  <2> QED
    BY <1>1, <1>2, <2>1, <2>3, <2>4, SweepGoLeaks
<1> QED
  BY <1>4, <1>5 DEF Inv, LeakInv

LEMMA SweepDeletedInv == ASSUME Inv, SweepDeleted PROVE Inv'
<1> USE GeminiConstants
<1>1. TypeInv /\ sweep.pc = "deleting" /\ SweepGo(sweep.left)
  BY DEF Inv, SweepDeleted
<1>2. UNCHANGED <<clock, negative, ask, overlap>>
  BY DEF SweepDeleted
<1>3. server \in Seq(Made) /\ clock \in 0..MaxClock /\ overlap' \in BOOLEAN
  BY <1>1, <1>2 DEF TypeInv
<1>4. /\ server' \in Seq(Made) /\ Len(server') = Len(server) /\ Extends(server, server')
      /\ excused \subseteq excused'
      /\ \A n \in Names : Alive(n)' => Alive(n) /\ (n = sweep.name => n \in excused')
  <2>1. CASE server' = Dropped(server, sweep.name) /\ UNCHANGED excused
    <3>1. /\ server' \in Seq(Made) /\ Len(server') = Len(server) /\ Extends(server, server')
          /\ \A i \in 1..Len(server) : i # sweep.name => server'[i] = server[i]
          /\ sweep.name \in 1..Len(server) => server'[sweep.name].dies = 0
      BY <1>3, <2>1, Deleted
    <3> QED
      BY <1>2, <1>3, <2>1, <3>1 DEF Names, Alive
  <2>2. CASE UNCHANGED server /\ excused' = excused \cup {sweep.name}
    BY <1>2, <1>3, <2>2, Reflexive DEF Names, Alive
  <2> QED
    BY <2>1, <2>2 DEF SweepDeleted
<1>5. TypeInv' /\ BudgetInv' /\ PromptInv' /\ HonestInv'
  BY <1>1, <1>2, <1>3, <1>4, SweepGoEffect, OutsideInv
<1>6. ASSUME ~overlap' PROVE (Apart /\ Registrations /\ AllKept)'
  <2>1. Apart /\ Registrations /\ AllKept
    BY <1>2, <1>6 DEF Inv, LeakInv
  <2>2. \A c \in Asks : ~Flying(c)
    BY <1>1, <2>1 DEF Apart
  <2>3. \A e \in sweep.left : e[1] \in DOMAIN registry => registry[e[1]].name = e[2]
    BY <1>1, <2>1 DEF Registrations
  <2>4. ASSUME NEW n \in Names', Alive(n)'
        PROVE  n \in excused' \/ \E k \in DOMAIN registry : registry[k].name = n
    <3>1. n \in Names /\ Alive(n) /\ (n = sweep.name => n \in excused')
      BY <1>4, <2>4 DEF Names
    <3> QED
      BY <1>4, <2>1, <2>2, <3>1 DEF AllKept, Kept, Flying, InFlight
  <2> QED
    BY <1>1, <1>2, <2>2, <2>3, <2>4, SweepGoLeaks
<1> QED
  BY <1>5, <1>6 DEF Inv, LeakInv

LEMMA ServiceInv == ASSUME Inv, Tick \/ \E n \in Names : Evicts(n) PROVE Inv'
<1> USE GeminiConstants
<1>1. TypeInv /\ server \in Seq(Made) /\ clock \in 0..MaxClock
  BY DEF Inv, TypeInv
<1>2. /\ UNCHANGED <<registry, negative, ask, sweep, overlap, excused>>
      /\ clock' \in 0..MaxClock /\ clock <= clock'
      /\ server' \in Seq(Made) /\ Len(server') = Len(server) /\ Extends(server, server')
      /\ \A n \in Names : Alive(n)' => Alive(n)
  <2>1. CASE Tick
    <3>1. UNCHANGED server /\ clock' = clock + 1 /\ clock < MaxClock
      BY <2>1 DEF Tick
    <3>2. \A n \in Names : server[n] \in Made
      BY <1>1 DEF Names
    <3>3. \A n \in Names : Alive(n)' => Alive(n)
      BY <1>1, <3>1, <3>2 DEF Names, Alive, Made
    <3> QED
      BY <1>1, <2>1, <3>1, <3>3, Reflexive DEF Tick
  <2>2. ASSUME NEW n \in Names, Evicts(n)
        PROVE  /\ UNCHANGED <<clock, registry, negative, ask, sweep, overlap, excused>>
               /\ server' \in Seq(Made) /\ Len(server') = Len(server) /\ Extends(server, server')
               /\ \A i \in Names : Alive(i)' => Alive(i)
    <3>1. /\ server' = Dropped(server, n)
          /\ UNCHANGED <<clock, registry, negative, ask, sweep, overlap, excused>>
      BY <2>2 DEF Evicts
    <3>2. /\ server' \in Seq(Made) /\ Len(server') = Len(server) /\ Extends(server, server')
          /\ \A i \in 1..Len(server) : i # n => server'[i] = server[i]
          /\ n \in 1..Len(server) => server'[n].dies = 0
      BY <1>1, <3>1, Deleted
    <3> QED
      BY <1>1, <3>1, <3>2 DEF Names, Alive
  <2> QED
    BY <1>1, <2>1, <2>2
<1>3. sweep.pc \in {"idle", "deleting", "over"} /\ overlap \in BOOLEAN
  BY <1>1 DEF TypeInv
<1>4. TypeInv' /\ BudgetInv' /\ PromptInv' /\ HonestInv'
  BY <1>2, <1>3, OutsideInv
<1>5. LeakInv'
  <2> SUFFICES ASSUME ~overlap PROVE (Apart /\ Registrations /\ AllKept)'
    BY <1>2 DEF LeakInv
  <2>1. Apart /\ Registrations /\ AllKept
    BY DEF Inv, LeakInv
  <2>2. Apart' /\ Registrations'
    BY <1>2, <2>1 DEF Apart, Registrations, Flying
  <2>3. \A n : Kept(n) => Kept(n)'
    BY <1>2 DEF Kept
  <2>4. AllKept'
    BY <1>2, <2>1, <2>3 DEF AllKept, Names
  <2> QED
    BY <2>2, <2>4
<1> QED
  BY <1>4, <1>5 DEF Inv

LEMMA StutterInv == ASSUME Inv, UNCHANGED geminiVars PROVE Inv'
BY DEF geminiVars, Inv, TypeInv, BudgetInv, PromptInv, HonestInv, LeakInv, Apart, Registrations,
   AllKept, Kept, Names, Alive, Flying

LEMMA NextInv == Inv /\ [GeminiNext]_geminiVars => Inv'
<1> SUFFICES ASSUME Inv, [GeminiNext]_geminiVars PROVE Inv'
  OBVIOUS
<1>1. ASSUME NEW c \in Asks, NEW k \in CacheKeys, NEW t \in PromptsOf[c],
             AskReuse(c, k, t) \/ AskUncached(c, k, t) \/ AskCreate(c, k, t)
      PROVE  Inv'
  BY <1>1, AskInv
<1>2. ASSUME NEW c \in Asks, Progress(c) PROVE Inv'
  BY <1>2, ServerCreatesInv, CreateReturnsInv, CreateFailsInv, EndsInv, RefuseInv, WakeInv
     DEF Progress
<1>3. CASE UNCHANGED geminiVars
  BY <1>3, StutterInv
<1> QED
  BY <1>1, <1>2, <1>3, SweepBeginsInv, SweepDeletedInv, ServiceInv DEF GeminiNext

-----------------------------------------------------------------------------
(* The theorems.                                                            *)

THEOREM Invariance == GeminiSpec => []Inv
<1> QED
  BY InitInv, NextInv, PTL DEF GeminiSpec

\* A call that returns is answered under its own system prompt, whatever other
\* calls, expiry, eviction, replacement and sweeps did to the cache of its key
\* (GeminiProvider.ts:296).
THEOREM AnsweredUnderOwnPrompt == GeminiSpec => []OwnPrompt
<1>1. Inv => OwnPrompt
  BY DEF Inv, PromptInv, Faithful, OwnPrompt
<1> QED
  BY <1>1, Invariance, PTL

\* A refused cache costs a call one request and none of its retries
\* (GeminiProvider.ts:332-343).
THEOREM RetriesKept == GeminiSpec => []BudgetKept
<1>1. Inv => BudgetKept
  BY DEF Inv, BudgetInv, Thrifty, BudgetKept
<1> QED
  BY <1>1, Invariance, PTL

\* Every entry names a cache of its own key and prompt that outlives it, and a cache
\* that is paid for is registered or given up for a cause as long as no calls meet on
\* a key and no sweep meets a call (GeminiProvider.ts:214-218, 393-434).
THEOREM RegistryNeverLies == GeminiSpec => []RegistrySound
<1>1. Inv => GeminiTypeOK
  <2> SUFFICES ASSUME Inv PROVE GeminiTypeOK
    OBVIOUS
  <2>1. ASSUME NEW k \in DOMAIN registry
        PROVE  registry[k] \in [name: Names, text: Prompts, until: -Margin..(MaxClock + Ttl)]
    BY DEF Inv, TypeInv, Entry
  <2>2. ASSUME NEW n \in Names
        PROVE  server[n] \in [key: CacheKeys, text: Prompts, born: 0..MaxClock, dies: 0..(MaxClock + Ttl)]
    <3>1. server \in Seq(Made) /\ n \in 1..Len(server)
      BY DEF Inv, TypeInv, Names
    <3> QED
      BY <3>1, ElementOfSeq DEF Made
  <2>3. ASSUME NEW c \in Asks
        PROVE  /\ ask[c].pc \in InFlight \cup {"idle", "done", "failed"}
               /\ ask[c].using \in Names \cup {NoCache}
               /\ ask[c].reply \in Prompts \cup {"none"}
    <3>1. ask[c] \in Calls /\ ask[c].using \in 0..Len(server) /\ Len(server) \in Nat
      BY DEF Inv, TypeInv, CallTyped, PromptInv, Faithful
    <3>2. ask[c].using \in 1..Len(server) \cup {0}
      BY <3>1
    <3> QED
      BY <3>1, <3>2 DEF Calls, Names, NoCache
  <2> QED
    BY <2>1, <2>2, <2>3 DEF Inv, TypeInv, GeminiTypeOK
<1>2. Inv => RegistryHonest
  BY DEF Inv, HonestInv, Honest, RegistryHonest
<1>3. Inv => NothingLeaked
  BY DEF Inv, LeakInv, AllKept, Kept, NothingLeaked, Flying, InFlight
<1> QED
  BY <1>1, <1>2, <1>3, Invariance, PTL DEF RegistrySound


-----------------------------------------------------------------------------
(* The slice driver.                                                       *)

Busy(w) == worker[w].pc # "idle"
Before == {"profile", "facts", "retrieving"}
Owing == Before \cup {"appending"}
Has(w, q) == Busy(w) /\ worker[w].q = q
Waits(q) == \E i \in todo : Selected[i] = q
LostRow == {q \in Queried : \E n \in 0..MaxStarts : <<starts, <<"rows", q, n>>>> \in joined}
DocsJoined(q, n) == \E s \in 1..starts : <<s, <<"docs", q, n>>>> \in joined
DocsLast(q, n) == n \in LinesOf("docs", q) /\ \A m \in LinesOf("docs", q) : m <= n
Files == {"docs", "rows"}
LineType == Files \X Queried \X (0..MaxStarts)

\* What is written of the files: a line without its newline is the last of its file,
\* and what is read came from a retrieval that was made.
FileInv ==
    /\ saved \subseteq LineType /\ loose \subseteq saved /\ ragged \subseteq Files
    /\ joined \subseteq (1..starts) \X LineType
    /\ \A l \in loose : l[1] \in ragged
    /\ \A k, l \in loose : k[1] = l[1] => k = l
    /\ \A l \in saved : l[3] <= tried[l[2]]
    /\ \A q \in Queried : \A m, n \in LinesOf("rows", q) : m = n

SliceTypes ==
    /\ todo \subseteq DOMAIN Selected
    /\ memo \in [Builders -> [Units -> {"unset", "building", "text", "none"}]]
    /\ worker \in [SliceWorkers -> [pc: Before \cup {"idle", "appending", "dead"}, q: Queried]]
    /\ chain \in Seq(Queried) /\ half \in BOOLEAN
    /\ starts \in 1..MaxStarts
    /\ tried \in [Queried -> 0..MaxStarts]
    /\ begun \in [Builders -> [Units -> 0..1]]

\* A query without a row is in one place, and this start has not retrieved for
\* it before it is there.
Places ==
    /\ \A i \in todo : ~HasRow(Selected[i]) /\ tried[Selected[i]] < starts
    /\ \A i \in todo : \A w \in SliceWorkers : ~Has(w, Selected[i])
    /\ SliceRunning => \A w \in SliceWorkers : worker[w].pc \in Owing => ~HasRow(worker[w].q)
    /\ \A w \in SliceWorkers : worker[w].pc \in Before => tried[worker[w].q] < starts
    /\ \A v, w \in SliceWorkers : Busy(w) /\ Has(v, worker[w].q) => v = w
    /\ \A q \in Queried : tried[q] <= starts

\* The chain holds the queries of workers that wait for it, each once.  Behind its
\* head are the documents that the head's row will refer to.
Chained ==
    /\ \A i, j \in DOMAIN chain : chain[i] = chain[j] => i = j
    /\ \A i \in DOMAIN chain : \E w \in SliceWorkers : worker[w].pc = "appending" /\ worker[w].q = chain[i]
    /\ SliceRunning /\ half =>
          chain # << >> /\ (DocsLast(chain[1], tried[chain[1]]) \/ DocsJoined(chain[1], tried[chain[1]]))

\* Two rows at most become one line in a start that goes on: the first that is
\* appended and the one before it.
OneLost ==
    act \in {"running", "summarised"} =>
        /\ \E p, q \in Queried : LostRow \subseteq {p, q}
        /\ "rows" \in ragged => LostRow = {}

Covered ==
    /\ act \in {"running", "summarised"} =>
          \A q \in Queried : \/ Waits(q) \/ \E w \in SliceWorkers : Has(w, q)
                             \/ HasRow(q) \/ q \in LostRow \/ Skipped(q)
    /\ act = "summarised" => todo = {} /\ \A w \in SliceWorkers : ~Busy(w)

DocsInv == \A q \in Synth : \A n \in LinesOf("rows", q) : DocsLast(q, n) \/ DocsJoined(q, n)
BuildsInv == \A b \in Builders, u \in Units : begun[b][u] = IF memo[b][u] = "unset" THEN 0 ELSE 1

SliceInv ==
    /\ SliceTypes /\ FileInv /\ Places /\ Chained /\ OneLost /\ Covered /\ DocsInv /\ BuildsInv

Pcs == Before \cup {"idle", "appending", "dead"}
WorkerType == [SliceWorkers -> [pc: Pcs, q: Queried]]

LEMMA SelectedFacts ==
  /\ \A i \in DOMAIN Selected : Selected[i] \in Queried
  /\ \A i, j \in DOMAIN Selected : Selected[i] = Selected[j] => i = j
  /\ \A q \in Queried : \E i \in DOMAIN Selected : Selected[i] = q
  /\ OffDuty \in [pc: Pcs, q: Queried] /\ OffDuty.pc = "idle"
<1>1. \A i \in DOMAIN Selected : Selected[i] \in Queried
  BY DEF Queried, ToSet
<1>2. \A q \in Queried : \E i \in DOMAIN Selected : Selected[i] = q
  BY DEF Queried, ToSet
<1>3. 1 \in DOMAIN Selected
  BY SliceConstants
<1>4. OffDuty \in [pc: Pcs, q: Queried] /\ OffDuty.pc = "idle"
  BY <1>1, <1>3 DEF OffDuty, Pcs
<1> QED BY <1>1, <1>2, <1>4, SliceConstants

LEMMA GoesMoves ==
  ASSUME SliceTypes, NEW w \in SliceWorkers, NEW p \in Pcs, Goes(w, p)
  PROVE  /\ worker' \in WorkerType
         /\ worker'[w].pc = p /\ worker'[w].q = worker[w].q
         /\ \A v \in SliceWorkers : v # w => worker'[v] = worker[v]
BY DEF SliceTypes, Goes, WorkerType, Pcs

LEMMA BuildKeeps ==
  ASSUME SliceTypes, BuildsInv, NEW b \in Builders, NEW u \in Units, BuildText(b, u)
  PROVE  /\ memo' \in [Builders -> [Units -> {"unset", "building", "text", "none"}]]
         /\ begun' \in [Builders -> [Units -> 0..1]]
         /\ BuildsInv'
<1>1. /\ memo' \in [Builders -> [Units -> {"unset", "building", "text", "none"}]]
      /\ memo'[b][u] = IF memo[b][u] = "unset" THEN "building" ELSE memo[b][u]
      /\ \A c \in Builders, v \in Units : c # b \/ v # u => memo'[c][v] = memo[c][v]
  BY DEF SliceTypes, BuildText
<1>2. begun[b][u] = (IF memo[b][u] = "unset" THEN 0 ELSE 1) /\ begun[b][u] \in 0..1
  BY DEF BuildsInv, SliceTypes
<1>3. /\ begun' \in [Builders -> [Units -> 0..1]]
      /\ begun'[b][u] = IF memo[b][u] = "unset" THEN 1 ELSE begun[b][u]
      /\ \A c \in Builders, v \in Units : c # b \/ v # u => begun'[c][v] = begun[c][v]
  BY <1>2 DEF SliceTypes, BuildText
<1>4. ASSUME NEW c \in Builders, NEW v \in Units
      PROVE  begun'[c][v] = IF memo'[c][v] = "unset" THEN 0 ELSE 1
  <2>1. CASE c = b /\ v = u
    BY <1>1, <1>2, <1>3, <2>1
  <2>2. CASE c # b \/ v # u
    <3>1. begun[c][v] = IF memo[c][v] = "unset" THEN 0 ELSE 1
      BY DEF BuildsInv
    <3> QED BY <1>1, <1>3, <2>2, <3>1
  <2> QED BY <2>1, <2>2
<1> QED BY <1>1, <1>3, <1>4 DEF BuildsInv

\* Files nobody writes to say the same.
LEMMA FilesStay ==
  ASSUME UNCHANGED files, starts' = starts
  PROVE  /\ \A f, q : LinesOf(f, q)' = LinesOf(f, q)
         /\ \A q : HasRow(q)' <=> HasRow(q)
         /\ LostRow' = LostRow /\ ragged' = ragged /\ joined' = joined
         /\ \A q, n : (DocsLast(q, n)' <=> DocsLast(q, n)) /\ (DocsJoined(q, n)' <=> DocsJoined(q, n))
<1>1. saved' = saved /\ joined' = joined /\ ragged' = ragged
  BY DEF files
<1>2. \A f, q : LinesOf(f, q)' = LinesOf(f, q)
  BY <1>1 DEF LinesOf
<1>3. \A q, n : (DocsLast(q, n)' <=> DocsLast(q, n)) /\ (DocsJoined(q, n)' <=> DocsJoined(q, n))
  BY <1>1, <1>2 DEF DocsLast, DocsJoined
<1> QED BY <1>1, <1>2, <1>3 DEF HasRow, LostRow

LEMMA FilesStayTrue ==
  ASSUME FileInv, SliceTypes, UNCHANGED files, starts' = starts, tried' \in [Queried -> 0..MaxStarts],
         \A q \in Queried : tried[q] <= tried'[q]
  PROVE  FileInv'
<1>1. /\ saved' = saved /\ loose' = loose /\ joined' = joined /\ ragged' = ragged
      /\ \A f, q : LinesOf(f, q)' = LinesOf(f, q)
  BY FilesStay DEF files
<1>2. ASSUME NEW l \in saved PROVE l[3] <= tried'[l[2]]
  <2>1. l[2] \in Queried /\ l[3] \in 0..MaxStarts /\ l[3] <= tried[l[2]]
    BY DEF FileInv, LineType
  <2>2. tried[l[2]] \in Int /\ tried'[l[2]] \in Int /\ tried[l[2]] <= tried'[l[2]] /\ l[3] \in Int
    BY <2>1 DEF SliceTypes
  <2> QED BY <2>1, <2>2
<1> QED BY <1>1, <1>2 DEF FileInv

\* One append, whole or cut short: what it adds to the files and what it costs them.
LEMMA PutKeeps ==
  ASSUME FileInv, SliceTypes, NEW f \in Files, NEW q \in Queried, NEW how, AppendFile(f, q, how),
         f = "rows" => ~HasRow(q), UNCHANGED <<starts, tried>>
  PROVE  FileInv'
<1> DEFINE line == <<f, q, tried[q]>>
           gone == {l \in loose : l[1] = f}
<1>1. /\ saved' \subseteq (saved \ gone) \cup {line} /\ loose' \subseteq (loose \ gone) \cup {line}
      /\ line \in loose' => how = "bare" \/ line \in loose \ gone
      /\ loose' \subseteq saved'
      /\ ragged' = IF how = "whole" THEN ragged \ {f} ELSE ragged \cup {f}
      /\ joined' \subseteq joined \cup ({starts} \X (gone \cup {line}))
  BY DEF AppendFile, FileInv
<1>2. line \in LineType /\ line[1] = f /\ line[2] = q /\ line[3] = tried[q]
  BY DEF LineType, SliceTypes
<1>3. saved' \subseteq LineType /\ ragged' \subseteq Files
  BY <1>1, <1>2 DEF FileInv
<1>4. joined' \subseteq (1..starts') \X LineType
  <2>1. gone \subseteq LineType /\ starts \in 1..starts
    BY DEF FileInv, SliceTypes
  <2> QED BY <1>1, <1>2, <2>1 DEF FileInv
<1>5. ASSUME NEW l \in loose' PROVE l[1] \in ragged'
  <2>1. CASE l \in loose \ gone
    <3>1. l[1] \in ragged /\ l[1] # f
      BY <2>1 DEF FileInv
    <3> QED BY <1>1, <3>1
  <2>2. CASE l = line /\ how = "bare"
    BY <1>1, <1>2, <2>2
  <2> QED BY <1>1, <2>1, <2>2
<1>6. ASSUME NEW k \in loose', NEW l \in loose', k[1] = l[1] PROVE k = l
  <2>1. \A m \in loose \ gone : m[1] # f
    OBVIOUS
  <2> QED BY <1>1, <1>2, <1>6, <2>1 DEF FileInv
<1>7. ASSUME NEW l \in saved' PROVE l[3] <= tried'[l[2]]
  <2>1. CASE l = line
    BY <1>2, <2>1 DEF SliceTypes
  <2>2. CASE l \in saved
    BY <2>2 DEF FileInv
  <2> QED BY <1>1, <2>1, <2>2
<1>8. ASSUME NEW p \in Queried, NEW m \in LinesOf("rows", p)', NEW n \in LinesOf("rows", p)' PROVE m = n
  <2>1. <<"rows", p, m>> \in saved' /\ <<"rows", p, n>> \in saved' /\ m \in 0..MaxStarts /\ n \in 0..MaxStarts
    BY <1>8 DEF LinesOf
  <2>2. CASE f = "rows" /\ p = q
    <3>1. \A r \in 0..MaxStarts : <<"rows", p, r>> \notin saved
      BY <2>2 DEF HasRow, LinesOf
    <3> QED BY <1>1, <2>1, <3>1
  <2>3. CASE ~(f = "rows" /\ p = q)
    <3>1. m \in LinesOf("rows", p) /\ n \in LinesOf("rows", p)
      BY <1>1, <2>1, <2>3 DEF LinesOf
    <3> QED BY <3>1 DEF FileInv
  <2> QED BY <2>2, <2>3
<1> QED BY <1>1, <1>3, <1>4, <1>5, <1>6, <1>7, <1>8 DEF FileInv

\* It adds one line and takes away none that is not part of another now.
LEMMA PutChanges ==
  ASSUME FileInv, SliceTypes, NEW f \in Files, NEW q \in Queried, NEW how, AppendFile(f, q, how),
         UNCHANGED <<starts, tried>>
  PROVE  /\ \A g, p, n : n \in LinesOf(g, p)' => n \in LinesOf(g, p) \/ (g = f /\ p = q /\ n = tried[q])
         /\ \A g, p, n : n \in LinesOf(g, p) => n \in LinesOf(g, p)' \/ (g = f /\ <<starts, <<g, p, n>>>> \in joined')
         /\ how # "torn" => tried[q] \in LinesOf(f, q)' \/ <<starts, <<f, q, tried[q]>>>> \in joined'
         /\ joined \subseteq joined'
         /\ \A p, n : DocsJoined(p, n) => DocsJoined(p, n)'
         /\ \A p, n : <<starts, <<"docs", p, n>>>> \in joined' => DocsJoined(p, n)'
<1> DEFINE line == <<f, q, tried[q]>>
           gone == {l \in loose : l[1] = f}
<1>1. /\ saved' \subseteq (saved \ gone) \cup {line} /\ saved \ gone \subseteq saved'
      /\ joined \subseteq joined'
      /\ f \in ragged => joined' = joined \cup ({starts} \X (gone \cup {line}))
      /\ f \notin ragged => gone = {} /\ (how # "torn" => line \in saved')
  BY DEF AppendFile, FileInv
<1>2. starts \in 1..starts /\ tried[q] \in 0..MaxStarts
  BY DEF SliceTypes
<1>3. ASSUME NEW g, NEW p, NEW n, n \in LinesOf(g, p)'
      PROVE  n \in LinesOf(g, p) \/ (g = f /\ p = q /\ n = tried[q])
  BY <1>1, <1>3 DEF LinesOf
<1>4. ASSUME NEW g, NEW p, NEW n, n \in LinesOf(g, p)
      PROVE  n \in LinesOf(g, p)' \/ (g = f /\ <<starts, <<g, p, n>>>> \in joined')
  <2>1. <<g, p, n>> \in saved /\ n \in 0..MaxStarts
    BY <1>4 DEF LinesOf
  <2>2. CASE <<g, p, n>> \in gone
    BY <1>1, <2>2
  <2>3. CASE <<g, p, n>> \notin gone
    BY <1>1, <2>1, <2>3 DEF LinesOf
  <2> QED BY <2>2, <2>3
<1>5. how # "torn" => tried[q] \in LinesOf(f, q)' \/ <<starts, line>> \in joined'
  BY <1>1, <1>2 DEF LinesOf
<1>6. \A p, n : DocsJoined(p, n) => DocsJoined(p, n)'
  BY <1>1 DEF DocsJoined
<1>7. \A p, n : <<starts, <<"docs", p, n>>>> \in joined' => DocsJoined(p, n)'
  BY <1>2 DEF DocsJoined
<1> QED BY <1>1, <1>3, <1>4, <1>5, <1>6, <1>7

\* A row that found its documents finds them still, or they are part of another line.
LEMMA DocsStay ==
  ASSUME FileInv, SliceTypes, NEW f \in Files, NEW q \in Queried, NEW how, AppendFile(f, q, how),
         UNCHANGED <<starts, tried>>, NEW p, NEW n, f = "rows" \/ p # q, DocsLast(p, n) \/ DocsJoined(p, n)
  PROVE  DocsLast(p, n)' \/ DocsJoined(p, n)'
<1>1. /\ \A m : m \in LinesOf("docs", p)' => m \in LinesOf("docs", p)
      /\ n \in LinesOf("docs", p) => n \in LinesOf("docs", p)' \/ DocsJoined(p, n)'
      /\ DocsJoined(p, n) => DocsJoined(p, n)'
  <2>1. /\ \A g, r, m : m \in LinesOf(g, r)' => m \in LinesOf(g, r) \/ (g = f /\ r = q /\ m = tried[q])
        /\ \A g, r, m : m \in LinesOf(g, r) => m \in LinesOf(g, r)' \/ (g = f /\ <<starts, <<g, r, m>>>> \in joined')
        /\ \A r, m : DocsJoined(r, m) => DocsJoined(r, m)'
        /\ \A r, m : <<starts, <<"docs", r, m>>>> \in joined' => DocsJoined(r, m)'
    BY PutChanges, Zenon
  <2>2. ASSUME NEW m, m \in LinesOf("docs", p)' PROVE m \in LinesOf("docs", p)
    <3>1. m \in LinesOf("docs", p) \/ ("docs" = f /\ p = q /\ m = tried[q])
      BY <2>1, <2>2
    <3> QED BY <3>1
  <2>3. n \in LinesOf("docs", p) => n \in LinesOf("docs", p)' \/ DocsJoined(p, n)'
    BY <2>1, Zenon
  <2> QED BY <2>1, <2>2, <2>3
<1> QED BY <1>1 DEF DocsLast

\* What it makes of the rows this start has lost.
LEMMA PutLoses ==
  ASSUME FileInv, SliceTypes, NEW f \in Files, NEW q \in Queried, NEW how, AppendFile(f, q, how),
         UNCHANGED <<starts, tried>>
  PROVE  /\ f \notin ragged => LostRow' = LostRow
         /\ f = "docs" => LostRow' = LostRow
         /\ LostRow \subseteq LostRow'
         /\ \E p \in Queried : LostRow' \subseteq LostRow \cup {p, q}
         /\ \A p \in Queried : f = "rows" /\ (\E n \in 0..MaxStarts : <<starts, <<"rows", p, n>>>> \in joined') => p \in LostRow'
<1> DEFINE line == <<f, q, tried[q]>>
           gone == {l \in loose : l[1] = f}
<1>1. /\ joined \subseteq joined' /\ (f \notin ragged => joined' = joined)
      /\ joined' \subseteq joined \cup ({starts} \X (gone \cup {line}))
  BY DEF AppendFile
<1>2. f \notin ragged => LostRow' = LostRow
  BY <1>1 DEF LostRow
<1>3. LostRow \subseteq LostRow'
  BY <1>1 DEF LostRow
<1>4. ASSUME f = "docs" PROVE LostRow' = LostRow
  <2>1. \A p, n : <<"rows", p, n>> \notin gone \cup {line}
    BY <1>4
  <2>2. \A p, n : <<starts, <<"rows", p, n>>>> \in joined' => <<starts, <<"rows", p, n>>>> \in joined
    BY <1>1, <2>1
  <2> QED BY <1>3, <2>2 DEF LostRow
<1>5. \E p \in Queried : LostRow' \subseteq LostRow \cup {p, q}
  <2>1. \E p \in Queried : \A l \in gone : l[2] = p
    <3>1. CASE gone = {}
      BY <3>1
    <3>2. CASE gone # {}
      <4>1. PICK k \in gone : TRUE
        BY <3>2
      <4>2. k[2] \in Queried /\ \A l \in gone : l = k
        BY DEF FileInv, LineType
      <4> QED BY <4>2
    <3> QED BY <3>1, <3>2
  <2>2. PICK p \in Queried : \A l \in gone : l[2] = p
    BY <2>1
  <2>3. ASSUME NEW r \in LostRow' PROVE r \in LostRow \/ r = p \/ r = q
    <3>1. PICK n \in 0..MaxStarts : <<starts, <<"rows", r, n>>>> \in joined'
      BY <2>3 DEF LostRow
    <3>2. CASE <<starts, <<"rows", r, n>>>> \in joined
      BY <2>3, <3>2 DEF LostRow
    <3>3. CASE <<"rows", r, n>> \in gone \cup {line}
      BY <2>2, <3>3
    <3> QED BY <1>1, <3>1, <3>2, <3>3
  <2> QED BY <2>3
<1>6. \A p \in Queried : (\E n \in 0..MaxStarts : <<starts, <<"rows", p, n>>>> \in joined') => p \in LostRow'
  BY DEF LostRow
<1> QED BY <1>2, <1>3, <1>4, <1>5, <1>6

\* What all actions but a few leave alone.
kept == <<files, todo, chain, half, poisoned, act, starts, tried>>

\* A worker that goes on before its append disturbs nothing but the builds.
LEMMA GoesOn ==
  ASSUME SliceInv, UNCHANGED kept, worker' \in WorkerType,
         memo' \in [Builders -> [Units -> {"unset", "building", "text", "none"}]],
         begun' \in [Builders -> [Units -> 0..1]], BuildsInv',
         \A v \in SliceWorkers :
            /\ worker'[v].q = worker[v].q
            /\ worker'[v].pc = worker[v].pc \/ (worker[v].pc \in Before /\ worker'[v].pc \in Before)
  PROVE  SliceInv'
<1>0. /\ UNCHANGED <<files, todo, chain, half, poisoned, act, starts, tried>>
      /\ \A q : HasRow(q)' <=> HasRow(q)
      /\ LostRow' = LostRow /\ ragged' = ragged
      /\ \A q, n : (DocsLast(q, n)' <=> DocsLast(q, n)) /\ (DocsJoined(q, n)' <=> DocsJoined(q, n))
      /\ \A q : LinesOf("rows", q)' = LinesOf("rows", q)
  BY FilesStay DEF kept
<1>1. SliceTypes' /\ FileInv'
  <2>1. SliceTypes'
    BY <1>0 DEF SliceInv, SliceTypes, WorkerType, Pcs
  <2>2. tried' \in [Queried -> 0..MaxStarts] /\ \A q \in Queried : tried[q] <= tried'[q]
    BY <1>0 DEF SliceInv, SliceTypes
  <2> QED BY <1>0, <2>1, <2>2, FilesStayTrue DEF SliceInv
<1>2. \A v \in SliceWorkers : Busy(v)' <=> Busy(v)
  BY DEF Busy, Before
<1>3. \A v \in SliceWorkers : \A q : Has(v, q)' <=> Has(v, q)
  BY <1>2 DEF Has
<1>4. Places'
  <2>1. \A v \in SliceWorkers : worker'[v].pc \in Owing => worker[v].pc \in Owing
    BY DEF Owing, Before
  <2> QED BY <1>0, <1>2, <1>3, <2>1 DEF SliceInv, Places, SliceRunning
<1>5. Chained'
  <2>1. \A v \in SliceWorkers :
           worker[v].pc = "appending" => worker'[v].pc = "appending" /\ worker'[v].q = worker[v].q
    BY DEF Before
  <2> QED BY <1>0, <2>1 DEF SliceInv, Chained, SliceRunning
<1>6. OneLost' /\ DocsInv'
  BY <1>0 DEF SliceInv, OneLost, DocsInv, SliceRunning
<1>7. Covered'
  BY <1>0, <1>2, <1>3 DEF SliceInv, Covered, Waits
<1> QED BY <1>1, <1>4, <1>5, <1>6, <1>7 DEF SliceInv

LEMMA SettleKeeps == ASSUME SliceInv, NEW b \in Builders, NEW u \in Units, Settle(b, u) PROVE SliceInv'
<1>1. UNCHANGED <<kept, worker, begun>> /\ memo[b][u] = "building"
  BY DEF Settle, kept
<1>2. PICK x \in {"text", "none"} : memo' = [memo EXCEPT ![b][u] = x]
  BY DEF Settle
<1>3. worker' \in WorkerType /\ begun' \in [Builders -> [Units -> 0..1]]
  BY <1>1 DEF SliceInv, SliceTypes, WorkerType, Pcs
<1>4. /\ memo' \in [Builders -> [Units -> {"unset", "building", "text", "none"}]]
      /\ memo'[b][u] = x
      /\ \A c \in Builders, v \in Units : c # b \/ v # u => memo'[c][v] = memo[c][v]
  BY <1>2 DEF SliceInv, SliceTypes
<1>5. BuildsInv'
  <2>1. \A c \in Builders, v \in Units : memo'[c][v] = "unset" <=> memo[c][v] = "unset"
    BY <1>1, <1>4
  <2> QED BY <1>1, <2>1 DEF SliceInv, BuildsInv
<1> QED BY <1>1, <1>3, <1>4, <1>5, GoesOn DEF kept

LEMMA ProfileKeeps == ASSUME SliceInv, NEW w \in SliceWorkers, HasProfile(w) PROVE SliceInv'
<1>1. UNCHANGED kept /\ worker[w].pc = "profile" /\ BuildText("facts", UnitOf[worker[w].q]) /\ Goes(w, "facts")
  BY DEF HasProfile, kept
<1>2. SliceTypes /\ BuildsInv /\ UnitOf[worker[w].q] \in Units
  BY DEF SliceInv, SliceTypes, Units
<1>3. /\ memo' \in [Builders -> [Units -> {"unset", "building", "text", "none"}]]
      /\ begun' \in [Builders -> [Units -> 0..1]] /\ BuildsInv'
  BY <1>1, <1>2, BuildKeeps DEF Builders
<1>4. /\ worker' \in WorkerType /\ worker'[w].pc = "facts" /\ worker'[w].q = worker[w].q
      /\ \A v \in SliceWorkers : v # w => worker'[v] = worker[v]
  BY <1>1, <1>2, GoesMoves DEF Pcs, Before
<1>5. ASSUME NEW v \in SliceWorkers
      PROVE  /\ worker'[v].q = worker[v].q
             /\ worker'[v].pc = worker[v].pc \/ (worker[v].pc \in Before /\ worker'[v].pc \in Before)
  BY <1>1, <1>4 DEF Before
<1> QED BY <1>1, <1>3, <1>4, <1>5, GoesOn

LEMMA FactsKeeps == ASSUME SliceInv, NEW w \in SliceWorkers, HasFacts(w) PROVE SliceInv'
<1>1. UNCHANGED <<kept, memo, begun>> /\ worker[w].pc = "facts" /\ Goes(w, "retrieving")
  BY DEF HasFacts, kept
<1>2. SliceTypes /\ BuildsInv
  BY DEF SliceInv
<1>3. /\ memo' \in [Builders -> [Units -> {"unset", "building", "text", "none"}]]
      /\ begun' \in [Builders -> [Units -> 0..1]] /\ BuildsInv'
  BY <1>1, <1>2 DEF SliceTypes, BuildsInv
<1>4. /\ worker' \in WorkerType /\ worker'[w].pc = "retrieving" /\ worker'[w].q = worker[w].q
      /\ \A v \in SliceWorkers : v # w => worker'[v] = worker[v]
  BY <1>1, <1>2, GoesMoves DEF Pcs, Before
<1>5. ASSUME NEW v \in SliceWorkers
      PROVE  /\ worker'[v].q = worker[v].q
             /\ worker'[v].pc = worker[v].pc \/ (worker[v].pc \in Before /\ worker'[v].pc \in Before)
  BY <1>1, <1>4 DEF Before
<1> QED BY <1>1, <1>3, <1>4, <1>5, GoesOn

LEMMA ClaimKeeps == ASSUME SliceInv, NEW w \in SliceWorkers, Claim(w) PROVE SliceInv'
<1>1. PICK i \in todo :
        /\ todo' = todo \ {i}
        /\ worker' = [worker EXCEPT ![w] = [pc |-> "profile", q |-> Selected[i]]]
        /\ BuildText("profile", UnitOf[Selected[i]])
  BY DEF Claim
<1>2. /\ UNCHANGED <<files, chain, half, poisoned, act, starts, tried>>
      /\ worker[w].pc = "idle" /\ SliceRunning
  BY DEF Claim, SliceRunning
<1>0. /\ \A p : HasRow(p)' <=> HasRow(p)
      /\ LostRow' = LostRow /\ ragged' = ragged
      /\ \A p, n : (DocsLast(p, n)' <=> DocsLast(p, n)) /\ (DocsJoined(p, n)' <=> DocsJoined(p, n))
      /\ \A p : LinesOf("rows", p)' = LinesOf("rows", p)
  BY <1>2, FilesStay
<1>3. SliceTypes /\ BuildsInv /\ Places /\ worker \in WorkerType /\ todo \subseteq DOMAIN Selected
  BY DEF SliceInv, SliceTypes, WorkerType, Pcs
<1> PICK q \in Queried : q = Selected[i]
  BY <1>3, SelectedFacts
<1>4. /\ worker' \in WorkerType /\ worker'[w] = [pc |-> "profile", q |-> q]
      /\ \A v \in SliceWorkers : v # w => worker'[v] = worker[v]
  BY <1>1, <1>3 DEF WorkerType, Pcs, Before
<1>5. /\ memo' \in [Builders -> [Units -> {"unset", "building", "text", "none"}]]
      /\ begun' \in [Builders -> [Units -> 0..1]] /\ BuildsInv'
  BY <1>1, <1>3, BuildKeeps DEF Builders, Units
<1>6. SliceTypes' /\ FileInv'
  <2>1. SliceTypes'
    BY <1>1, <1>2, <1>3, <1>4, <1>5 DEF SliceTypes, WorkerType, Pcs
  <2>2. tried' \in [Queried -> 0..MaxStarts] /\ \A p \in Queried : tried[p] <= tried'[p]
    BY <1>2, <1>3 DEF SliceTypes
  <2> QED BY <1>2, <2>1, <2>2, FilesStayTrue DEF SliceInv
<1>7. \A j \in todo' : j # i /\ j \in todo /\ Selected[j] # q
  BY <1>1, <1>3, SelectedFacts
<1>8. ~HasRow(q) /\ tried[q] < starts /\ \A v \in SliceWorkers : ~Has(v, q)
  BY <1>3 DEF Places
<1>9. \A v \in SliceWorkers : \A p : Has(v, p)' <=> IF v = w THEN p = q ELSE Has(v, p)
  BY <1>4 DEF Has, Busy
<1>10. \A v \in SliceWorkers : v # w => worker'[v] = worker[v] /\ (Busy(v)' <=> Busy(v))
  BY <1>4 DEF Busy
<1>11. Places'
  <2>1. \A j \in todo' : ~HasRow(Selected[j])' /\ tried'[Selected[j]] < starts'
    BY <1>0, <1>2, <1>3, <1>7 DEF Places
  <2>2. \A j \in todo' : \A v \in SliceWorkers : ~Has(v, Selected[j])'
    BY <1>3, <1>7, <1>9 DEF Places
  <2>3. \A v \in SliceWorkers : worker'[v].pc \in Owing => ~HasRow(worker[v].q)'
    <3>1. ASSUME NEW v \in SliceWorkers, worker'[v].pc \in Owing PROVE ~HasRow(worker'[v].q)
      BY <1>2, <1>3, <1>4, <1>8, <3>1 DEF Places
    <3>2. \A p : ~HasRow(p) => ~HasRow(p)'
      BY <1>0
    <3> QED BY <1>2, <3>1 DEF HasRow, LinesOf, files
  <2>4. \A v \in SliceWorkers : worker'[v].pc \in Before => tried'[worker'[v].q] < starts'
    BY <1>2, <1>3, <1>4, <1>8 DEF Places
  <2>5. \A u, v \in SliceWorkers : Busy(v)' /\ Has(u, worker[v].q)' => u = v
    <3>1. ASSUME NEW u \in SliceWorkers, NEW v \in SliceWorkers, Busy(v)', Has(u, worker[v].q)', u # v
          PROVE  FALSE
      <4>1. worker'[u].q = worker'[v].q /\ Busy(u)'
        BY <3>1 DEF Has
      <4>2. CASE u # w /\ v # w
        BY <1>3, <1>10, <3>1, <4>1, <4>2 DEF Places, Has
      <4>3. CASE u = w
        BY <1>4, <1>8, <1>10, <3>1, <4>1, <4>3 DEF Has
      <4>4. CASE v = w
        BY <1>4, <1>8, <1>10, <3>1, <4>1, <4>4 DEF Has
      <4> QED BY <4>2, <4>3, <4>4
    <3> QED BY <3>1 DEF Has
  <2>6. \A p \in Queried : tried'[p] <= starts'
    BY <1>2, <1>3 DEF Places
  <2> QED BY <2>1, <2>2, <2>3, <2>4, <2>5, <2>6 DEF Places
<1>12. Chained'
  <2>1. \A v \in SliceWorkers : worker[v].pc = "appending" => worker'[v] = worker[v]
    BY <1>2, <1>4
  <2> QED BY <1>0, <1>2, <2>1 DEF SliceInv, Chained, SliceRunning
<1>13. OneLost' /\ DocsInv'
  BY <1>0, <1>2 DEF SliceInv, OneLost, DocsInv, SliceRunning
<1>14. Covered'
  <2>1. \A p \in Queried : Waits(p) => Waits(p)' \/ p = q
    BY <1>1 DEF Waits
  <2>2. \A p \in Queried : \A v \in SliceWorkers : Has(v, p) => Has(v, p)'
    BY <1>2, <1>9 DEF Has, Busy
  <2>3. Has(w, q)'
    BY <1>9
  <2>4. act' = act /\ act # "summarised"
    BY <1>2 DEF SliceRunning
  <2>5. ASSUME act = "running", NEW p \in Queried
        PROVE  Waits(p)' \/ (\E v \in SliceWorkers : Has(v, p)') \/ HasRow(p)' \/ p \in LostRow' \/ Skipped(p)
    <3>1. Waits(p) \/ (\E v \in SliceWorkers : Has(v, p)) \/ HasRow(p) \/ p \in LostRow \/ Skipped(p)
      BY <2>5 DEF SliceInv, Covered
    <3> QED BY <1>0, <2>1, <2>2, <2>3, <3>1
  <2> QED BY <2>4, <2>5 DEF Covered
<1> QED BY <1>5, <1>6, <1>11, <1>12, <1>13, <1>14 DEF SliceInv

\* A worker that stops, its query still without a row.
LEMMA FailsKeeps ==
  ASSUME SliceInv, SliceRunning, NEW w \in SliceWorkers, RetrieveFails(w)
  PROVE  SliceInv'
<1>1. /\ UNCHANGED <<files, todo, memo, chain, half, poisoned, starts, tried, begun>>
      /\ worker[w].pc = "retrieving" /\ Goes(w, "dead") /\ act' = "rejected"
  BY DEF RetrieveFails
<1>0. /\ \A p : HasRow(p)' <=> HasRow(p)
      /\ LostRow' = LostRow /\ ragged' = ragged
      /\ \A p, n : (DocsLast(p, n)' <=> DocsLast(p, n)) /\ (DocsJoined(p, n)' <=> DocsJoined(p, n))
      /\ \A p : LinesOf("rows", p)' = LinesOf("rows", p)
  BY <1>1, FilesStay
<1>2. SliceTypes /\ Places
  BY DEF SliceInv
<1>3. /\ worker' \in WorkerType /\ worker'[w].pc = "dead" /\ worker'[w].q = worker[w].q
      /\ \A v \in SliceWorkers : v # w => worker'[v] = worker[v]
  BY <1>1, <1>2, GoesMoves DEF Pcs
<1>4. SliceTypes' /\ FileInv'
  <2>1. SliceTypes'
    BY <1>1, <1>2, <1>3 DEF SliceTypes, WorkerType, Pcs
  <2>2. tried' \in [Queried -> 0..MaxStarts] /\ \A p \in Queried : tried[p] <= tried'[p]
    BY <1>1, <1>2 DEF SliceTypes
  <2> QED BY <1>1, <1>2, <2>1, <2>2, FilesStayTrue DEF SliceInv
<1>5. \A v \in SliceWorkers : /\ worker'[v].q = worker[v].q /\ (Busy(v)' <=> Busy(v))
                              /\ worker'[v].pc \in Before => worker[v].pc \in Before
                              /\ worker'[v].pc \in Owing => worker[v].pc \in Owing
                              /\ worker[v].pc = "appending" => worker'[v] = worker[v]
  BY <1>1, <1>3 DEF Busy, Before, Owing
<1>6. \A v \in SliceWorkers : \A q : Has(v, q)' <=> Has(v, q)
  BY <1>5 DEF Has
<1>7. Places'
  BY <1>0, <1>1, <1>2, <1>5, <1>6 DEF Places
<1>8. Chained'
  <2>1. \A v \in SliceWorkers : worker[v].pc = "appending" => worker'[v] = worker[v]
    BY <1>5
  <2>2. chain' = chain /\ half' = half /\ tried' = tried
    BY <1>1
  <2>3. Chained
    BY DEF SliceInv
  <2> QED BY <1>0, <2>1, <2>2, <2>3 DEF Chained
<1>9. OneLost'
  BY <1>0, <1>1 DEF SliceInv, OneLost, SliceRunning
<1>10. DocsInv' /\ BuildsInv' /\ Covered'
  BY <1>0, <1>1 DEF SliceInv, DocsInv, BuildsInv, Covered
<1> QED BY <1>4, <1>7, <1>8, <1>9, <1>10 DEF SliceInv

\* A retrieval ends: its append is chained, or the worker stops behind a
\* A line of queries that is what it was, or one query longer.
LEMMA OneLonger ==
  ASSUME NEW S, NEW c \in Seq(S), NEW d \in Seq(S), NEW x, NEW B \in BOOLEAN,
         d = c \/ (Len(d) = Len(c) + 1 /\ d[Len(c) + 1] = x /\ B /\ \A i \in 1..Len(c) : d[i] = c[i])
  PROVE  /\ \A i \in DOMAIN c : i \in DOMAIN d /\ d[i] = c[i]
         /\ \A i \in DOMAIN d : i \in DOMAIN c \/ (i = Len(c) + 1 /\ d[i] = x /\ B)
<1>1. Len(c) \in Nat /\ DOMAIN c = 1..Len(c) /\ Len(d) \in Nat /\ DOMAIN d = 1..Len(d)
  OBVIOUS
<1>2. CASE d = c
  BY <1>2
<1>3. CASE d # c
  <2>1. Len(d) = Len(c) + 1 /\ d[Len(c) + 1] = x /\ B /\ \A i \in 1..Len(c) : d[i] = c[i]
    BY <1>3
  <2>2. ASSUME NEW i PROVE (i \in 1..(Len(c) + 1)) <=> (i \in 1..Len(c) \/ i = Len(c) + 1)
    <3>1. \A n \in Nat : 1..(n + 1) = 1..n \cup {n + 1}
      OBVIOUS
    <3>2. 1..(Len(c) + 1) = 1..Len(c) \cup {Len(c) + 1}
      BY ONLY <1>1, <3>1, Zenon
    <3> QED BY ONLY <3>2, Zenon
  <2>3. DOMAIN d = 1..(Len(c) + 1)
    BY <1>1, <2>1
  <2>4. \A i \in DOMAIN c : i \in DOMAIN d
    BY <1>1, <2>2, <2>3, Zenon
  <2>5. \A i \in DOMAIN c : d[i] = c[i]
    BY <1>1, <2>1, Zenon
  <2>6. \A i \in DOMAIN d : i \in DOMAIN c \/ i = Len(c) + 1
    BY <1>1, <2>2, <2>3, Zenon
  <2> QED BY <2>1, <2>4, <2>5, <2>6, Zenon
<1> QED BY <1>2, <1>3

\* rejected link.
LEMMA RetrievedKeeps ==
  ASSUME SliceInv, SliceRunning, NEW w \in SliceWorkers, Retrieved(w)
  PROVE  SliceInv'
<1> PICK q \in Queried : q = worker[w].q
  BY DEF SliceInv, SliceTypes
<1>1. /\ UNCHANGED <<files, todo, memo, half, poisoned, starts, begun>>
      /\ worker[w].pc = "retrieving" /\ tried' = [tried EXCEPT ![q] = @ + 1]
  BY DEF Retrieved
<1>0. /\ \A p : HasRow(p)' <=> HasRow(p)
      /\ LostRow' = LostRow /\ ragged' = ragged
      /\ \A p, n : (DocsLast(p, n)' <=> DocsLast(p, n)) /\ (DocsJoined(p, n)' <=> DocsJoined(p, n))
      /\ \A p : LinesOf("rows", p)' = LinesOf("rows", p)
  BY <1>1, FilesStay
<1>2. \/ Goes(w, "dead") /\ act' = "rejected" /\ chain' = chain
      \/ Goes(w, "appending") /\ act' = act /\ chain' = Append(chain, q)
  BY DEF Retrieved
<1>3. SliceTypes /\ Places /\ Chained
  BY DEF SliceInv
<1>4. PICK p \in {"dead", "appending"} :
        /\ worker' \in WorkerType /\ worker'[w].pc = p /\ worker'[w].q = worker[w].q
        /\ \A v \in SliceWorkers : v # w => worker'[v] = worker[v]
        /\ p = "dead" => act' = "rejected" /\ chain' = chain
        /\ p = "appending" => act' = act /\ chain' = Append(chain, q)
  BY <1>2, <1>3, GoesMoves DEF Pcs
<1>5. tried[q] < starts /\ tried[q] \in Nat /\ starts \in Nat
  BY <1>1, <1>3 DEF Places, Before, SliceTypes
<1>6. /\ tried' \in [Queried -> 0..MaxStarts] /\ tried'[q] <= starts
      /\ \A r \in Queried : r # q => tried'[r] = tried[r]
  <2>1. tried[q] + 1 \in 0..MaxStarts
    BY <1>3, <1>5, SliceConstants DEF SliceTypes
  <2> QED BY <1>1, <1>3, <1>5, <2>1 DEF SliceTypes
<1>7. Has(w, q) /\ \A v \in SliceWorkers : Has(v, q) => v = w
  BY <1>1, <1>3 DEF Places, Has, Busy
<1>8. \A v \in SliceWorkers : /\ worker'[v].q = worker[v].q /\ (Busy(v)' <=> Busy(v))
                              /\ v # w => worker'[v] = worker[v]
  BY <1>1, <1>4 DEF Busy
<1>9. \A v \in SliceWorkers : \A r : Has(v, r)' <=> Has(v, r)
  BY <1>8 DEF Has
<1>10. \A i \in DOMAIN chain : chain[i] # q
  BY <1>1, <1>3, <1>7 DEF Chained, Has, Busy
<1>11. /\ chain' \in Seq(Queried)
       /\ chain' = chain \/ (Len(chain') = Len(chain) + 1 /\ chain'[Len(chain) + 1] = q /\ p = "appending"
                              /\ \A i \in 1..Len(chain) : chain'[i] = chain[i])
  <2>1. chain \in Seq(Queried)
    BY <1>3 DEF SliceTypes
  <2>2. CASE p = "dead"
    BY <1>4, <2>1, <2>2
  <2>3. CASE p = "appending"
    BY <1>4, <2>1, <2>3, AppendProperties
  <2> QED BY <2>2, <2>3
<1>a. /\ \A i \in DOMAIN chain : i \in DOMAIN chain' /\ chain'[i] = chain[i]
      /\ \A i \in DOMAIN chain' : i \in DOMAIN chain \/ (i = Len(chain) + 1 /\ chain'[i] = q /\ p = "appending")
  <2>1. chain \in Seq(Queried) /\ chain' \in Seq(Queried) /\ (p = "appending") \in BOOLEAN
    BY <1>3, <1>11 DEF SliceTypes
  <2> QED BY ONLY <1>11, <2>1, OneLonger
<1>12. SliceTypes' /\ FileInv'
  <2>1. SliceTypes'
    BY <1>1, <1>3, <1>4, <1>6, <1>11 DEF SliceTypes, WorkerType, Pcs
  <2>2. \A x \in Queried : tried[x] <= tried'[x]
    <3>1. tried'[q] = tried[q] + 1
      BY <1>1, <1>3 DEF SliceTypes
    <3>2. \A x \in Queried : tried[x] \in Int
      BY <1>3 DEF SliceTypes
    <3> QED BY <1>5, <1>6, <3>1, <3>2
  <2> QED BY <1>1, <1>3, <1>6, <2>1, <2>2, FilesStayTrue DEF SliceInv
<1>13. Places'
  <2>1. \A i \in todo : Selected[i] \in Queried /\ Selected[i] # q
    BY <1>3, <1>7, SelectedFacts DEF Places, SliceTypes
  <2>2. \A i \in todo' : ~HasRow(Selected[i])' /\ tried'[Selected[i]] < starts'
    BY <1>0, <1>1, <1>3, <1>6, <2>1 DEF Places
  <2>3. \A v \in SliceWorkers : worker'[v].pc \in Before => v # w /\ worker[v].pc \in Before /\ worker[v].q # q
    BY <1>4, <1>7, <1>8 DEF Before, Has, Busy
  <2>4. \A v \in SliceWorkers : worker'[v].pc \in Before => tried'[worker'[v].q] < starts'
    BY <1>1, <1>3, <1>6, <1>8, <2>3 DEF Places, SliceTypes
  <2>5. \A r \in Queried : tried'[r] <= starts'
    BY <1>1, <1>3, <1>6 DEF Places
  <2>6. \A v \in SliceWorkers : worker'[v].pc \in Owing => worker[v].pc \in Owing /\ worker'[v].q = worker[v].q
    BY <1>1, <1>4, <1>8 DEF Owing, Before
  <2> QED BY <1>0, <1>1, <1>3, <1>8, <1>9, <2>2, <2>4, <2>5, <2>6 DEF Places
<1>14. Chained'
  <2>1. \A i, j \in DOMAIN chain' : chain'[i] = chain'[j] => i = j
    <3>1. \A i, j \in DOMAIN chain : chain[i] = chain[j] => i = j
      BY <1>3, Zenon DEF Chained
    <3> QED BY <1>10, <1>a, <3>1, Zenon
  <2>2. \A v \in SliceWorkers : worker[v].pc = "appending" => worker'[v] = worker[v]
    BY <1>1, <1>8
  <2>3. \A i \in DOMAIN chain' : \E v \in SliceWorkers : worker'[v].pc = "appending" /\ worker'[v].q = chain'[i]
    <3>1. ASSUME NEW i \in DOMAIN chain'
          PROVE  \E v \in SliceWorkers : worker'[v].pc = "appending" /\ worker'[v].q = chain'[i]
      <4>1. CASE i \in DOMAIN chain
        <5>1. chain'[i] = chain[i]
          BY <1>a, <4>1, Zenon
        <5>2. PICK v \in SliceWorkers : worker[v].pc = "appending" /\ worker[v].q = chain[i]
          BY <1>3, <4>1, Zenon DEF Chained
        <5> QED BY <2>2, <5>1, <5>2, Zenon
      <4>2. CASE i \notin DOMAIN chain
        <5>1. chain'[i] = q /\ p = "appending"
          BY <1>a, <3>1, <4>2, Zenon
        <5> QED BY <1>4, <5>1
      <4> QED BY <4>1, <4>2
    <3> QED BY <3>1
  <2>4. ASSUME half'
        PROVE  chain' # << >> /\ (DocsLast(chain[1], tried[chain[1]])' \/ DocsJoined(chain[1], tried[chain[1]])')
    <3>1. half /\ chain # << >> /\ (DocsLast(chain[1], tried[chain[1]]) \/ DocsJoined(chain[1], tried[chain[1]]))
      BY <1>1, <1>3, <2>4 DEF Chained
    <3>2. 1 \in DOMAIN chain /\ chain[1] \in Queried
      BY <1>3, <3>1 DEF SliceTypes
    <3>3. chain' # << >> /\ chain'[1] = chain[1] /\ tried'[chain[1]] = tried[chain[1]]
      <4>1. 1 \in DOMAIN chain' /\ chain'[1] = chain[1]
        BY <1>a, <3>2, Zenon
      <4>2. chain' # << >>
        BY <4>1
      <4>3. chain[1] # q
        BY <1>10, <3>2
      <4> QED BY <1>6, <3>2, <4>1, <4>2, <4>3
    <3>4. \A x, n : DocsLast(x, n) \/ DocsJoined(x, n) => DocsLast(x, n)' \/ DocsJoined(x, n)'
      BY <1>0
    <3>5. DocsLast(chain[1], tried[chain[1]])' \/ DocsJoined(chain[1], tried[chain[1]])'
      <4> DEFINE a == chain[1]
                 b == tried[chain[1]]
      <4>1. a' = a /\ b' = b /\ (DocsLast(a, b) \/ DocsJoined(a, b))
        BY <3>1, <3>3
      <4> QED BY <1>0, <1>1, <4>1 DEF DocsLast, DocsJoined, LinesOf, files
    <3> QED BY <3>3, <3>5
  <2> QED BY <2>1, <2>3, <2>4 DEF Chained
<1>15. OneLost' /\ DocsInv' /\ BuildsInv'
  <2>1. act' = act \/ act' = "rejected"
    BY <1>4
  <2> QED BY <1>0, <1>1, <2>1 DEF SliceInv, OneLost, DocsInv, BuildsInv, SliceRunning
<1>16. Covered'
  <2>1. act' = act \/ act' = "rejected"
    BY <1>4
  <2> QED BY <1>0, <1>1, <1>8, <1>9, <2>1 DEF SliceInv, Covered, Waits
<1> QED BY <1>12, <1>13, <1>14, <1>15, <1>16 DEF SliceInv

\* The head of the chain appends its documents.
LEMMA DocsKeeps ==
  ASSUME SliceInv, SliceRunning, AppendNext, ~half, Head(chain) \in Synth
  PROVE  SliceInv'
<1> PICK q \in Synth : q = Head(chain)
  OBVIOUS
<1>1. /\ UNCHANGED <<todo, memo, worker, chain, poisoned, act, starts, spoils, tried, begun>>
      /\ half' = TRUE /\ chain # << >> /\ AppendFile("docs", q, "whole")
  BY DEF AppendNext, Target
<1>2. SliceTypes /\ FileInv /\ Places /\ Chained /\ q \in Queried /\ "docs" \in Files
  BY SliceConstants DEF SliceInv, Files
<1>3. chain \in Seq(Queried) /\ 1 \in DOMAIN chain /\ chain[1] = q
  BY <1>1, <1>2 DEF SliceTypes
<1>4. /\ \A p, n : n \in LinesOf("rows", p)' <=> n \in LinesOf("rows", p)
      /\ \A m : m \in LinesOf("docs", q)' => m \in LinesOf("docs", q) \/ m = tried[q]
      /\ tried[q] \in LinesOf("docs", q)' \/ DocsJoined(q, tried[q])'
  <2>1. /\ \A g, r, m : m \in LinesOf(g, r)' => m \in LinesOf(g, r) \/ (g = "docs" /\ r = q /\ m = tried[q])
        /\ \A g, r, m : m \in LinesOf(g, r) => m \in LinesOf(g, r)' \/ (g = "docs" /\ <<starts, <<g, r, m>>>> \in joined')
        /\ "whole" # "torn" => tried[q] \in LinesOf("docs", q)' \/ <<starts, <<"docs", q, tried[q]>>>> \in joined'
        /\ \A r, m : <<starts, <<"docs", r, m>>>> \in joined' => DocsJoined(r, m)'
    BY <1>1, <1>2, PutChanges, Zenon
  <2>0. "rows" # "docs"
    OBVIOUS
  <2>2. \A p, n : n \in LinesOf("rows", p)' <=> n \in LinesOf("rows", p)
    BY <2>0, <2>1, Zenon
  <2>3. \A m : m \in LinesOf("docs", q)' => m \in LinesOf("docs", q) \/ m = tried[q]
    BY <2>1, Zenon
  <2>4. <<starts, <<"docs", q, tried[q]>>>> \in joined' => DocsJoined(q, tried[q])'
    <3>1. \A a, b : a = q /\ b = tried[q] => (<<starts, <<"docs", a, b>>>> \in joined' => DocsJoined(a, b)')
      BY <2>1, Zenon
    <3> QED BY <1>1, <3>1 DEF DocsJoined
  <2> QED BY <2>1, <2>2, <2>3, <2>4
<1>5. \A p : LinesOf("rows", p)' = LinesOf("rows", p) /\ (HasRow(p)' <=> HasRow(p))
  <2>1. \A p : LinesOf("rows", p)' = LinesOf("rows", p)
    <3>1. \A p : \A n : n \in LinesOf("rows", p)' <=> n \in LinesOf("rows", p)
      BY <1>4
    <3> QED BY <3>1 DEF LinesOf
  <2> QED BY <2>1 DEF HasRow
<1>6. LostRow' = LostRow /\ ragged' = ragged \ {"docs"}
  BY <1>1, <1>2, PutLoses DEF AppendFile
<1>7. SliceTypes' /\ FileInv'
  <2>1. FileInv'
    BY <1>1, <1>2, PutKeeps
  <2> QED BY <1>1, <1>2, <2>1 DEF SliceTypes
<1>8. Places' /\ BuildsInv'
  BY <1>1, <1>5 DEF SliceInv, Places, BuildsInv, Busy, Has
<1>9. DocsLast(q, tried[q])' \/ DocsJoined(q, tried[q])'
  <2>1. \A m \in LinesOf("docs", q) : m <= tried[q]
    <3>1. ASSUME NEW m \in LinesOf("docs", q) PROVE m <= tried[q]
      <4>1. <<"docs", q, m>> \in saved
        BY DEF LinesOf
      <4> QED BY <1>2, <4>1 DEF FileInv
    <3> QED BY <3>1
  <2>2. tried[q] \in Int /\ tried'[q] = tried[q]
    BY <1>1, <1>2 DEF SliceTypes
  <2>3. \A m \in LinesOf("docs", q)' : m <= tried[q]
    BY <1>4, <2>1, <2>2
  <2> QED BY <1>1, <1>4, <2>2, <2>3 DEF DocsLast
<1>10. Chained'
  <2>1. chain' = chain /\ tried' = tried /\ worker' = worker
    BY <1>1
  <2>2. DocsLast(chain[1], tried[chain[1]])' \/ DocsJoined(chain[1], tried[chain[1]])'
    BY <1>3, <1>9, <2>1
  <2> QED BY <1>1, <1>2, <2>1, <2>2 DEF Chained
<1>11. OneLost' /\ Covered'
  BY <1>1, <1>5, <1>6 DEF SliceInv, OneLost, Covered, SliceRunning, Waits, Has, Busy
<1>12. DocsInv'
  <2>1. ~HasRow(q)
    BY <1>2, <1>3 DEF Chained, Places, Owing
  <2>2. ASSUME NEW r \in Synth, NEW n \in LinesOf("rows", r)' PROVE DocsLast(r, n)' \/ DocsJoined(r, n)'
    <3>1. n \in LinesOf("rows", r) /\ r # q
      BY <1>5, <2>1, <2>2 DEF HasRow
    <3>2. DocsLast(r, n) \/ DocsJoined(r, n)
      BY <3>1 DEF SliceInv, DocsInv
    <3> QED BY <1>1, <1>2, <3>1, <3>2, DocsStay
  <2> QED BY <2>2 DEF DocsInv
<1> QED BY <1>7, <1>8, <1>10, <1>11, <1>12 DEF SliceInv

\* The head of the chain appends its row, and its worker goes on.
LEMMA RowKeeps ==
  ASSUME SliceInv, SliceRunning, AppendNext, half \/ Head(chain) \notin Synth
  PROVE  SliceInv'
<1>0. SliceTypes /\ FileInv /\ Places /\ Chained /\ "rows" \in Files
  BY DEF SliceInv, Files
<1> PICK q \in Queried : q = Head(chain)
  BY <1>0, HeadTailProperties DEF AppendNext, SliceTypes
<1>1. /\ UNCHANGED <<todo, memo, poisoned, act, starts, spoils, tried, begun>>
      /\ chain # << >> /\ ~poisoned /\ chain' = Tail(chain) /\ half' = FALSE
      /\ worker' = [w \in SliceWorkers |->
                      IF worker[w].pc = "appending" /\ worker[w].q = q THEN OffDuty ELSE worker[w]]
      /\ AppendFile("rows", q, "whole") /\ ragged' = ragged \ {"rows"}
  BY DEF AppendNext, Target, Released, AppendFile
<1>2. chain \in Seq(Queried) /\ 1 \in DOMAIN chain /\ chain[1] = q
  BY <1>0, <1>1 DEF SliceTypes
<1>3. PICK w \in SliceWorkers : worker[w].pc = "appending" /\ worker[w].q = q
  BY <1>0, <1>2 DEF Chained
<1>4. Has(w, q) /\ ~HasRow(q) /\ \A v \in SliceWorkers : Has(v, q) => v = w
  BY <1>0, <1>3 DEF Places, Has, Busy, Owing
<1>5. /\ worker' \in WorkerType /\ worker'[w].pc = "idle"
      /\ \A v \in SliceWorkers : v # w => worker'[v] = worker[v]
  <2>1. \A v \in SliceWorkers : v # w => ~(worker[v].pc = "appending" /\ worker[v].q = q)
    BY <1>4 DEF Has, Busy
  <2> QED BY <1>0, <1>1, <1>3, <2>1, SelectedFacts DEF SliceTypes, WorkerType, Pcs
<1>6. /\ \A v \in SliceWorkers : \A r : Has(v, r)' => Has(v, r) /\ r # q /\ v # w
      /\ \A v \in SliceWorkers : \A r : r # q /\ Has(v, r) => Has(v, r)'
  BY <1>4, <1>5 DEF Has, Busy
<1>7. \A v \in SliceWorkers : Busy(v)' => Busy(v) /\ v # w /\ worker'[v] = worker[v] /\ worker[v].q # q
  BY <1>4, <1>5 DEF Has, Busy
<1>8. /\ \A p, n : n \in LinesOf("rows", p)' => n \in LinesOf("rows", p) \/ (p = q /\ n = tried[q])
      /\ \A p, n : n \in LinesOf("rows", p) => n \in LinesOf("rows", p)' \/ <<starts, <<"rows", p, n>>>> \in joined'
      /\ tried[q] \in LinesOf("rows", q)' \/ <<starts, <<"rows", q, tried[q]>>>> \in joined'
  BY <1>0, <1>1, PutChanges
<1>9. \A p : HasRow(p)' => HasRow(p) \/ p = q
  <2>1. ASSUME NEW p, HasRow(p)' PROVE HasRow(p) \/ p = q
    <3>1. PICK n : n \in LinesOf("rows", p)'
      BY <2>1 DEF HasRow
    <3> QED BY <1>8, <3>1 DEF HasRow
  <2> QED BY <2>1
<1>a. \A p \in Queried : HasRow(p) \/ p = q => HasRow(p)' \/ p \in LostRow'
  <2>1. \A p \in Queried : (\E n \in 0..MaxStarts : <<starts, <<"rows", p, n>>>> \in joined') => p \in LostRow'
    BY <1>0, <1>1, PutLoses
  <2>2. tried[q] \in 0..MaxStarts
    BY <1>0 DEF SliceTypes
  <2>3. HasRow(q)' \/ q \in LostRow'
    BY <1>8, <2>1, <2>2 DEF HasRow
  <2>4. ASSUME NEW p \in Queried, HasRow(p) PROVE HasRow(p)' \/ p \in LostRow'
    <3>1. PICK n \in 0..MaxStarts : n \in LinesOf("rows", p)
      BY <2>4 DEF HasRow, LinesOf
    <3> QED BY <1>8, <2>1, <3>1 DEF HasRow
  <2> QED BY <2>3, <2>4
<1>10. SliceTypes' /\ FileInv'
  <2>1. FileInv'
    BY <1>0, <1>1, <1>4, PutKeeps
  <2>2. chain' \in Seq(Queried)
    BY <1>1, <1>2, HeadTailProperties
  <2> QED BY <1>0, <1>1, <1>5, <2>1, <2>2 DEF SliceTypes, WorkerType, Pcs
<1>11. Places'
  <2>1. \A i \in todo : Selected[i] \in Queried /\ Selected[i] # q
    BY <1>0, <1>4, SelectedFacts DEF Places, SliceTypes
  <2>2. \A i \in todo' : ~HasRow(Selected[i])' /\ tried'[Selected[i]] < starts'
    BY <1>0, <1>1, <1>9, <2>1 DEF Places
  <2>3. \A i \in todo' : \A v \in SliceWorkers : ~Has(v, Selected[i])'
    BY <1>0, <1>1, <1>6 DEF Places
  <2>4. \A v \in SliceWorkers : worker'[v].pc \in Owing => ~HasRow(worker[v].q)'
    <3>1. ASSUME NEW v \in SliceWorkers, worker'[v].pc \in Owing PROVE ~HasRow(worker[v].q)'
      <4>0. Busy(v)'
        BY <3>1 DEF Owing, Before, Busy
      <4>1. worker'[v].q = worker[v].q /\ worker[v].q # q /\ ~HasRow(worker[v].q)
        BY <1>0, <1>7, <3>1, <4>0 DEF Places
      <4>2. \A p : p = worker[v].q => ~HasRow(p)'
        BY <1>9, <4>1
      <4> QED BY <4>1, <4>2 DEF HasRow, LinesOf
    <3> QED BY <3>1
  <2>5. \A v \in SliceWorkers : worker'[v].pc \in Before => tried'[worker'[v].q] < starts'
    BY <1>0, <1>1, <1>5 DEF Places, Before
  <2>6. \A u, v \in SliceWorkers : Busy(v)' /\ Has(u, worker[v].q)' => u = v
    BY <1>0, <1>6, <1>7 DEF Places
  <2> QED BY <1>0, <1>1, <2>2, <2>3, <2>4, <2>5, <2>6 DEF Places
<1>12. Chained'
  <2>1. Len(chain') = Len(chain) - 1 /\ \A i \in 1..Len(chain) - 1 : chain'[i] = chain[i + 1]
    BY <1>1, <1>2
  <2>2. DOMAIN chain' = 1..Len(chain) - 1 /\ DOMAIN chain = 1..Len(chain) /\ Len(chain) \in Nat
    BY <1>1, <1>2, <2>1, HeadTailProperties
  <2>3. \A i \in DOMAIN chain' : i + 1 \in DOMAIN chain /\ i + 1 # 1 /\ chain'[i] = chain[i + 1] /\ chain'[i] # q
    BY <1>0, <1>2, <2>1, <2>2 DEF Chained
  <2>4. \A i, j \in DOMAIN chain' : chain'[i] = chain'[j] => i = j
    BY <1>0, <2>2, <2>3 DEF Chained
  <2>5. \A i \in DOMAIN chain' : \E v \in SliceWorkers : worker'[v].pc = "appending" /\ worker'[v].q = chain'[i]
    BY <1>0, <1>3, <1>5, <2>3 DEF Chained
  <2> QED BY <1>1, <2>4, <2>5 DEF Chained
<1>13. OneLost'
  <2>1. act' \in {"running", "summarised"} =>
          (\E p, r \in Queried : LostRow \subseteq {p, r}) /\ ("rows" \in ragged => LostRow = {})
    BY <1>1 DEF SliceInv, OneLost
  <2>2. (\E p \in Queried : LostRow' \subseteq LostRow \cup {p, q}) /\ ("rows" \notin ragged => LostRow' = LostRow)
    BY <1>0, <1>1, PutLoses
  <2>3. act' \in {"running", "summarised"} => \E p, r \in Queried : LostRow' \subseteq {p, r}
    BY <2>1, <2>2
  <2> QED BY <1>1, <2>3 DEF OneLost
<1>14. Covered'
  <2>1. act' = act /\ act # "summarised" /\ todo' = todo /\ LostRow \subseteq LostRow'
    BY <1>0, <1>1, PutLoses DEF SliceRunning
  <2>2. ASSUME act = "running", NEW p \in Queried
        PROVE  Waits(p)' \/ (\E v \in SliceWorkers : Has(v, p)') \/ HasRow(p)' \/ p \in LostRow' \/ Skipped(p)
    <3>1. Waits(p) \/ (\E v \in SliceWorkers : Has(v, p)) \/ HasRow(p) \/ p \in LostRow \/ Skipped(p)
      BY <2>2 DEF SliceInv, Covered
    <3>2. Waits(p) => Waits(p)'
      BY <2>1 DEF Waits
    <3> QED BY <1>6, <1>a, <2>1, <3>1, <3>2
  <2> QED BY <2>1, <2>2 DEF Covered
<1>15. DocsInv' /\ BuildsInv'
  <2>1. ASSUME q \in Synth PROVE DocsLast(q, tried[q]) \/ DocsJoined(q, tried[q])
    BY <1>0, <1>2, <2>1 DEF Chained
  <2>2. ASSUME NEW r \in Synth, NEW n \in LinesOf("rows", r)' PROVE DocsLast(r, n)' \/ DocsJoined(r, n)'
    <3>1. DocsLast(r, n) \/ DocsJoined(r, n)
      <4>1. CASE n \in LinesOf("rows", r)
        BY <4>1 DEF SliceInv, DocsInv
      <4>2. CASE r = q /\ n = tried[q]
        BY <2>1, <4>2
      <4> QED BY <1>8, <2>2, <4>1, <4>2
    <3> QED BY <1>0, <1>1, <3>1, DocsStay
  <2> QED BY <1>1, <2>2 DEF SliceInv, DocsInv, BuildsInv
<1> QED BY <1>10, <1>11, <1>12, <1>13, <1>14, <1>15 DEF SliceInv

\* An append that is cut short, whatever it leaves.
LEMMA CutKeeps ==
  ASSUME SliceInv, SliceRunning, chain # << >>, CutShort, UNCHANGED <<starts, tried>>
  PROVE  /\ FileInv'
         /\ \A p \in Queried : HasRow(p)' => HasRow(p) \/ p = Head(chain)
         /\ DocsInv'
<1>1. SliceTypes /\ FileInv /\ Places /\ Chained /\ DocsInv
  BY DEF SliceInv
<1>2. chain \in Seq(Queried) /\ 1 \in DOMAIN chain /\ chain[1] = Head(chain) /\ Head(chain) \in Queried
  BY <1>1, HeadTailProperties DEF SliceTypes
<1> PICK q \in Queried : q = Head(chain)
  BY <1>2
<1>3. ~HasRow(q)
  BY <1>1, <1>2 DEF Chained, Places, Owing
<1>4. CASE UNCHANGED files
  <2>1. tried' \in [Queried -> 0..MaxStarts] /\ \A p \in Queried : tried[p] <= tried'[p]
    BY <1>1 DEF SliceTypes
  <2>2. FileInv'
    BY <1>1, <1>4, <2>1, FilesStayTrue
  <2> QED BY <1>1, <1>4, <2>2, FilesStay DEF DocsInv
<1>5. ASSUME NEW how \in {"torn", "bare", "whole"}, AppendFile(Target, q, how)
      PROVE  /\ FileInv' /\ DocsInv'
             /\ \A p \in Queried : HasRow(p)' => HasRow(p) \/ p = q
  <2> PICK f \in Files : f = Target
    BY DEF Files, Target
  <2>1. FileInv'
    BY <1>1, <1>3, <1>5, PutKeeps
  <2>2. \A p, n : n \in LinesOf("rows", p)' => n \in LinesOf("rows", p) \/ (f = "rows" /\ p = q /\ n = tried[q])
    BY <1>1, <1>5, PutChanges
  <2>3. ASSUME NEW p \in Queried, HasRow(p)' PROVE HasRow(p) \/ p = q
    <3>1. PICK n : n \in LinesOf("rows", p)'
      BY <2>3 DEF HasRow
    <3> QED BY <2>2, <3>1 DEF HasRow
  <2>4. ASSUME q \in Synth, f = "rows" PROVE DocsLast(q, tried[q]) \/ DocsJoined(q, tried[q])
    BY <1>1, <1>2, <2>4 DEF Chained, Target
  <2>5. ASSUME NEW r \in Synth, NEW n \in LinesOf("rows", r)' PROVE DocsLast(r, n)' \/ DocsJoined(r, n)'
    <3>1. (DocsLast(r, n) \/ DocsJoined(r, n)) /\ (f = "rows" \/ r # q)
      <4>1. CASE n \in LinesOf("rows", r)
        BY <1>1, <1>3, <4>1 DEF DocsInv, HasRow, Files
      <4>2. CASE f = "rows" /\ r = q /\ n = tried[q]
        BY <2>4, <4>2
      <4> QED BY <2>2, <2>5, <4>1, <4>2
    <3> QED BY <1>1, <1>5, <3>1, DocsStay
  <2> QED BY <2>1, <2>3, <2>5 DEF DocsInv
<1> QED BY <1>4, <1>5 DEF CutShort

LEMMA AppendFailsKeeps == ASSUME SliceInv, SliceRunning, AppendFails PROVE SliceInv'
<1>1. /\ UNCHANGED <<todo, memo, starts, tried, begun>> /\ CutShort /\ chain # << >>
      /\ poisoned' = TRUE /\ act' = "rejected" /\ chain' = << >> /\ half' = FALSE
      /\ worker' = [w \in SliceWorkers |->
                      IF worker[w].pc = "appending" THEN [worker[w] EXCEPT !.pc = "dead"] ELSE worker[w]]
  BY DEF AppendFails
<1>2. SliceTypes /\ Places /\ Chained
  BY DEF SliceInv
<1>3. \A v \in SliceWorkers :
        /\ worker'[v] \in [pc: Pcs, q: Queried] /\ worker'[v].q = worker[v].q
        /\ worker'[v].pc = IF worker[v].pc = "appending" THEN "dead" ELSE worker[v].pc
  <2>1. \A v \in SliceWorkers : worker[v] \in [pc: Pcs, q: Queried]
    BY <1>2 DEF SliceTypes, Pcs
  <2> QED BY <1>1, <2>1 DEF Pcs
<1>4. worker' \in WorkerType
  BY <1>1, <1>3 DEF WorkerType
<1>5. SliceTypes' /\ FileInv' /\ DocsInv'
  <2>1. FileInv' /\ DocsInv'
    BY <1>1, CutKeeps
  <2> QED BY <1>1, <1>2, <1>4, <2>1, EmptySeq DEF SliceTypes, WorkerType, Pcs
<1>6. \A v \in SliceWorkers : (Busy(v)' <=> Busy(v)) /\ (worker'[v].pc \in Before => worker[v].pc \in Before)
  BY <1>3 DEF Busy, Before
<1>7. \A v \in SliceWorkers : \A q : Has(v, q)' <=> Has(v, q)
  BY <1>3, <1>6 DEF Has
<1>8. Places'
  <2>0. PICK w \in SliceWorkers : worker[w].pc = "appending" /\ Has(w, Head(chain)) /\ Head(chain) \in Queried
    <3>1. 1 \in DOMAIN chain /\ chain[1] = Head(chain) /\ Head(chain) \in Queried
      BY <1>1, <1>2, HeadTailProperties DEF SliceTypes
    <3> QED BY <1>2, <3>1 DEF Chained, Has, Busy
  <2>1. \A p \in Queried : HasRow(p)' => HasRow(p) \/ p = Head(chain)
    BY <1>1, CutKeeps
  <2>2. \A i \in todo' : ~HasRow(Selected[i])'
    <3>1. ASSUME NEW i \in todo PROVE ~HasRow(Selected[i])'
      <4>1. Selected[i] \in Queried /\ ~HasRow(Selected[i]) /\ Selected[i] # Head(chain)
        BY <1>2, <2>0, SelectedFacts DEF Places, SliceTypes
      <4> QED BY <2>1, <4>1
    <3> QED BY <1>1, <3>1
  <2>3. \A v \in SliceWorkers : worker'[v].pc \in Owing => ~HasRow(worker[v].q)'
    <3>1. ASSUME NEW v \in SliceWorkers, worker'[v].pc \in Owing PROVE ~HasRow(worker[v].q)'
      <4>1. worker[v].pc \in Before /\ worker[v].q \in Queried /\ worker'[v].q = worker[v].q
        BY <1>2, <1>3, <3>1 DEF Owing, Before, SliceTypes
      <4>2. ~HasRow(worker[v].q) /\ v # w
        BY <1>2, <2>0, <4>1 DEF Places, Owing, Before
      <4>3. worker[v].q # Head(chain)
        BY <1>2, <2>0, <4>1, <4>2 DEF Places, Has, Busy, Before
      <4>4. \A p \in Queried : p = worker[v].q => ~HasRow(p)'
        BY <2>1, <4>2, <4>3
      <4> QED BY <4>1, <4>4 DEF HasRow, LinesOf
    <3> QED BY <3>1
  <2> QED BY <1>1, <1>2, <1>3, <1>6, <1>7, <2>2, <2>3 DEF Places
<1>9. Chained'
  BY <1>1 DEF Chained
<1>10. OneLost' /\ Covered'
  BY <1>1 DEF OneLost, Covered
<1>11. BuildsInv'
  BY <1>1 DEF SliceInv, BuildsInv
<1> QED BY <1>5, <1>8, <1>9, <1>10, <1>11 DEF SliceInv

LEMMA SummariseKeeps == ASSUME SliceInv, Summarise PROVE SliceInv'
<1>1. /\ UNCHANGED <<files, todo, memo, worker, chain, half, poisoned, starts, tried, begun>>
      /\ act = "running" /\ act' = "summarised" /\ todo = {} /\ \A w \in SliceWorkers : ~Busy(w)
  BY DEF Summarise, Busy
<1>0. /\ \A p : HasRow(p)' <=> HasRow(p)
      /\ LostRow' = LostRow /\ ragged' = ragged
      /\ \A p, n : (DocsLast(p, n)' <=> DocsLast(p, n)) /\ (DocsJoined(p, n)' <=> DocsJoined(p, n))
      /\ \A p : LinesOf("rows", p)' = LinesOf("rows", p)
  BY <1>1, FilesStay
<1>2. SliceTypes' /\ FileInv' /\ Places' /\ Chained' /\ DocsInv' /\ BuildsInv'
  <2>1. SliceTypes'
    BY <1>1 DEF SliceInv, SliceTypes
  <2>2. tried' \in [Queried -> 0..MaxStarts] /\ \A p \in Queried : tried[p] <= tried'[p]
    BY <1>1 DEF SliceInv, SliceTypes
  <2>3. FileInv'
    BY <1>1, <2>2, FilesStayTrue DEF SliceInv
  <2> QED BY <1>0, <1>1, <2>1, <2>3 DEF SliceInv, Places, Chained, DocsInv, BuildsInv, Busy, Has, SliceRunning
<1>3. OneLost'
  BY <1>0, <1>1 DEF SliceInv, OneLost
<1>4. Covered'
  BY <1>0, <1>1 DEF SliceInv, Covered, Waits, Has, Busy
<1> QED BY <1>2, <1>3, <1>4 DEF SliceInv

LEMMA KillKeeps == ASSUME SliceInv, Kill PROVE SliceInv'
<1>1. /\ UNCHANGED <<todo, memo, worker, chain, half, poisoned, starts, tried, begun>>
      /\ SliceRunning /\ act' = "killed"
      /\ UNCHANGED files \/ (chain # << >> /\ CutShort)
  BY DEF Kill, SliceRunning
<1>2. SliceTypes /\ FileInv /\ Places /\ Chained
  BY DEF SliceInv
<1>3. FileInv' /\ DocsInv' /\ \A p \in Queried : HasRow(p)' => HasRow(p) \/ (chain # << >> /\ p = Head(chain))
  <2>1. CASE UNCHANGED files
    <3>1. tried' \in [Queried -> 0..MaxStarts] /\ \A p \in Queried : tried[p] <= tried'[p]
      BY <1>1, <1>2 DEF SliceTypes
    <3>2. FileInv'
      BY <1>1, <1>2, <2>1, <3>1, FilesStayTrue
    <3> QED BY <1>1, <2>1, <3>2, FilesStay DEF SliceInv, DocsInv
  <2>2. CASE chain # << >> /\ CutShort
    BY <1>1, <2>2, CutKeeps
  <2> QED BY <1>1, <2>1, <2>2
<1>4. SliceTypes' /\ Chained' /\ BuildsInv' /\ OneLost' /\ Covered'
  BY <1>1 DEF SliceInv, SliceTypes, Chained, BuildsInv, OneLost, Covered, SliceRunning
<1>5. Places'
  <2>1. ASSUME NEW i \in todo PROVE ~HasRow(Selected[i])'
    <3>1. Selected[i] \in Queried /\ ~HasRow(Selected[i])
      BY <1>2, SelectedFacts DEF Places, SliceTypes
    <3>2. chain # << >> => Selected[i] # Head(chain)
      <4>1. chain # << >> => 1 \in DOMAIN chain /\ chain[1] = Head(chain)
        BY <1>2 DEF SliceTypes
      <4> QED BY <1>2, <4>1 DEF Chained, Places, Has, Busy
    <3> QED BY <1>3, <3>1, <3>2
  <2> QED BY <1>1, <1>2, <2>1 DEF Places, Busy, Has, SliceRunning
<1> QED BY <1>3, <1>4, <1>5 DEF SliceInv

\* The driver is started again: what has a row is left alone.
LEMMA ResumeKeeps == ASSUME SliceInv, Resume PROVE SliceInv'
<1>1. /\ UNCHANGED <<files, tried>> /\ starts < MaxStarts /\ starts' = starts + 1
      /\ act' = "running" /\ todo' = Pending
      /\ memo' = [b \in Builders |-> [u \in Units |-> "unset"]]
      /\ worker' = [w \in SliceWorkers |-> OffDuty]
      /\ chain' = << >> /\ half' = FALSE /\ poisoned' = FALSE
      /\ begun' = [b \in Builders |-> [u \in Units |-> 0]]
  BY DEF Resume
<1>2. SliceTypes /\ FileInv /\ Places
  BY DEF SliceInv
<1>0. /\ saved' = saved /\ loose' = loose /\ joined' = joined /\ ragged' = ragged
      /\ \A f, q : LinesOf(f, q)' = LinesOf(f, q)
      /\ \A q : HasRow(q)' <=> HasRow(q)
  BY <1>1 DEF files, LinesOf, HasRow
<1>3. \A w \in SliceWorkers : worker'[w].pc = "idle" /\ ~Busy(w)' /\ \A q : ~Has(w, q)'
  BY <1>1, SelectedFacts DEF Busy, Has
<1>4. \A q \in Queried : tried[q] < starts'
  BY <1>1, <1>2 DEF Places, SliceTypes
<1>5. SliceTypes' /\ FileInv'
  <2>1. worker' \in WorkerType
    BY <1>1, SelectedFacts DEF WorkerType
  <2>2. starts' \in 1..MaxStarts
    BY <1>1, <1>2, SliceConstants DEF SliceTypes
  <2>3. FileInv'
    <3>1. 1..starts \subseteq 1..starts'
      BY <1>1, <1>2 DEF SliceTypes
    <3>2. joined' \subseteq (1..starts') \X LineType
      BY <1>0, <1>2, <3>1 DEF FileInv
    <3> QED BY <1>0, <1>1, <1>2, <3>2 DEF FileInv
  <2>4. /\ memo' \in [Builders -> [Units -> {"unset", "building", "text", "none"}]]
        /\ begun' \in [Builders -> [Units -> 0..1]]
    BY <1>1
  <2>5. chain' \in Seq(Queried)
    BY <1>1, EmptySeq
  <2> QED BY <1>1, <1>2, <2>1, <2>2, <2>3, <2>4, <2>5 DEF SliceTypes, WorkerType, Pcs, Pending
<1>6. Places'
  <2>1. \A i \in todo' : ~HasRow(Selected[i])' /\ tried'[Selected[i]] < starts'
    <3>1. ASSUME NEW i \in todo' PROVE ~HasRow(Selected[i]) /\ Selected[i] \in Queried
      BY <1>1, <3>1, SelectedFacts DEF Pending
    <3> QED BY <1>0, <1>1, <1>4, <3>1
  <2>2. \A q \in Queried : tried'[q] <= starts'
    BY <1>1, <1>2, <1>4 DEF SliceTypes
  <2> QED BY <1>3, <2>1, <2>2 DEF Places, Before, Owing
<1>7. Chained'
  BY <1>1 DEF Chained
<1>8. LostRow' = {}
  <2>1. \A l : <<starts', l>> \notin joined
    BY <1>1, <1>2 DEF SliceTypes, FileInv
  <2> QED BY <1>0, <2>1 DEF LostRow
<1>9. OneLost'
  BY <1>8, SelectedFacts, SliceConstants DEF OneLost
<1>10. Covered'
  <2>1. ASSUME NEW q \in Queried PROVE Waits(q)' \/ HasRow(q)' \/ Skipped(q)
    <3>1. PICK i \in DOMAIN Selected : Selected[i] = q
      BY SelectedFacts
    <3>2. ~HasRow(q) /\ ~Skipped(q) => i \in todo'
      BY <1>1, <3>1 DEF Pending
    <3> QED BY <1>0, <3>1, <3>2 DEF Waits
  <2> QED BY <1>1, <2>1 DEF Covered
<1>11. DocsInv' /\ BuildsInv'
  <2>1. \A q, n : DocsLast(q, n)' <=> DocsLast(q, n)
    BY <1>0 DEF DocsLast
  <2>2. \A q, n : DocsJoined(q, n) => DocsJoined(q, n)'
    <3>1. \A k \in 1..starts : k \in 1..starts'
      BY <1>1, <1>2 DEF SliceTypes
    <3> QED BY <1>0, <3>1 DEF DocsJoined
  <2> QED BY <1>0, <1>1, <2>1, <2>2 DEF SliceInv, DocsInv, BuildsInv
<1> QED BY <1>5, <1>6, <1>7, <1>9, <1>10, <1>11 DEF SliceInv

LEMMA SliceStarts == ASSUME SliceInit PROVE SliceInv
<1>1. /\ saved = {} /\ loose = {} /\ ragged = {} /\ joined = {}
      /\ todo = {i \in DOMAIN Selected : ~Skipped(Selected[i])}
      /\ memo = [b \in Builders |-> [u \in Units |-> "unset"]]
      /\ worker = [w \in SliceWorkers |-> OffDuty]
      /\ chain = << >> /\ half = FALSE /\ poisoned = FALSE
      /\ tried = [q \in Queried |-> 0]
      /\ begun = [b \in Builders |-> [u \in Units |-> 0]]
      /\ act = "running" /\ starts = 1
  BY DEF SliceInit, SliceIdle
<1>0. \A f, q : LinesOf(f, q) = {} /\ ~HasRow(q)
  BY <1>1 DEF LinesOf, HasRow
<1>2. SliceTypes /\ FileInv
  <2>1. chain \in Seq(Queried)
    BY <1>1, EmptySeq
  <2>2. starts \in 1..MaxStarts /\ 0 \in 0..MaxStarts
    BY <1>1, SliceConstants
  <2>3. /\ memo \in [Builders -> [Units -> {"unset", "building", "text", "none"}]]
        /\ begun \in [Builders -> [Units -> 0..1]]
    BY <1>1
  <2>4. worker \in WorkerType
    BY <1>1, SelectedFacts DEF WorkerType
  <2>5. tried \in [Queried -> 0..MaxStarts]
    BY <1>1, <2>2
  <2>6. todo \subseteq DOMAIN Selected /\ half \in BOOLEAN
    BY <1>1
  <2>7. FileInv
    BY <1>0, <1>1 DEF FileInv
  <2> QED BY <2>1, <2>2, <2>3, <2>4, <2>5, <2>6, <2>7 DEF SliceTypes, WorkerType, Pcs
<1>3. \A w \in SliceWorkers : worker[w].pc = "idle" /\ ~Busy(w) /\ \A q : ~Has(w, q)
  BY <1>1, SelectedFacts DEF Busy, Has
<1>4. Places
  BY <1>0, <1>1, <1>3, SelectedFacts DEF Places, Before, Owing
<1>5. Chained /\ OneLost
  BY <1>1, SelectedFacts, SliceConstants DEF Chained, OneLost, LostRow
<1>6. Covered
  BY <1>1, SelectedFacts DEF Covered, Waits
<1>7. DocsInv /\ BuildsInv
  BY <1>0, <1>1 DEF DocsInv, BuildsInv
<1> QED BY <1>2, <1>4, <1>5, <1>6, <1>7 DEF SliceInv

LEMMA SliceInvariant == SliceSpec => []SliceInv
<1>1. SliceInit => SliceInv
  BY SliceStarts
<1>2. SliceInv /\ [SliceNext]_sliceVars => SliceInv'
  <2> SUFFICES ASSUME SliceInv, [SliceNext]_sliceVars PROVE SliceInv'
    OBVIOUS
  <2>1. CASE SliceRunning /\ WorkerStep
    <3>1. ASSUME NEW w \in SliceWorkers, Claim(w) \/ HasProfile(w) \/ HasFacts(w) PROVE SliceInv'
      BY <3>1, ClaimKeeps, ProfileKeeps, FactsKeeps
    <3>2. ASSUME NEW w \in SliceWorkers, Retrieved(w) \/ RetrieveFails(w) PROVE SliceInv'
      BY <2>1, <3>2, RetrievedKeeps, FailsKeeps
    <3>3. ASSUME NEW b \in Builders, NEW u \in Units, Settle(b, u) PROVE SliceInv'
      BY <3>3, SettleKeeps
    <3>4. ASSUME AppendNext PROVE SliceInv'
      BY <2>1, <3>4, DocsKeeps, RowKeeps
    <3>5. ASSUME AppendFails \/ Summarise PROVE SliceInv'
      BY <2>1, <3>5, AppendFailsKeeps, SummariseKeeps
    <3> QED BY <2>1, <3>1, <3>2, <3>3, <3>4, <3>5 DEF WorkerStep
  <2>2. CASE Kill \/ Resume
    BY <2>2, KillKeeps, ResumeKeeps
  <2>3. CASE UNCHANGED sliceVars
    <3>1. UNCHANGED <<kept, worker, memo, begun>>
      BY <2>3 DEF sliceVars, kept
    <3>2. /\ worker' \in WorkerType
          /\ memo' \in [Builders -> [Units -> {"unset", "building", "text", "none"}]]
          /\ begun' \in [Builders -> [Units -> 0..1]] /\ BuildsInv'
      BY <3>1 DEF SliceInv, SliceTypes, WorkerType, Pcs, BuildsInv
    <3> QED BY <3>1, <3>2, GoesOn DEF kept
  <2> QED BY <2>1, <2>2, <2>3 DEF SliceNext
<1> QED BY <1>1, <1>2, PTL DEF SliceSpec

LEMMA SliceIsSound == SliceInv => SliceSound
<1> SUFFICES ASSUME SliceInv PROVE SliceSound
  OBVIOUS
<1>1. SliceTypes /\ FileInv
  BY DEF SliceInv
<1>2. SliceTypeOK
  <2>1. ToSet(chain) \subseteq Queried
    BY <1>1 DEF SliceTypes, ToSet
  <2> QED BY <1>1, <2>1 DEF SliceTypes, FileInv, LineType, Files, SliceTypeOK
<1>3. SummaryWhole
  <2> SUFFICES ASSUME act = "summarised"
               PROVE  Cardinality(LostRow) <= 2 /\ \A q \in Queried : HasRow(q) \/ q \in LostRow \/ Skipped(q)
    BY DEF SummaryWhole, LostRow
  <2>1. Cardinality(LostRow) <= 2
    <3>1. PICK p, q \in Queried : LostRow \subseteq {p, q}
      BY DEF SliceInv, OneLost
    <3>2. IsFiniteSet({p, q}) /\ Cardinality({p, q}) <= 2
      <4>1. IsFiniteSet({p}) /\ Cardinality({p}) = 1 /\ {p, q} = {p} \cup {q}
        BY FS_Singleton
      <4>2. IsFiniteSet({p} \cup {q})
            /\ Cardinality({p} \cup {q}) = IF q \in {p} THEN Cardinality({p}) ELSE Cardinality({p}) + 1
        BY <4>1, FS_AddElement
      <4> QED BY <4>1, <4>2
    <3>3. Cardinality(LostRow) <= Cardinality({p, q}) /\ Cardinality(LostRow) \in Nat /\ Cardinality({p, q}) \in Nat
      BY <3>1, <3>2, FS_Subset, FS_CardinalityType
    <3> QED BY <3>2, <3>3
  <2>2. \A q \in Queried : HasRow(q) \/ q \in LostRow \/ Skipped(q)
    BY DEF SliceInv, Covered, Waits, Has
  <2> QED BY <2>1, <2>2
<1>4. RowOnce
  BY <1>1 DEF FileInv, RowOnce
<1>5. DocsOfTheRow
  BY DEF SliceInv, DocsInv, DocsLast, DocsJoined, DocsOfTheRow
<1>6. BuiltOnce
  <2>1. \A b \in Builders, u \in Units : begun[b][u] \in 0..1
    BY <1>1 DEF SliceTypes
  <2> QED BY <2>1 DEF BuiltOnce
<1> QED BY <1>2, <1>3, <1>4, <1>5, <1>6 DEF SliceSound

\* For every list of queries, every number of workers and of failures, and appends
\* cut anywhere: over any kills and resumptions no query gets a second readable row,
\* a row finds the documents of its own retrieval unless these became part of another
\* line, a unit's passes are made once per run, and a summary vouches for a row of
\* every query but two at most that became one line in its start and those of units
\* without documents (run-beam-slice.ts).
THEOREM SliceIsPaired == SliceSpec => []SliceSound
<1> QED BY SliceInvariant, SliceIsSound, PTL
=============================================================================
