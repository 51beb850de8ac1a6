------------------------------ MODULE LlmCache ------------------------------
(***************************************************************************)
(* The on-disk cache of LLM responses (src/eval/cache.ts) and the calls    *)
(* that go through it: src/eval/cachedLlm.ts for the benchmark and the     *)
(* same lookup, call, store sequence written out in the gate scripts.      *)
(*                                                                         *)
(* A miss is stored under a temporary name and renamed.  The name is made  *)
(* of the key, the process id and the millisecond, so two calls of one     *)
(* process for one key that store in the same millisecond share a file;    *)
(* whether they do is a choice of the action that opens it.                *)
(*                                                                         *)
(* Prompts, hashes and latencies are abstracted: a key is a value, and a   *)
(* response is a member of Texts or too short to be stored.                *)
(***************************************************************************)
EXTENDS Integers, FiniteSets, Functions, TLC

CONSTANTS
    Callers,    \* calls one process may have in flight
    Keys,       \* cache keys
    Texts,      \* responses worth storing
    TooShort,   \* a response of fewer than five characters
    Usual,      \* the responses a provider gives when nothing is wrong
    MaxFaults   \* bound: other responses and thrown calls of one behaviour

ASSUME CacheConstants ==
    /\ Callers # {} /\ Keys # {}
    /\ TooShort \notin Texts
    /\ Usual \subseteq Texts
    /\ MaxFaults \in Nat

VARIABLES
    entry,      \* <key>.json: what a reader of the file would find
    tmp,        \* the temporary files there are, by the call that chose the name
    call,       \* the calls in flight
    paid,       \* history: how often the provider answered for a key
    heard,      \* history: the responses it gave for a key
    faults      \* history: how many calls went wrong

cacheVars == <<entry, tmp, call, paid, heard, faults>>
bought == <<paid, heard, faults>>

\* What a file holds: nothing is there, no bytes yet, two responses laid over
\* each other, or the JSON text of one response.
Torn == {"empty", "garbled"}
Files == {"absent"} \cup Torn \cup Texts
ASSUME FilesApart == Texts \cap ({"absent"} \cup Torn) = {}

CallSteps == {"idle", "lookup", "llm", "open", "put", "rename", "done", "failed"}
NoCall == [pc |-> "idle", key |-> CHOOSE k \in Keys : TRUE, text |-> TooShort,
           name |-> CHOOSE c \in Callers : TRUE, at |-> "gone"]

\* The temporary file's name, for the millisecond in which call n chose it.
Name(n, k) == <<n, k>>
TmpOf(c) == Name(call[c].name, call[c].key)

Call == [pc: CallSteps, key: Keys, text: Texts \cup {TooShort}, name: Callers,
         at: {"tmp", "entry", "gone"}]  \* at: where the file it has open is linked

CacheEmpty ==
    /\ entry = [k \in Keys |-> "absent"]
    /\ tmp = << >>
    /\ call = [c \in Callers |-> NoCall]
    /\ paid = [k \in Keys |-> 0]
    /\ heard = [k \in Keys |-> {}]

CacheInit == CacheEmpty /\ faults = 0

Become(c, r) == call' = [call EXCEPT ![c] = r]

-----------------------------------------------------------------------------
(* Slips.                                                                  *)

\* cacheSet writes straight to the entry's path.
StoreOpen_InPlace(c) ==
    /\ call[c].pc = "open"
    /\ entry' = [entry EXCEPT ![call[c].key] = "empty"]
    /\ Become(c, [call[c] EXCEPT !.pc = "put", !.at = "entry"])
    /\ UNCHANGED <<tmp, bought>>

\* cacheGet takes any file for an entry.
Lookup_Unparsed(c) ==
    /\ call[c].pc = "lookup"
    /\ LET found == entry[call[c].key] IN
       IF found # "absent"
       THEN Become(c, [call[c] EXCEPT !.pc = "done",
                                      !.text = IF found \in Texts THEN found ELSE TooShort])
       ELSE Become(c, [call[c] EXCEPT !.pc = "llm"])
    /\ UNCHANGED <<entry, tmp, bought>>

\* cacheGet hands on what the file holds.
Lookup_Raw(c) ==
    /\ call[c].pc = "lookup"
    /\ LET found == entry[call[c].key] IN
       IF found # "absent"
       THEN Become(c, [call[c] EXCEPT !.pc = "done", !.text = found])
       ELSE Become(c, [call[c] EXCEPT !.pc = "llm"])
    /\ UNCHANGED <<entry, tmp, bought>>

\* cacheSet fails without a word.
StoreOpen_Silent(c) ==
    /\ call[c].pc = "open"
    /\ Become(c, [call[c] EXCEPT !.pc = "done"])
    /\ UNCHANGED <<entry, tmp, bought>>

\* The caller never looks.
Lookup_Never(c) ==
    /\ call[c].pc = "lookup"
    /\ Become(c, [call[c] EXCEPT !.pc = "llm"])
    /\ UNCHANGED <<entry, tmp, bought>>

-----------------------------------------------------------------------------
(* The steps of one cached call.                                           *)

\* The call is made; a composing module says when and with which key.
Begin(c, k) == Become(c, [NoCall EXCEPT !.pc = "lookup", !.key = k, !.name = c])

\* cacheGet: a missing file and a file JSON.parse throws on are both a miss.
Lookup(c) ==
    /\ call[c].pc = "lookup"
    /\ LET found == entry[call[c].key] IN
       IF found \in Texts
       THEN Become(c, [call[c] EXCEPT !.pc = "done", !.text = found])
       ELSE Become(c, [call[c] EXCEPT !.pc = "llm"])
    /\ UNCHANGED <<entry, tmp, bought>>

\* The provider answers.  A response that is too short is handed on unstored.
Answers(c, t) ==
    /\ call[c].pc = "llm"
    /\ Become(c, [call[c] EXCEPT !.pc = IF t = TooShort THEN "done" ELSE "open", !.text = t])
    /\ paid' = [paid EXCEPT ![call[c].key] = @ + 1]
    /\ heard' = [heard EXCEPT ![call[c].key] = @ \cup {t}]
    /\ t \notin Usual => faults < MaxFaults
    /\ faults' = IF t \in Usual THEN faults ELSE faults + 1
    /\ UNCHANGED <<entry, tmp>>

\* The provider throws.
ProviderThrows(c) ==
    /\ call[c].pc = "llm"
    /\ faults < MaxFaults
    /\ faults' = faults + 1
    /\ Become(c, [call[c] EXCEPT !.pc = "failed"])
    /\ UNCHANGED <<entry, tmp, paid, heard>>

\* Names the temporary file could get: its own, or that of a call for the same
\* key that is between its own naming and its rename.
TmpNames(c) ==
    {c} \cup {call[d].name : d \in {e \in Callers : /\ e # c
                                                    /\ call[e].pc \in {"put", "rename"}
                                                    /\ call[e].key = call[c].key}}

\* writeFile opens the temporary file and truncates it.
StoreOpen(c) ==
    /\ call[c].pc = "open"
    /\ \E n \in TmpNames(c) :
        /\ tmp' = [m \in DOMAIN tmp \cup {Name(n, call[c].key)} |->
                     IF m = Name(n, call[c].key) THEN "empty" ELSE tmp[m]]
        /\ Become(c, [call[c] EXCEPT !.pc = "put", !.name = n, !.at = "tmp"])
    /\ UNCHANGED <<entry, bought>>

\* What writing t leaves in a file that holds f.
Overlaid(f, t) == IF f \in {"empty", t} THEN {t} ELSE {t, "garbled"}

\* writeFile writes the text into the file it has open, wherever that file is
\* linked by now.
StorePut(c) ==
    /\ call[c].pc = "put"
    /\ \/ /\ call[c].at = "tmp"
          /\ \E f \in Overlaid(tmp[TmpOf(c)], call[c].text) :
                tmp' = [tmp EXCEPT ![TmpOf(c)] = f]
          /\ UNCHANGED entry
       \/ /\ call[c].at = "entry"
          /\ \E f \in Overlaid(entry[call[c].key], call[c].text) :
                entry' = [entry EXCEPT ![call[c].key] = f]
          /\ UNCHANGED tmp
       \/ call[c].at = "gone" /\ UNCHANGED <<entry, tmp>>
    /\ Become(c, [call[c] EXCEPT !.pc = "rename"])
    /\ UNCHANGED bought

\* rename replaces the entry; the file of a shared name may be gone already.
\* Calls that have the renamed file open go on writing into the entry, and the
\* file that was the entry before is no longer linked.
StoreRename(c) ==
    /\ call[c].pc = "rename"
    /\ LET n == call[c].name
           k == call[c].key
       IN  IF TmpOf(c) \notin DOMAIN tmp
           THEN /\ Become(c, [call[c] EXCEPT !.pc = "failed"])
                /\ UNCHANGED <<entry, tmp>>
           ELSE /\ entry' = [entry EXCEPT ![k] = tmp[TmpOf(c)]]
                /\ tmp' = Restrict(tmp, DOMAIN tmp \ {TmpOf(c)})
                /\ call' = [d \in Callers |->
                     IF d = c THEN [call[c] EXCEPT !.pc = "done", !.at = "gone"]
                     ELSE IF call[d].pc \notin {"put", "rename"} \/ call[d].key # k THEN call[d]
                     ELSE IF call[d].at = "entry" THEN [call[d] EXCEPT !.at = "gone"]
                     ELSE IF call[d].name = n THEN [call[d] EXCEPT !.at = "entry"]
                     ELSE call[d]]
    /\ UNCHANGED bought

\* One step of a call.
CallStep(c) ==
    \/ Lookup(c)
    \/ \E t \in Texts \cup {TooShort} : Answers(c, t)
    \/ ProviderThrows(c)
    \/ StoreOpen(c)
    \/ StorePut(c)
    \/ StoreRename(c)

\* The process is killed: its temporary files stay behind under names no later
\* process will use.
CacheCrash ==
    /\ call' = [c \in Callers |-> NoCall]
    /\ tmp' = << >>
    /\ UNCHANGED <<entry, bought>>

-----------------------------------------------------------------------------
CacheTypeOK ==
    /\ entry \in [Keys -> Files]
    /\ DOMAIN tmp \subseteq Callers \X Keys
    /\ \A n \in DOMAIN tmp : tmp[n] \in Files \ {"absent"}
    /\ call \in [Callers -> Call]
    /\ \A k \in Keys : paid[k] \in Nat /\ heard[k] \subseteq Texts \cup {TooShort}

\* What a finished call hands on is a response some provider gave for its key:
\* no torn or overwritten file is ever taken for one (cacheGet, cache.ts:124-137).
HitIsAnAnswer ==
    \A c \in Callers : call[c].pc = "done" => call[c].text \in heard[call[c].key]

\* What the cache hands on is whole and true, as far as one call per key is made
\* at a time: CacheTypeOK bounds the files, HitIsAnAnswer the answers.
AnswersWhole == CacheTypeOK /\ HitIsAnAnswer
=============================================================================
