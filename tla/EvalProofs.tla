----------------------------- MODULE EvalProofs -----------------------------
(***************************************************************************)
(* Theorems about the calls of a benchmark, for every set of queries, keys *)
(* and texts and every bound: what the response cache hands on is whole    *)
(* and true, a gate script compares pairs, buys nothing twice and can be   *)
(* replayed, and a sweep resumes to the rows and scores of an unbroken     *)
(* one, wherever they were killed.                                         *)
(***************************************************************************)
EXTENDS PairedArms, BenchRunner, FiniteSetTheorems, WellFoundedInduction, TLAPS

-----------------------------------------------------------------------------
(* The cache.  CacheInv is inductive for the steps of any set of calls.    *)

CacheTypes ==
    /\ entry \in [Keys -> Files]
    /\ call \in [Callers -> Call]
    /\ paid \in [Keys -> Nat]
    /\ heard \in [Keys -> SUBSET (Texts \cup {TooShort})]
    /\ DOMAIN tmp \subseteq Callers \X Keys

\* What a file of key k may hold, and what a call has in hand.
Holds(k) == Torn \cup (heard[k] \cap Texts)
InHand(c) ==
    /\ call[c].pc \in {"open", "put", "rename"} => call[c].text \in heard[call[c].key] \cap Texts
    /\ call[c].pc = "done" => call[c].text \in heard[call[c].key]

CacheInv ==
    /\ CacheTypes
    /\ \A k \in Keys : entry[k] \in {"absent"} \cup Holds(k)
    /\ \A n \in DOMAIN tmp : tmp[n] \in Holds(n[2])
    /\ \A c \in Callers : InHand(c)

LEMMA NoCallTyped == NoCall \in Call /\ NoCall.pc = "idle"
BY CacheConstants DEF NoCall, Call, CallSteps

\* Beginning, dropping or forgetting calls disturbs no file.
LEMMA CallsChange ==
  ASSUME CacheInv, UNCHANGED <<entry, tmp, bought>>, call' \in [Callers -> Call],
         \A c \in Callers : call'[c] = call[c] \/ call'[c].pc \in {"idle", "lookup"}
  PROVE  CacheInv'
<1>1. CacheTypes'
  BY DEF CacheInv, CacheTypes, bought
<1>2. ASSUME NEW c \in Callers PROVE InHand(c)'
  BY <1>2 DEF CacheInv, InHand, bought
<1> QED BY <1>1, <1>2 DEF CacheInv, Holds, bought

LEMMA CrashKeeps == ASSUME CacheInv, CacheCrash PROVE CacheInv'
<1>1. CacheTypes'
  BY NoCallTyped DEF CacheInv, CacheTypes, CacheCrash, bought
<1>2. ASSUME NEW c \in Callers PROVE InHand(c)'
  BY NoCallTyped DEF InHand, CacheCrash
<1> QED BY <1>1, <1>2 DEF CacheInv, Holds, CacheCrash, bought

LEMMA CacheStarts == ASSUME CacheInit PROVE CacheInv
<1>1. CacheTypes
  BY NoCallTyped DEF CacheInit, CacheEmpty, CacheTypes, Files
<1>2. ASSUME NEW c \in Callers PROVE InHand(c)
  BY NoCallTyped DEF InHand, CacheInit, CacheEmpty
<1> QED BY <1>1, <1>2 DEF CacheInv, CacheInit, CacheEmpty

\* A step of call c leaves the other calls as they were, but for where the file
\* they have open is linked.
OnlyMoves(c) ==
    /\ call' \in [Callers -> Call]
    /\ call'[c].key = call[c].key
    /\ \A d \in Callers \ {c} : /\ call'[d].pc = call[d].pc /\ call'[d].key = call[d].key
                                /\ call'[d].text = call[d].text /\ call'[d].name = call[d].name

LEMMA StepMoves ==
  ASSUME CacheTypes, NEW c \in Callers, CallStep(c)
  PROVE  OnlyMoves(c)
<1>1. call \in [Callers -> Call] /\ call[c] \in Call
  BY DEF CacheTypes
<1>2. ASSUME NEW r \in Call, r.key = call[c].key, Become(c, r) PROVE OnlyMoves(c)
  BY <1>1, <1>2 DEF Become, OnlyMoves
<1>3. CASE Lookup(c)
  <2>1. PICK r : Become(c, r) /\ \/ \E t \in Texts : r = [call[c] EXCEPT !.pc = "done", !.text = t]
                                 \/ r = [call[c] EXCEPT !.pc = "llm"]
    BY <1>3 DEF Lookup
  <2>2. r \in Call /\ r.key = call[c].key
    BY <1>1, <2>1 DEF Call, CallSteps
  <2> QED BY <1>2, <2>1, <2>2
<1>4. ASSUME NEW t \in Texts \cup {TooShort}, Answers(c, t) PROVE OnlyMoves(c)
  <2>1. PICK p \in CallSteps : Become(c, [call[c] EXCEPT !.pc = p, !.text = t])
    BY <1>4 DEF Answers, CallSteps
  <2>2. [call[c] EXCEPT !.pc = p, !.text = t] \in Call /\ [call[c] EXCEPT !.pc = p, !.text = t].key = call[c].key
    BY <1>1 DEF Call
  <2> QED BY <1>2, <2>1, <2>2
<1>5. CASE ProviderThrows(c)
  <2>1. [call[c] EXCEPT !.pc = "failed"] \in Call /\ [call[c] EXCEPT !.pc = "failed"].key = call[c].key
    BY <1>1 DEF Call, CallSteps
  <2> QED BY <1>2, <1>5, <2>1 DEF ProviderThrows
<1>6. CASE StoreOpen(c)
  <2>1. \A n \in TmpNames(c) : n \in Callers
    BY <1>1 DEF TmpNames, CacheTypes, Call
  <2>2. PICK n \in Callers : Become(c, [call[c] EXCEPT !.pc = "put", !.name = n, !.at = "tmp"])
    BY <1>6, <2>1 DEF StoreOpen
  <2> DEFINE r == [call[c] EXCEPT !.pc = "put", !.name = n, !.at = "tmp"]
  <2>3. r \in Call /\ r.key = call[c].key
    BY <1>1 DEF Call, CallSteps
  <2> HIDE DEF r
  <2> QED BY <1>2, <2>2, <2>3 DEF r
<1>7. CASE StorePut(c)
  <2>1. [call[c] EXCEPT !.pc = "rename"] \in Call /\ [call[c] EXCEPT !.pc = "rename"].key = call[c].key
    BY <1>1 DEF Call, CallSteps
  <2> QED BY <1>2, <1>7, <2>1 DEF StorePut
<1>8. CASE StoreRename(c)
  <2>1. CASE TmpOf(c) \notin DOMAIN tmp
    <3>1. [call[c] EXCEPT !.pc = "failed"] \in Call /\ [call[c] EXCEPT !.pc = "failed"].key = call[c].key
      BY <1>1 DEF Call, CallSteps
    <3> QED BY <1>2, <1>8, <2>1, <3>1 DEF StoreRename
  <2>2. CASE TmpOf(c) \in DOMAIN tmp
    <3>1. \A d \in Callers : call[d] \in Call
      BY <1>1
    <3>2. \A d \in Callers \ {c} : call'[d] \in {call[d], [call[d] EXCEPT !.at = "gone"], [call[d] EXCEPT !.at = "entry"]}
      BY <1>8, <2>2 DEF StoreRename
    <3>3. call'[c] = [call[c] EXCEPT !.pc = "done", !.at = "gone"] /\ call' = [d \in Callers |-> call'[d]]
      BY <1>8, <2>2 DEF StoreRename
    <3>4. ASSUME NEW d \in Callers \ {c}
          PROVE  /\ call'[d] \in Call
                 /\ call'[d].pc = call[d].pc /\ call'[d].key = call[d].key
                 /\ call'[d].text = call[d].text /\ call'[d].name = call[d].name
      BY <3>1, <3>2 DEF Call
    <3>5. call'[c] \in Call /\ call'[c].key = call[c].key
      BY <1>1, <3>3 DEF Call, CallSteps
    <3> QED BY <3>3, <3>4, <3>5 DEF OnlyMoves
  <2> QED BY <2>1, <2>2
<1> QED BY <1>3, <1>4, <1>5, <1>6, <1>7, <1>8 DEF CallStep

\* A step keeps CacheInv.
LEMMA StepKeeps ==
  ASSUME CacheInv, NEW c \in Callers, CallStep(c)
  PROVE  CacheInv'
<1>1. CacheTypes /\ call \in [Callers -> Call] /\ call[c] \in Call
  BY DEF CacheInv, CacheTypes
<1>2. OnlyMoves(c)
  BY <1>1, StepMoves
<1>3. /\ call[c].key \in Keys /\ TmpOf(c) = <<call[c].name, call[c].key>>
      /\ TmpOf(c) \in Callers \X Keys /\ TmpOf(c)[2] = call[c].key
  BY <1>1 DEF Call, TmpOf, Name
\* Enough for a step: who has what in hand, and what became of the files.
<1>4. ASSUME entry' \in [Keys -> Files], paid' \in [Keys -> Nat], heard' \in [Keys -> SUBSET (Texts \cup {TooShort})],
             \A k \in Keys : heard[k] \subseteq heard'[k],
             DOMAIN tmp' \subseteq Callers \X Keys,
             \A k \in Keys : entry'[k] = entry[k] \/ entry'[k] \in Holds(k)',
             \A n \in DOMAIN tmp' : (n \in DOMAIN tmp /\ tmp'[n] = tmp[n]) \/ tmp'[n] \in Holds(n[2])',
             InHand(c)'
      PROVE  CacheInv'
  <2>1. CacheTypes'
    BY <1>2, <1>4 DEF CacheTypes, OnlyMoves
  <2>2. \A k \in Keys : Holds(k) \subseteq Holds(k)'
    BY <1>4 DEF Holds
  <2>3. \A k \in Keys : entry'[k] \in {"absent"} \cup Holds(k)'
    BY <1>4, <2>2 DEF CacheInv
  <2>4. \A n \in DOMAIN tmp' : tmp'[n] \in Holds(n[2])'
    <3> SUFFICES ASSUME NEW n \in DOMAIN tmp' PROVE tmp'[n] \in Holds(n[2])'
      OBVIOUS
    <3>1. n[2] \in Keys
      BY <1>4
    <3> QED BY <1>4, <2>2, <3>1 DEF CacheInv
  <2>5. ASSUME NEW d \in Callers PROVE InHand(d)'
    <3>1. CASE d = c
      BY <1>4, <3>1
    <3>2. CASE d # c
      <4>1. /\ call'[d].pc = call[d].pc /\ call'[d].key = call[d].key /\ call'[d].text = call[d].text
            /\ call[d].key \in Keys
        BY <1>1, <1>2, <3>2 DEF OnlyMoves, Call
      <4>2. heard[call[d].key] \subseteq heard'[call[d].key]
        BY <1>4, <4>1
      <4> QED BY <4>1, <4>2 DEF CacheInv, InHand
    <3> QED BY <3>1, <3>2
  <2> QED BY <2>1, <2>3, <2>4, <2>5 DEF CacheInv
<1>5. CASE Lookup(c)
  <2>1. UNCHANGED <<entry, tmp, paid, heard>>
    BY <1>5 DEF Lookup, bought
  <2>2. InHand(c)'
    <3>1. CASE entry[call[c].key] \in Texts
      <4>1. entry[call[c].key] \in heard[call[c].key]
        BY <1>3, <3>1, FilesApart DEF CacheInv, Holds
      <4>2. call'[c] = [call[c] EXCEPT !.pc = "done", !.text = entry[call[c].key]]
        BY <1>1, <1>5, <3>1 DEF Lookup, Become
      <4> QED BY <1>1, <2>1, <4>1, <4>2 DEF InHand, Call
    <3>2. CASE entry[call[c].key] \notin Texts
      <4>1. call'[c] = [call[c] EXCEPT !.pc = "llm"]
        BY <1>1, <1>5, <3>2 DEF Lookup, Become
      <4> QED BY <1>1, <4>1 DEF InHand, Call
    <3> QED BY <3>1, <3>2
  <2> QED BY <1>1, <1>4, <2>1, <2>2 DEF CacheTypes
<1>6. ASSUME NEW t \in Texts \cup {TooShort}, Answers(c, t) PROVE CacheInv'
  <2>1. /\ UNCHANGED <<entry, tmp>>
        /\ paid' = [paid EXCEPT ![call[c].key] = @ + 1]
        /\ heard' = [heard EXCEPT ![call[c].key] = @ \cup {t}]
        /\ call'[c] = [call[c] EXCEPT !.pc = IF t = TooShort THEN "done" ELSE "open", !.text = t]
    BY <1>1, <1>6 DEF Answers, Become
  <2>2. /\ paid' \in [Keys -> Nat] /\ heard' \in [Keys -> SUBSET (Texts \cup {TooShort})]
        /\ \A k \in Keys : heard[k] \subseteq heard'[k]
        /\ t \in heard'[call[c].key]
    BY <1>1, <1>3, <2>1 DEF CacheTypes
  <2>3. InHand(c)'
    BY <1>1, <2>1, <2>2 DEF InHand, Call
  <2> QED BY <1>1, <1>4, <2>1, <2>2, <2>3 DEF CacheTypes
<1>7. CASE ProviderThrows(c)
  <2>1. UNCHANGED <<entry, tmp, paid, heard>> /\ call'[c] = [call[c] EXCEPT !.pc = "failed"]
    BY <1>1, <1>7 DEF ProviderThrows, Become
  <2>2. InHand(c)'
    BY <1>1, <2>1 DEF InHand, Call
  <2> QED BY <1>1, <1>4, <2>1, <2>2 DEF CacheTypes
<1>8. CASE StoreOpen(c)
  <2>1. PICK n \in TmpNames(c) :
            /\ tmp' = [m \in DOMAIN tmp \cup {Name(n, call[c].key)} |->
                         IF m = Name(n, call[c].key) THEN "empty" ELSE tmp[m]]
            /\ Become(c, [call[c] EXCEPT !.pc = "put", !.name = n, !.at = "tmp"])
    BY <1>8 DEF StoreOpen
  <2>2. n \in Callers
    BY <1>1 DEF TmpNames, CacheTypes, Call
  <2>3. UNCHANGED <<entry, paid, heard>>
    BY <1>8 DEF StoreOpen, bought
  <2> DEFINE m == Name(n, call[c].key)
  <2>4. m \in Callers \X Keys
    BY <1>3, <2>2 DEF Name
  <2>5. /\ DOMAIN tmp' = DOMAIN tmp \cup {m}
        /\ \A x \in DOMAIN tmp' : tmp'[x] = IF x = m THEN "empty" ELSE tmp[x]
    BY <2>1
  <2>6. InHand(c)'
    <3>1. call'[c] = [call[c] EXCEPT !.pc = "put", !.name = n, !.at = "tmp"]
      BY <1>1, <2>1 DEF Become
    <3>2. call[c].pc = "open"
      BY <1>8 DEF StoreOpen
    <3>3. InHand(c)
      BY DEF CacheInv
    <3> QED BY <1>1, <2>3, <3>1, <3>2, <3>3 DEF InHand, Call
  <2>7. \A k : "empty" \in Holds(k)'
    BY DEF Holds, Torn
  <2> HIDE DEF m
  <2>8. \A x \in DOMAIN tmp' : (x \in DOMAIN tmp /\ tmp'[x] = tmp[x]) \/ tmp'[x] \in Holds(x[2])'
    BY <2>5, <2>7
  <2>9. DOMAIN tmp' \subseteq Callers \X Keys
    BY <1>1, <2>4, <2>5 DEF CacheTypes
  <2> QED BY <1>1, <1>4, <2>3, <2>6, <2>8, <2>9 DEF CacheTypes
<1>9. CASE StorePut(c)
  <2>1. call[c].pc = "put" /\ call'[c] = [call[c] EXCEPT !.pc = "rename"] /\ UNCHANGED <<paid, heard>>
    BY <1>1, <1>9 DEF StorePut, Become, bought
  <2>2. call[c].text \in heard[call[c].key] \cap Texts
    BY <2>1 DEF CacheInv, InHand
  <2>3. InHand(c)'
    BY <1>1, <2>1, <2>2 DEF InHand, Call
  <2>4. \A f : Overlaid(f, call[c].text) \subseteq Holds(call[c].key)'
    BY <2>1, <2>2 DEF Overlaid, Holds, Torn
  <2>5. ASSUME NEW f \in Overlaid(tmp[TmpOf(c)], call[c].text), tmp' = [tmp EXCEPT ![TmpOf(c)] = f], UNCHANGED entry
        PROVE  CacheInv'
    <3>1. DOMAIN tmp' = DOMAIN tmp
      BY <2>5
    <3>2. \A n \in DOMAIN tmp' : tmp'[n] = tmp[n] \/ (n = TmpOf(c) /\ tmp'[n] = f)
      BY <2>5
    <3>3. f \in Holds(call[c].key)'
      BY <2>4, <2>5
    <3> QED BY <1>1, <1>3, <1>4, <2>1, <2>3, <2>5, <3>1, <3>2, <3>3 DEF CacheTypes
  <2>6. ASSUME NEW f \in Overlaid(entry[call[c].key], call[c].text), entry' = [entry EXCEPT ![call[c].key] = f],
               UNCHANGED tmp
        PROVE  CacheInv'
    <3>1. f \in Holds(call[c].key)' /\ f \in Files
      BY <2>1, <2>2, <2>4, <2>6 DEF Files, Overlaid, Torn
    <3>2. entry' \in [Keys -> Files] /\ \A k \in Keys : entry'[k] = entry[k] \/ (k = call[c].key /\ entry'[k] = f)
      BY <1>1, <2>6, <3>1 DEF CacheTypes
    <3> QED BY <1>1, <1>4, <2>1, <2>3, <2>6, <3>1, <3>2 DEF CacheTypes
  <2>7. CASE UNCHANGED <<entry, tmp>>
    BY <1>1, <1>4, <2>1, <2>3, <2>7 DEF CacheTypes
  <2> QED BY <1>9, <2>5, <2>6, <2>7 DEF StorePut
<1>10. CASE StoreRename(c)
  <2>1. call[c].pc = "rename" /\ UNCHANGED <<paid, heard>>
    BY <1>10 DEF StoreRename, bought
  <2>2. InHand(c)
    BY DEF CacheInv
  <2>3. CASE TmpOf(c) \notin DOMAIN tmp
    <3>1. call'[c] = [call[c] EXCEPT !.pc = "failed"] /\ UNCHANGED <<entry, tmp>>
      BY <1>1, <1>10, <2>3 DEF StoreRename, Become
    <3>2. InHand(c)'
      BY <1>1, <3>1 DEF InHand, Call
    <3> QED BY <1>1, <1>4, <2>1, <3>1, <3>2 DEF CacheTypes
  <2>4. CASE TmpOf(c) \in DOMAIN tmp
    <3>1. /\ entry' = [entry EXCEPT ![call[c].key] = tmp[TmpOf(c)]]
          /\ tmp' = Restrict(tmp, DOMAIN tmp \ {TmpOf(c)})
          /\ call'[c] = [call[c] EXCEPT !.pc = "done", !.at = "gone"]
      BY <1>10, <2>4 DEF StoreRename
    <3>2. tmp[TmpOf(c)] \in Holds(call[c].key)
      <4>1. \A n \in DOMAIN tmp : tmp[n] \in Holds(n[2])
        BY DEF CacheInv
      <4> QED BY <1>3, <2>4, <4>1
    <3>3. tmp[TmpOf(c)] \in Files
      BY <3>2 DEF Holds, Files
    <3>7. \A k : Holds(k)' = Holds(k)
      BY <2>1 DEF Holds
    <3>4. InHand(c)'
      BY <1>1, <2>1, <2>2, <3>1 DEF InHand, Call
    <3>5. entry' \in [Keys -> Files] /\ \A k \in Keys : entry'[k] = entry[k] \/ entry'[k] \in Holds(k)'
      BY <1>1, <1>3, <3>1, <3>2, <3>3, <3>7 DEF CacheTypes
    <3>6. DOMAIN tmp' \subseteq DOMAIN tmp /\ \A n \in DOMAIN tmp' : tmp'[n] = tmp[n]
      BY <3>1 DEF Restrict
    <3> QED BY <1>1, <1>4, <2>1, <3>4, <3>5, <3>6 DEF CacheTypes
  <2> QED BY <2>3, <2>4
<1> QED BY <1>5, <1>6, <1>7, <1>8, <1>9, <1>10 DEF CallStep

LEMMA CacheIsSound == CacheInv => AnswersWhole
<1> SUFFICES ASSUME CacheInv PROVE AnswersWhole
  OBVIOUS
<1>1. CacheTypeOK
  <2>1. \A n \in DOMAIN tmp : tmp[n] \in Files \ {"absent"}
    BY FilesApart DEF CacheInv, Holds, Files, Torn
  <2> QED BY <2>1 DEF CacheInv, CacheTypes, CacheTypeOK
<1>2. HitIsAnAnswer
  BY DEF CacheInv, InHand, HitIsAnAnswer
<1> QED BY <1>1, <1>2 DEF AnswersWhole

-----------------------------------------------------------------------------
(* The gate scripts.  ArmsInv is inductive.                                *)

Active(c) == call[c].pc # "idle"
Unshared == Keys \ SharedKeys
Bad == {Junk, TooShort}
Attempts == 0..LastAttempt

ArmsTypes ==
    /\ jobs \in Workers /\ script \in Scripts
    /\ same \subseteq Items /\ bare \subseteq Items
    /\ ArmsTypeOK

\* A call that is under way is the one its leg waits for.
CallsOwned ==
    \A c \in Callers : Active(c) =>
        /\ c \in Legs /\ leg[c].st = "asking"
        /\ call[c].key = ArmKey(c[1], c[2], leg[c].attempt)

\* A call for a key of its own has its file to itself, and leaves an entry that
\* it was answered from as it found or made it.
Lone(c) ==
    /\ call[c].pc \in {"put", "rename"} =>
          /\ call[c].at = "tmp" /\ call[c].name = c
          /\ <<c, call[c].key>> \in DOMAIN tmp
          /\ tmp[<<c, call[c].key>>] = IF call[c].pc = "put" THEN "empty" ELSE call[c].text
    /\ call[c].pc \in {"llm", "open", "put", "rename"} => entry[call[c].key] \notin Texts
    /\ call[c].pc = "done" => call[c].text = TooShort \/ entry[call[c].key] = call[c].text
StoresAlone == \A c \in Callers : Active(c) /\ call[c].key \in Unshared => Lone(c)

\* The legs of queries nobody has taken are untouched, and no call outlives its
\* process.
LegsBegin ==
    /\ \A l \in Legs : l[1] \notin 1..(cursor - 1) => leg[l] = NoLeg
    /\ \A l \in Legs : leg[l].attempt \in Attempts
    /\ \A l \in Legs : leg[l].st = "asking" => leg[l].text = NoReply
    /\ phase \in {"killed", "aborted"} => \A c \in Callers : ~Active(c)

\* Every query that was taken is at one worker, scored or excluded.
OutItems == {r.item : r \in out}
QueriesCounted ==
    /\ \A w \in Workers : worker[w] \in Items =>
          /\ worker[w] < cursor /\ worker[w] \notin excluded \cup OutItems
          /\ \A v \in Workers : worker[v] = worker[w] => v = w
    /\ excluded \cap OutItems = {}
    /\ \A i \in excluded \cup OutItems : i < cursor
    /\ \A r, s \in out : r.item = s.item => r = s
    /\ \A i \in Items : i < cursor =>
          i \in excluded \cup OutItems \/ \E w \in Workers : worker[w] = i
    /\ \A w \in Workers : w <= jobs /\ worker[w] = -1 => cursor \notin Items
    /\ phase = "written" => \A w \in Workers : worker[w] = -1

\* The attempts a leg has behind it drew an unusable reply each.
RetriesFresh ==
    \A l \in Legs : l[1] \notin same =>
        /\ leg[l].st = "asking" =>
              \A n \in Attempts : n < leg[l].attempt => heard[<<l[1], l[2], n>>] \cap Bad # {}
        /\ leg[l].st = "resolved" /\ leg[l].text = NoReply =>
              \A n \in Attempts : heard[<<l[1], l[2], n>>] \cap Bad # {}

\* A reply that was kept is in the cache, or too short to be.
InCache(i, arm, t) == t = TooShort \/ \E n \in Attempts : entry[<<i, arm, n>>] = t
RepliesStored ==
    /\ \A l \in Legs : l[1] \notin same /\ leg[l].st = "resolved" /\ leg[l].text # NoReply =>
          InCache(l[1], l[2], leg[l].text)
    /\ \A r \in out : r.item \notin same => \A arm \in Arms : InCache(r.item, arm, r[arm])

ArmsInv ==
    /\ ArmsTypes /\ CacheInv
    /\ CallsOwned /\ StoresAlone /\ EntryWhole /\ LegsBegin
    /\ QueriesCounted /\ RetriesFresh /\ RepliesStored

USE DEF Legs, Arms

LEMMA ArmKeys ==
  ASSUME ArmsTypes, NEW i \in Items, NEW arm \in Arms, NEW n \in {0, 1}
  PROVE  /\ ArmKey(i, arm, n) \in Keys
         /\ i \notin same => ArmKey(i, arm, n) = <<i, arm, n>> /\ <<i, arm, n>> \in Unshared
         /\ i \in same => ArmKey(i, arm, n) \in SharedKeys
BY ArmsConstants DEF ArmKey, Unshared, SharedKeys, ArmsTypes

LEMMA AttemptsAre == Attempts \subseteq {0, 1} /\ Attempts = 0..LastAttempt /\ LastAttempt \in {0, 1}
BY DEF Attempts, LastAttempt

\* The leg of a call, and that no other call is for its key.
LEMMA OwnLeg ==
  ASSUME ArmsTypes, CallsOwned, NEW c \in Callers, Active(c)
  PROVE  /\ c \in Legs /\ c[1] \in Items /\ c[2] \in Arms /\ c = <<c[1], c[2]>>
         /\ leg[c].st = "asking" /\ leg[c].attempt \in {0, 1}
         /\ call[c].key = ArmKey(c[1], c[2], leg[c].attempt)
         /\ call[c].key \in Keys
         /\ call[c].key \in Unshared => c[1] \notin same /\ call[c].key = <<c[1], c[2], leg[c].attempt>>
         /\ c[1] \notin same => call[c].key \in Unshared
<1>1. c \in Legs /\ leg[c].st = "asking" /\ call[c].key = ArmKey(c[1], c[2], leg[c].attempt)
  BY DEF CallsOwned
<1>2. c[1] \in Items /\ c[2] \in Arms /\ c = <<c[1], c[2]>> /\ leg[c].attempt \in {0, 1}
  BY <1>1 DEF ArmsTypes, ArmsTypeOK
<1> PICK n \in {0, 1} : n = leg[c].attempt
  BY <1>2
<1>3. /\ ArmKey(c[1], c[2], n) \in Keys
      /\ c[1] \notin same => ArmKey(c[1], c[2], n) = <<c[1], c[2], n>> /\ <<c[1], c[2], n>> \in Unshared
      /\ c[1] \in same => ArmKey(c[1], c[2], n) \in SharedKeys
  BY <1>2, ArmKeys
<1> QED BY <1>1, <1>2, <1>3 DEF Unshared

LEMMA KeyAlone ==
  ASSUME ArmsTypes, CallsOwned, NEW c \in Callers, NEW d \in Callers, Active(c), Active(d),
         call[c].key = call[d].key, call[c].key \in Unshared
  PROVE  c = d
<1>1. call[c].key = <<c[1], c[2], leg[c].attempt>> /\ c = <<c[1], c[2]>>
  BY OwnLeg
<1>2. call[d].key = <<d[1], d[2], leg[d].attempt>> /\ d = <<d[1], d[2]>>
  BY OwnLeg
<1>3. <<c[1], c[2], leg[c].attempt>> = <<d[1], d[2], leg[d].attempt>>
  BY <1>1, <1>2
<1>4. c[1] = d[1] /\ c[2] = d[2]
  BY <1>3
<1> QED BY <1>1, <1>2, <1>4

\* What a step of call c does to the files and to other calls.
LEMMA StepElsewhere ==
  ASSUME CacheInv, NEW c \in Callers, CallStep(c)
  PROVE  /\ Active(c)
         /\ \A k \in Keys : heard[k] \subseteq heard'[k]
         /\ \A k \in Keys : k # call[c].key => entry'[k] = entry[k]
         /\ \A n \in DOMAIN tmp : n[2] # call[c].key => n \in DOMAIN tmp' /\ tmp'[n] = tmp[n]
         /\ \A d \in Callers : d # c /\ call[d].key # call[c].key => call'[d] = call[d]
<1>1. CacheTypes /\ call \in [Callers -> Call] /\ call[c] \in Call
  BY DEF CacheInv, CacheTypes
<1>2. TmpOf(c) = <<call[c].name, call[c].key>> /\ TmpOf(c)[2] = call[c].key
  BY DEF TmpOf, Name
<1>3. Active(c)
  BY DEF CallStep, Active, Lookup, Answers, ProviderThrows, StoreOpen, StorePut, StoreRename
<1>4. \A k \in Keys : heard[k] \subseteq heard'[k]
  <2>1. CASE \E t \in Texts \cup {TooShort} : Answers(c, t)
    BY <1>1, <2>1 DEF Answers, CacheTypes
  <2>2. CASE heard' = heard
    BY <2>2
  <2> QED BY <2>1, <2>2 DEF CallStep, Lookup, ProviderThrows, StoreOpen, StorePut, StoreRename, bought
<1>5. \A k \in Keys : k # call[c].key => entry'[k] = entry[k]
  <2>1. entry' = entry \/ \E f : entry' = [entry EXCEPT ![call[c].key] = f]
    BY DEF CallStep, Lookup, Answers, ProviderThrows, StoreOpen, StorePut, StoreRename
  <2> QED BY <1>1, <2>1 DEF CacheTypes
<1>6. \A n \in DOMAIN tmp : n[2] # call[c].key => n \in DOMAIN tmp' /\ tmp'[n] = tmp[n]
  <2>1. CASE StoreOpen(c)
    <3>1. PICK n : tmp' = [x \in DOMAIN tmp \cup {<<n, call[c].key>>} |->
                              IF x = <<n, call[c].key>> THEN "empty" ELSE tmp[x]]
      BY <2>1 DEF StoreOpen, Name
    <3> QED BY <3>1
  <2>2. CASE StorePut(c)
    BY <1>2, <2>2 DEF StorePut
  <2>3. CASE StoreRename(c)
    BY <1>2, <2>3 DEF StoreRename, Restrict
  <2>4. CASE tmp' = tmp
    BY <2>4
  <2> QED BY <2>1, <2>2, <2>3, <2>4 DEF CallStep, Lookup, Answers, ProviderThrows
<1>7. ASSUME NEW d \in Callers, d # c, call[d].key # call[c].key PROVE call'[d] = call[d]
  <2>1. CASE StoreRename(c)
    BY <1>1, <1>7, <2>1 DEF StoreRename, Become
  <2>2. CASE \E r : Become(c, r)
    BY <1>1, <1>7, <2>2 DEF Become
  <2> QED BY <2>1, <2>2 DEF CallStep, Lookup, Answers, ProviderThrows, StoreOpen, StorePut
<1> QED BY <1>3, <1>4, <1>5, <1>6, <1>7

\* A call for a key of its own stores what it was answered and nothing else.
LEMMA StepLone ==
  ASSUME CacheInv, NEW c \in Callers, CallStep(c), Lone(c), entry[call[c].key] \notin Torn,
         \A d \in Callers : d # c /\ Active(d) => call[d].key # call[c].key
  PROVE  /\ Lone(c)'
         /\ entry[call[c].key] \in Texts => entry'[call[c].key] = entry[call[c].key]
         /\ entry'[call[c].key] \notin Torn
<1>1. /\ CacheTypes /\ call \in [Callers -> Call] /\ call[c] \in Call /\ call[c].key \in Keys
      /\ InHand(c) /\ Active(c)
  <2>1. Active(c)
    BY StepElsewhere
  <2> QED BY <2>1 DEF CacheInv, CacheTypes, Call
<1>2. TmpOf(c) = <<call[c].name, call[c].key>>
  BY DEF TmpOf, Name
<1>3. CASE Lookup(c)
  <2>1. CASE entry[call[c].key] \in Texts
    <3>1. entry' = entry /\ call'[c] = [call[c] EXCEPT !.pc = "done", !.text = entry[call[c].key]]
      BY <1>1, <1>3, <2>1 DEF Lookup, Become
    <3> QED BY <1>1, <3>1 DEF Lone, Call
  <2>2. CASE entry[call[c].key] \notin Texts
    <3>1. entry' = entry /\ call'[c] = [call[c] EXCEPT !.pc = "llm"]
      BY <1>1, <1>3, <2>2 DEF Lookup, Become
    <3> QED BY <1>1, <2>2, <3>1 DEF Lone, Call
  <2> QED BY <2>1, <2>2
<1>4. CASE \E t \in Texts \cup {TooShort} : Answers(c, t)
  <2>1. PICK t \in Texts \cup {TooShort} :
          /\ call[c].pc = "llm" /\ entry' = entry
          /\ call'[c] = [call[c] EXCEPT !.pc = IF t = TooShort THEN "done" ELSE "open", !.text = t]
    BY <1>1, <1>4 DEF Answers, Become
  <2> QED BY <1>1, <2>1 DEF Lone, Call
<1>5. CASE ProviderThrows(c)
  <2>1. entry' = entry /\ call'[c] = [call[c] EXCEPT !.pc = "failed"]
    BY <1>1, <1>5 DEF ProviderThrows, Become
  <2> QED BY <1>1, <2>1 DEF Lone, Call
<1>6. CASE StoreOpen(c)
  <2>1. TmpNames(c) \subseteq {c}
    <3>1. ASSUME NEW e \in Callers, e # c, call[e].pc \in {"put", "rename"}, call[e].key = call[c].key
          PROVE  FALSE
      BY <1>1, <3>1 DEF Active
    <3> QED BY <3>1 DEF TmpNames
  <2>2. /\ tmp' = [m \in DOMAIN tmp \cup {<<c, call[c].key>>} |->
                      IF m = <<c, call[c].key>> THEN "empty" ELSE tmp[m]]
        /\ call'[c] = [call[c] EXCEPT !.pc = "put", !.name = c, !.at = "tmp"]
        /\ call[c].pc = "open" /\ entry' = entry
    BY <1>1, <1>6, <2>1 DEF StoreOpen, Become, Name
  <2> QED BY <1>1, <2>2 DEF Lone, Call
<1>7. CASE StorePut(c)
  <2>1. /\ call[c].pc = "put" /\ call[c].at = "tmp" /\ call[c].name = c
        /\ TmpOf(c) \in DOMAIN tmp /\ tmp[TmpOf(c)] = "empty" /\ TmpOf(c) = <<c, call[c].key>>
    BY <1>1, <1>2, <1>7 DEF StorePut, Lone
  <2>2. /\ tmp' = [tmp EXCEPT ![TmpOf(c)] = call[c].text] /\ entry' = entry
        /\ call'[c] = [call[c] EXCEPT !.pc = "rename"]
    BY <1>1, <1>7, <2>1 DEF StorePut, Become, Overlaid
  <2>3. tmp'[<<c, call[c].key>>] = call[c].text /\ DOMAIN tmp' = DOMAIN tmp
    BY <2>1, <2>2
  <2> QED BY <1>1, <2>1, <2>2, <2>3 DEF Lone, Call
<1>8. CASE StoreRename(c)
  <2>1. /\ call[c].pc = "rename" /\ call[c].name = c
        /\ TmpOf(c) \in DOMAIN tmp /\ tmp[TmpOf(c)] = call[c].text
    BY <1>1, <1>2, <1>8 DEF StoreRename, Lone
  <2>2. /\ entry' = [entry EXCEPT ![call[c].key] = call[c].text]
        /\ call'[c] = [call[c] EXCEPT !.pc = "done", !.at = "gone"]
    BY <1>1, <1>8, <2>1 DEF StoreRename
  <2>3. call[c].text \in Texts /\ call[c].text \notin Torn
    BY <1>1, <2>1, FilesApart DEF InHand
  <2>4. entry'[call[c].key] = call[c].text
    BY <1>1, <2>2 DEF CacheTypes
  <2> QED BY <1>1, <2>1, <2>2, <2>3, <2>4 DEF Lone, Call
<1> QED BY <1>3, <1>4, <1>5, <1>6, <1>7, <1>8 DEF CallStep

LEMMA StepAlone ==
  ASSUME ArmsInv, NEW c \in Callers, CallStep(c), call[c].key \in Unshared
  PROVE  /\ Lone(c)'
         /\ entry[call[c].key] \in Texts => entry'[call[c].key] = entry[call[c].key]
         /\ entry'[call[c].key] \notin Torn
<1>1. CacheInv /\ Active(c)
  BY StepElsewhere DEF ArmsInv
<1>2. call[c].key \in Keys
  BY <1>1 DEF CacheInv, CacheTypes, Call
<1>3. Lone(c) /\ entry[call[c].key] \notin Torn
  BY <1>1, <1>2 DEF ArmsInv, StoresAlone, EntryWhole, Unshared
<1>4. \A d \in Callers : d # c /\ Active(d) => call[d].key # call[c].key
  BY <1>1, KeyAlone DEF ArmsInv
<1> QED BY <1>1, <1>3, <1>4, StepLone

\* Actions that only begin, drop or forget calls leave the files as they are.
LEMMA FilesStay ==
  ASSUME ArmsInv, UNCHANGED <<entry, tmp, bought, same>>, call' \in [Callers -> Call],
         \A c \in Callers : call'[c] = call[c] \/ call'[c].pc \in {"idle", "lookup"}
  PROVE  CacheInv' /\ StoresAlone' /\ EntryWhole'
<1>1. CacheInv'
  BY CallsChange DEF ArmsInv
<1>2. ASSUME NEW c \in Callers, Active(c)', call'[c].key \in Unshared' PROVE Lone(c)'
  <2>1. CASE call'[c] = call[c]
    <3>1. Lone(c)
      BY <1>2, <2>1 DEF ArmsInv, StoresAlone, Active, Unshared, SharedKeys
    <3> QED BY <2>1, <3>1 DEF Lone
  <2>2. CASE call'[c].pc \in {"idle", "lookup"}
    BY <2>2 DEF Lone
  <2> QED BY <1>2, <2>1, <2>2
<1>3. EntryWhole'
  BY DEF ArmsInv, EntryWhole, SharedKeys
<1> QED BY <1>1, <1>2, <1>3 DEF StoresAlone

LEMMA CrashStays ==
  ASSUME ArmsInv, CacheCrash, UNCHANGED same
  PROVE  /\ CacheInv' /\ StoresAlone' /\ EntryWhole'
         /\ \A c \in Callers : ~Active(c)'
<1>1. CacheInv'
  BY CrashKeeps DEF ArmsInv
<1>2. \A c \in Callers : ~Active(c)'
  BY NoCallTyped DEF CacheCrash, Active
<1>3. EntryWhole'
  BY DEF ArmsInv, EntryWhole, SharedKeys, CacheCrash
<1> QED BY <1>1, <1>2, <1>3 DEF StoresAlone

\* What was heard and what was stored stay so.
Kept ==
    /\ UNCHANGED <<same, script>>
    /\ \A k \in Keys : heard[k] \subseteq heard'[k]
    /\ \A k \in Unshared : entry[k] \in Texts => entry'[k] = entry[k]

LEMMA InCacheKept ==
  ASSUME ArmsTypes, Kept, NEW i \in Items, i \notin same, NEW arm \in Arms,
         NEW t \in Texts \cup {TooShort}, InCache(i, arm, t)
  PROVE  InCache(i, arm, t)'
<1>1. CASE t = TooShort
  BY <1>1 DEF InCache
<1>2. CASE t \in Texts
  <2>1. PICK n \in Attempts : t = TooShort \/ entry[<<i, arm, n>>] = t
    BY DEF InCache, Attempts, LastAttempt
  <2>2. <<i, arm, n>> \in Unshared
    BY <2>1, ArmKeys, AttemptsAre
  <2>3. t = TooShort \/ entry'[<<i, arm, n>>] = t
    BY <1>2, <2>1, <2>2 DEF Kept
  <2>4. Attempts' = Attempts
    BY DEF Kept, Attempts, LastAttempt
  <2> QED BY <2>1, <2>3, <2>4 DEF InCache
<1> QED BY <1>1, <1>2

\* As long as legs and results are left alone, so is what is said of them.
LEMMA RepliesKept ==
  ASSUME ArmsInv, Kept, UNCHANGED <<leg, out>>
  PROVE  RetriesFresh' /\ RepliesStored'
<1>1. ArmsTypes /\ Attempts' = Attempts
  BY DEF ArmsInv, Kept, Attempts, LastAttempt
<1>2. ASSUME NEW l \in Legs, l[1] \notin same, NEW n \in Attempts,
             heard[<<l[1], l[2], n>>] \cap Bad # {}
      PROVE  heard'[<<l[1], l[2], n>>] \cap Bad # {}
  <2>1. l[1] \in Items /\ l[2] \in Arms /\ n \in {0, 1}
    BY AttemptsAre
  <2>2. <<l[1], l[2], n>> \in Keys
    BY <1>1, <1>2, <2>1, ArmKeys DEF Unshared
  <2> QED BY <1>2, <2>2 DEF Kept
<1>3. RetriesFresh'
  BY <1>1, <1>2 DEF ArmsInv, RetriesFresh, Kept
<1>4. ASSUME NEW l \in Legs, l[1] \notin same, leg[l].st = "resolved", leg[l].text # NoReply
      PROVE  InCache(l[1], l[2], leg[l].text)'
  <2>1. InCache(l[1], l[2], leg[l].text) /\ leg[l].text \in Texts \cup {TooShort}
    BY <1>1, <1>4 DEF ArmsInv, RepliesStored, ArmsTypes, ArmsTypeOK
  <2>2. l[1] \in Items /\ l[2] \in Arms
    OBVIOUS
  <2> PICK t \in Texts \cup {TooShort} : t = leg[l].text
    BY <2>1
  <2>3. InCache(l[1], l[2], t)'
    BY <1>1, <1>4, <2>1, <2>2, InCacheKept
  <2>4. t = leg[l].text /\ leg' = leg
    OBVIOUS
  <2> QED BY <2>3, <2>4 DEF InCache
<1>5. ASSUME NEW r \in out, r.item \notin same, NEW arm \in Arms PROVE InCache(r.item, arm, r[arm])'
  <2>1. InCache(r.item, arm, r[arm]) /\ r.item \in Items /\ r[arm] \in Texts \cup {TooShort}
    BY <1>1, <1>5 DEF ArmsInv, RepliesStored, ArmsTypes, ArmsTypeOK
  <2> QED BY <1>1, <1>5, <2>1, InCacheKept
<1>6. RepliesStored'
  BY <1>1, <1>4, <1>5 DEF RepliesStored, Kept
<1> QED BY <1>3, <1>6

\* What only counts queries is kept by everything that leaves them alone.
counts == <<jobs, cursor, worker, out, excluded, phase>>
LEMMA CountsKept == ASSUME QueriesCounted, UNCHANGED counts PROVE QueriesCounted'
BY DEF QueriesCounted, OutItems, counts

\* A step of one of the calls.
LEMMA CallKeeps ==
  ASSUME ArmsInv, NEW l \in Legs, HandsFree, CallStep(l), UNCHANGED armsVars
  PROVE  ArmsInv'
<1> l \in Callers
  BY ArmsConstants
<1>1. /\ ArmsTypes /\ CacheInv /\ CacheTypes /\ CallsOwned /\ phase = "running"
      /\ call \in [Callers -> Call]
  BY DEF ArmsInv, HandsFree, CacheInv, CacheTypes
<1>2. /\ Active(l)
      /\ \A k \in Keys : heard[k] \subseteq heard'[k]
      /\ \A k \in Keys : k # call[l].key => entry'[k] = entry[k]
      /\ \A n \in DOMAIN tmp : n[2] # call[l].key => n \in DOMAIN tmp' /\ tmp'[n] = tmp[n]
      /\ \A d \in Callers : d # l /\ call[d].key # call[l].key => call'[d] = call[d]
  BY <1>1, StepElsewhere
<1>3. OnlyMoves(l)
  BY <1>1, StepMoves
<1>4. CacheInv'
  BY <1>1, StepKeeps
<1>5. ArmsTypes'
  BY <1>1 DEF ArmsTypes, ArmsTypeOK, armsVars
<1>6. CallsOwned'
  <2>1. \A c \in Callers : Active(c)' => Active(c) /\ call'[c].key = call[c].key
    BY <1>2, <1>3 DEF OnlyMoves, Active
  <2> QED BY <1>1, <2>1 DEF CallsOwned, armsVars, ArmKey
<1>7. ASSUME call[l].key \in Unshared
      PROVE  /\ Lone(l)' /\ entry'[call[l].key] \notin Torn
             /\ entry[call[l].key] \in Texts => entry'[call[l].key] = entry[call[l].key]
  BY <1>7, StepAlone
<1>8. ASSUME NEW c \in Callers, Active(c)', call'[c].key \in Unshared' PROVE Lone(c)'
  <2>1. CASE c = l
    BY <1>3, <1>7, <1>8, <2>1 DEF OnlyMoves, Unshared, SharedKeys, armsVars
  <2>2. CASE c # l
    <3>1. Active(c) /\ call'[c].key = call[c].key /\ call[c].key \in Unshared
      BY <1>3, <1>8, <2>2 DEF OnlyMoves, Active, Unshared, SharedKeys, armsVars
    <3>2. call[c].key # call[l].key
      BY <1>1, <1>2, <2>2, <3>1, KeyAlone
    <3>3. call'[c] = call[c] /\ entry'[call[c].key] = entry[call[c].key]
      BY <1>2, <2>2, <3>1, <3>2 DEF Unshared
    <3>4. <<c, call[c].key>> \in DOMAIN tmp =>
            <<c, call[c].key>> \in DOMAIN tmp' /\ tmp'[<<c, call[c].key>>] = tmp[<<c, call[c].key>>]
      BY <1>2, <3>2
    <3>5. Lone(c)
      BY <3>1 DEF ArmsInv, StoresAlone
    <3> QED BY <3>3, <3>4, <3>5 DEF Lone
  <2> QED BY <2>1, <2>2
<1>9. StoresAlone'
  BY <1>8 DEF StoresAlone
<1>10. EntryWhole'
  BY <1>2, <1>7 DEF ArmsInv, EntryWhole, Unshared, SharedKeys, armsVars
<1>11. Kept
  BY <1>2, <1>7 DEF Kept, Unshared, armsVars
<1>12. LegsBegin'
  BY <1>1 DEF ArmsInv, LegsBegin, armsVars, Attempts, LastAttempt
<1>13. QueriesCounted'
  BY CountsKept DEF ArmsInv, armsVars, counts
<1>14. RetriesFresh' /\ RepliesStored'
  BY <1>11, RepliesKept DEF armsVars
<1> QED BY <1>4, <1>5, <1>6, <1>9, <1>10, <1>12, <1>13, <1>14 DEF ArmsInv

LEMMA ItemsCount == Cardinality(Items) \in Nat /\ \A i : i \in Items <=> i \in Int /\ 1 <= i /\ i <= Cardinality(Items)
<1>1. IsFiniteSet(Items) /\ Items = 1..Cardinality(Items)
  BY ArmsConstants
<1>2. Cardinality(Items) \in Nat
  BY <1>1, FS_CardinalityType
<1>3. ASSUME NEW n \in Nat PROVE \A i : i \in 1..n <=> i \in Int /\ 1 <= i /\ i <= n
  OBVIOUS
<1>4. \A i : i \in 1..Cardinality(Items) <=> i \in Int /\ 1 <= i /\ i <= Cardinality(Items)
  BY <1>2, <1>3, Zenon
<1> QED BY <1>1, <1>2, <1>4, Zenon

LEMMA ArmsStart == ASSUME CacheInit, ArmsInit PROVE ArmsInv
<1>1. ArmsTypes
  <2>1. worker \in [Workers -> Items \cup {0, -1}]
    BY DEF ArmsInit, ArmsIdle, NewWorkers
  <2>2. NoLeg \in [st: LegStates, attempt: 0..1, text: Texts \cup {TooShort, NoReply}]
    BY DEF NoLeg, LegStates
  <2>3. Cardinality(Items) \in Nat
    BY ArmsConstants, FS_CardinalityType
  <2> QED BY <2>1, <2>2, <2>3 DEF ArmsTypes, ArmsTypeOK, ArmsInit, ArmsIdle
<1>2. CacheInv
  BY CacheStarts
<1>3. \A c \in Callers : ~Active(c)
  BY NoCallTyped DEF Active, CacheInit, CacheEmpty
<1>4. EntryWhole
  BY DEF EntryWhole, CacheInit, CacheEmpty, Torn
<1>5. LegsBegin
  <2>1. 0 \in Attempts
    BY AttemptsAre
  <2> QED BY <2>1 DEF LegsBegin, ArmsInit, ArmsIdle, NoLeg
<1>6. QueriesCounted
  <2>1. \A i \in Items : i \in Int /\ i >= 1
    BY ItemsCount
  <2>2. \A w \in Workers : worker[w] \notin Items /\ (w <= jobs => worker[w] # -1)
    BY <2>1 DEF ArmsInit, ArmsIdle, NewWorkers
  <2> QED BY <2>1, <2>2 DEF QueriesCounted, OutItems, ArmsInit, ArmsIdle
<1>7. \A l \in Legs : leg[l].st = "unasked"
  BY DEF ArmsInit, ArmsIdle, NoLeg
<1>8. RetriesFresh /\ RepliesStored
  BY <1>7 DEF RetriesFresh, RepliesStored, ArmsInit, ArmsIdle
<1> QED BY <1>1, <1>2, <1>3, <1>4, <1>5, <1>6, <1>8 DEF ArmsInv, CallsOwned, StoresAlone

LEMMA KillKeeps ==
  ASSUME ArmsInv, CacheCrash, UNCHANGED <<fixed, cursor, worker, leg, out, excluded>>,
         phase' \in {"killed", "aborted"}
  PROVE  ArmsInv'
<1>1. /\ CacheInv' /\ StoresAlone' /\ EntryWhole'
      /\ \A c \in Callers : ~Active(c)'
  BY CrashStays DEF fixed
<1>2. ArmsTypes'
  BY DEF ArmsInv, ArmsTypes, ArmsTypeOK, fixed
<1>3. LegsBegin'
  BY <1>1 DEF ArmsInv, LegsBegin, fixed, Attempts, LastAttempt
<1>4. QueriesCounted'
  BY DEF ArmsInv, QueriesCounted, OutItems, fixed
<1>5. Kept
  BY DEF Kept, CacheCrash, bought, fixed
<1>6. RetriesFresh' /\ RepliesStored'
  BY <1>5, RepliesKept
<1> QED BY <1>1, <1>2, <1>3, <1>4, <1>6 DEF ArmsInv, CallsOwned

LEMMA StartAgainKeeps == ASSUME ArmsInv, StartAgain PROVE ArmsInv'
<1>1. /\ UNCHANGED <<entry, tmp, call, bought>> /\ UNCHANGED fixed
      /\ phase' = "running" /\ cursor' = 1 /\ worker' = NewWorkers /\ out' = {} /\ excluded' = {}
      /\ leg' = [l \in Legs |-> NoLeg]
  BY DEF StartAgain, cacheVars, bought
<1>2. \A c \in Callers : ~Active(c) /\ ~Active(c)'
  BY <1>1 DEF StartAgain, ArmsInv, LegsBegin, Active
<1>3. CacheInv' /\ StoresAlone' /\ EntryWhole'
  <2>1. call' \in [Callers -> Call]
    BY <1>1 DEF ArmsInv, CacheInv, CacheTypes
  <2> QED BY <1>1, <2>1, FilesStay DEF fixed
<1>4. ArmsTypes'
  <2>1. worker' \in [Workers -> Items \cup {0, -1}]
    BY <1>1 DEF NewWorkers, fixed
  <2>2. NoLeg \in [st: LegStates, attempt: 0..1, text: Texts \cup {TooShort, NoReply}]
    BY DEF NoLeg, LegStates
  <2>3. Cardinality(Items) \in Nat
    BY ArmsConstants, FS_CardinalityType
  <2> QED BY <1>1, <2>1, <2>2, <2>3 DEF ArmsInv, ArmsTypes, ArmsTypeOK, fixed
<1>5. LegsBegin'
  <2>1. 0 \in Attempts'
    BY DEF Attempts, LastAttempt
  <2> QED BY <1>1, <2>1 DEF LegsBegin, NoLeg
<1>6. QueriesCounted'
  <2>1. \A i \in Items : i \in Int /\ i >= 1
    BY ItemsCount
  <2>2. \A w \in Workers : worker'[w] \notin Items /\ (w <= jobs' => worker'[w] # -1)
    BY <1>1, <2>1 DEF NewWorkers, fixed
  <2> QED BY <1>1, <2>1, <2>2 DEF QueriesCounted, OutItems
<1>7. \A l \in Legs : leg'[l].st = "unasked"
  BY <1>1 DEF NoLeg
<1>8. RetriesFresh' /\ RepliesStored'
  BY <1>1, <1>7 DEF RetriesFresh, RepliesStored
<1> QED BY <1>2, <1>3, <1>4, <1>5, <1>6, <1>8 DEF ArmsInv, CallsOwned

LEMMA WriteKeeps == ASSUME ArmsInv, WriteResults PROVE ArmsInv'
<1>1. /\ UNCHANGED <<entry, tmp, call, bought, fixed, cursor, worker, leg, out, excluded>>
      /\ phase = "running" /\ phase' = "written" /\ \A w \in Workers : worker[w] = -1
  BY DEF WriteResults, cacheVars, bought
<1>2. CacheInv' /\ StoresAlone' /\ EntryWhole'
  BY <1>1, FilesStay DEF ArmsInv, CacheInv, CacheTypes, fixed
<1>3. ArmsTypes' /\ CallsOwned'
  BY <1>1 DEF ArmsInv, ArmsTypes, ArmsTypeOK, CallsOwned, Active, ArmKey, fixed
<1>4. LegsBegin'
  BY <1>1 DEF ArmsInv, LegsBegin, fixed, Attempts, LastAttempt
<1>5. QueriesCounted'
  BY <1>1 DEF ArmsInv, QueriesCounted, OutItems, fixed
<1>6. RetriesFresh' /\ RepliesStored'
  BY <1>1, RepliesKept DEF Kept, fixed, bought
<1> QED BY <1>2, <1>3, <1>4, <1>5, <1>6 DEF ArmsInv

\* What may be said of a leg of a query of its own.
LegSound(l, g) ==
    /\ g.st = "asking" => \A n \in Attempts : n < g.attempt => heard[<<l[1], l[2], n>>] \cap Bad # {}
    /\ g.st = "resolved" /\ g.text = NoReply => \A n \in Attempts : heard[<<l[1], l[2], n>>] \cap Bad # {}
    /\ g.st = "resolved" /\ g.text # NoReply => InCache(l[1], l[2], g.text)

LegType == [st: LegStates, attempt: 0..1, text: Texts \cup {TooShort, NoReply}]

\* A leg that was answered goes on, with or without another call.
LEMMA LegMoves ==
  ASSUME ArmsInv, NEW l \in Legs, Active(l),
         UNCHANGED <<entry, tmp, bought, fixed, cursor, worker, out, excluded, phase>>,
         NEW g \in LegType, leg' = [leg EXCEPT ![l] = g], g.attempt \in Attempts,
         g.st = "asking" => g.text = NoReply,
         NEW r \in Call, Become(l, r),
         \/ r.pc = "idle"
         \/ r.pc = "lookup" /\ g.st = "asking" /\ r.key = ArmKey(l[1], l[2], g.attempt),
         l[1] \notin same => LegSound(l, g)
  PROVE  ArmsInv'
<1> l \in Callers
  BY ArmsConstants
<1>1. /\ ArmsTypes /\ CallsOwned /\ CacheInv /\ call \in [Callers -> Call] /\ leg \in [Legs -> LegType]
      /\ Attempts' = Attempts
  BY DEF ArmsInv, ArmsTypes, ArmsTypeOK, LegType, CacheInv, CacheTypes, Attempts, LastAttempt, fixed
<1>2. call' \in [Callers -> Call] /\ call'[l] = r /\ \A c \in Callers \ {l} : call'[c] = call[c]
  BY <1>1 DEF Become
<1>3. leg' \in [Legs -> LegType] /\ leg'[l] = g /\ \A k \in Legs \ {l} : leg'[k] = leg[k]
  BY <1>1
<1>4. CacheInv' /\ StoresAlone' /\ EntryWhole'
  BY <1>2, FilesStay DEF fixed
<1>5. ArmsTypes'
  BY <1>1, <1>3 DEF ArmsTypes, ArmsTypeOK, LegType, fixed
<1>6. CallsOwned'
  <2>1. ASSUME NEW c \in Callers, Active(c)'
        PROVE  c \in Legs /\ leg'[c].st = "asking" /\ call'[c].key = ArmKey(c[1], c[2], leg'[c].attempt)
    <3>1. CASE c = l
      BY <1>2, <1>3, <2>1, <3>1 DEF Active
    <3>2. CASE c # l
      BY <1>1, <1>2, <1>3, <2>1, <3>2 DEF Active, CallsOwned
    <3> QED BY <3>1, <3>2
  <2> QED BY <2>1 DEF CallsOwned, ArmKey, fixed
<1>7. LegsBegin'
  <2>1. leg[l].st = "asking"
    BY <1>1 DEF CallsOwned
  <2>2. leg[l] # NoLeg
    BY <2>1 DEF NoLeg
  <2> QED BY <1>1, <1>3, <2>2 DEF ArmsInv, LegsBegin, Active
<1>8. QueriesCounted'
  BY CountsKept DEF ArmsInv, counts, fixed
<1>9. RetriesFresh'
  BY <1>1, <1>3 DEF ArmsInv, RetriesFresh, LegSound, fixed, bought
<1>10. RepliesStored'
  <2>1. \A i, a, t : InCache(i, a, t) => InCache(i, a, t)'
    BY <1>1 DEF InCache
  <2>2. \A r1 \in out' : r1.item \notin same' => \A arm \in Arms : InCache(r1.item, arm, r1[arm])'
    BY <2>1 DEF ArmsInv, RepliesStored, fixed
  <2>3. ASSUME NEW k \in Legs, k[1] \notin same', leg'[k].st = "resolved", leg'[k].text # NoReply
        PROVE  InCache(k[1], k[2], leg[k].text)'
    <3> PICK t : t = leg'[k].text
      OBVIOUS
    <3>1. InCache(k[1], k[2], t)
      BY <1>3, <2>3 DEF ArmsInv, RepliesStored, LegSound, fixed
    <3>2. InCache(k[1], k[2], t)'
      BY <2>1, <3>1
    <3> QED BY <3>2 DEF InCache
  <2> QED BY <2>2, <2>3 DEF RepliesStored
<1> QED BY <1>4, <1>5, <1>6, <1>7, <1>8, <1>9, <1>10 DEF ArmsInv

\* What a leg that was answered has in hand.
LEMMA LegReply ==
  ASSUME ArmsInv, NEW l \in Legs, call[l].pc \in {"done", "failed"}
  PROVE  /\ Active(l) /\ leg[l] \in LegType /\ leg[l].attempt \in Attempts /\ leg[l].text = NoReply
         /\ call[l].text \in Texts \cup {TooShort}
         /\ call[l].pc = "done" /\ l[1] \notin same =>
              /\ call[l].text \in heard[<<l[1], l[2], leg[l].attempt>>]
              /\ InCache(l[1], l[2], call[l].text)
<1> l \in Callers
  BY ArmsConstants
<1>1. /\ ArmsTypes /\ CallsOwned /\ CacheInv /\ call[l] \in Call /\ leg[l] \in LegType /\ leg[l].attempt \in Attempts
  BY DEF ArmsInv, ArmsTypes, ArmsTypeOK, LegType, CacheInv, CacheTypes, LegsBegin
<1>2. Active(l)
  BY DEF Active
<1>3. leg[l].text = NoReply
  BY <1>1, <1>2 DEF ArmsInv, LegsBegin, CallsOwned
<1>4. call[l].text \in Texts \cup {TooShort}
  BY <1>1 DEF Call
<1>5. ASSUME call[l].pc = "done", l[1] \notin same
      PROVE  /\ call[l].text \in heard[<<l[1], l[2], leg[l].attempt>>]
             /\ InCache(l[1], l[2], call[l].text)
  <2>1. call[l].key \in Unshared /\ call[l].key = <<l[1], l[2], leg[l].attempt>>
    BY <1>1, <1>2, <1>5, OwnLeg
  <2>2. call[l].text \in heard[call[l].key]
    BY <1>1, <1>5 DEF CacheInv, InHand
  <2>3. call[l].text = TooShort \/ entry[call[l].key] = call[l].text
    BY <1>2, <1>5, <2>1 DEF ArmsInv, StoresAlone, Lone
  <2> QED BY <1>1, <2>1, <2>2, <2>3 DEF InCache
<1> QED BY <1>1, <1>2, <1>3, <1>4, <1>5

LEMMA AnswerKeeps == ASSUME ArmsInv, NEW l \in Legs, AnswerReply(l) PROVE ArmsInv'
<1>1. /\ UNCHANGED <<entry, tmp, bought, fixed, cursor, worker, out, excluded, phase>>
      /\ call[l].pc = "done" /\ Become(l, NoCall)
      /\ leg' = [leg EXCEPT ![l].st = "resolved", ![l].text = call[l].text]
  BY DEF AnswerReply, Replied
<1>2. /\ Active(l) /\ leg[l] \in LegType /\ leg[l].attempt \in Attempts
      /\ call[l].text \in Texts \cup {TooShort}
      /\ l[1] \notin same => InCache(l[1], l[2], call[l].text)
  BY <1>1, LegReply
<1> PICK g : g = [leg[l] EXCEPT !.st = "resolved", !.text = call[l].text]
  OBVIOUS
<1>3. g \in LegType /\ g.attempt \in Attempts /\ g.st = "resolved" /\ g.text = call[l].text
  BY <1>2 DEF LegType, LegStates
<1>4. leg' = [leg EXCEPT ![l] = g]
  BY <1>1
<1>5. l[1] \notin same => LegSound(l, g)
  BY <1>2, <1>3, ArmsConstants DEF LegSound
<1> QED BY <1>1, <1>2, <1>3, <1>4, <1>5, NoCallTyped, LegMoves

LEMMA ThrowKeeps == ASSUME ArmsInv, NEW l \in Legs, LegThrows(l) PROVE ArmsInv'
<1>1. /\ UNCHANGED <<entry, tmp, bought, fixed, cursor, worker, out, excluded, phase>>
      /\ call[l].pc = "failed" /\ Become(l, NoCall)
      /\ leg' = [leg EXCEPT ![l].st = "rejected"]
  BY DEF LegThrows
<1>2. Active(l) /\ leg[l] \in LegType /\ leg[l].attempt \in Attempts
  BY <1>1, LegReply
<1> PICK g : g = [leg[l] EXCEPT !.st = "rejected"]
  OBVIOUS
<1>3. g \in LegType /\ g.attempt \in Attempts /\ g.st = "rejected"
  BY <1>2 DEF LegType, LegStates
<1>4. leg' = [leg EXCEPT ![l] = g]
  BY <1>1
<1>5. LegSound(l, g)
  BY <1>3 DEF LegSound
<1> QED BY <1>1, <1>2, <1>3, <1>4, <1>5, NoCallTyped, LegMoves

LEMMA ScoreKeeps == ASSUME ArmsInv, NEW l \in Legs, ScoreReply(l) PROVE ArmsInv'
<1>1. /\ UNCHANGED <<entry, tmp, bought, fixed, cursor, worker, out, excluded, phase>>
      /\ call[l].pc = "done" /\ leg[l].st = "asking" /\ l[1] \in Items /\ l[2] \in Arms
  BY DEF ScoreReply, Replied
<1>2. /\ Active(l) /\ leg[l] \in LegType /\ leg[l].attempt \in Attempts /\ leg[l].text = NoReply
      /\ call[l].text \in Texts \cup {TooShort}
      /\ l[1] \notin same => /\ call[l].text \in heard[<<l[1], l[2], leg[l].attempt>>]
                             /\ InCache(l[1], l[2], call[l].text)
  BY <1>1, LegReply
<1>3. l[1] \notin same =>
        \A n \in Attempts : n < leg[l].attempt => heard[<<l[1], l[2], n>>] \cap Bad # {}
  BY <1>1 DEF ArmsInv, RetriesFresh
<1>4. ~Parses(call[l].text) /\ l[1] \notin same =>
        \A n \in Attempts : n <= leg[l].attempt => heard[<<l[1], l[2], n>>] \cap Bad # {}
  <2>1. leg[l].attempt \in {0, 1} /\ Attempts \subseteq {0, 1}
    BY <1>2, AttemptsAre
  <2>2. \A n \in Attempts : n <= leg[l].attempt => n < leg[l].attempt \/ n = leg[l].attempt
    BY <2>1
  <2> QED BY <1>2, <1>3, <2>2 DEF Parses, Bad
<1>5. CASE Parses(call[l].text) /\ leg' = [leg EXCEPT ![l].st = "resolved", ![l].text = call[l].text] /\ Become(l, NoCall)
  <2> PICK g : g = [leg[l] EXCEPT !.st = "resolved", !.text = call[l].text]
    OBVIOUS
  <2>1. g \in LegType /\ g.attempt \in Attempts /\ g.st = "resolved" /\ g.text = call[l].text
    BY <1>2 DEF LegType, LegStates
  <2>2. leg' = [leg EXCEPT ![l] = g]
    BY <1>5
  <2>3. l[1] \notin same => LegSound(l, g)
    BY <1>2, <2>1, ArmsConstants DEF LegSound
  <2> QED BY <1>1, <1>2, <1>5, <2>1, <2>2, <2>3, NoCallTyped, LegMoves
<1>6. CASE /\ ~Parses(call[l].text) /\ leg[l].attempt < LastAttempt
           /\ leg' = [leg EXCEPT ![l].attempt = leg[l].attempt + 1]
           /\ Begin(l, ArmKey(l[1], l[2], leg[l].attempt + 1))
  <2> PICK m \in {0, 1} : m = leg[l].attempt + 1
    BY <1>2, <1>6, AttemptsAre DEF LastAttempt
  <2> PICK g : g = [leg[l] EXCEPT !.attempt = m]
    OBVIOUS
  <2>1. g \in LegType /\ g.attempt = m /\ g.st = "asking" /\ g.text = NoReply
    BY <1>1, <1>2 DEF LegType, LegStates
  <2>2. leg' = [leg EXCEPT ![l] = g]
    BY <1>6
  <2>3. m \in Attempts /\ \A n \in Attempts : n < m => n <= leg[l].attempt
    BY <1>2, <1>6, AttemptsAre DEF LastAttempt
  <2>4. l[1] \notin same => LegSound(l, g)
    BY <1>4, <1>6, <2>1, <2>3 DEF LegSound
  <2> PICK r : r = [NoCall EXCEPT !.pc = "lookup", !.key = ArmKey(l[1], l[2], m), !.name = l]
    OBVIOUS
  <2>5. r \in Call /\ r.pc = "lookup" /\ r.key = ArmKey(l[1], l[2], m)
    <3>1. ArmKey(l[1], l[2], m) \in Keys
      BY <1>1, ArmKeys DEF ArmsInv
    <3>2. l \in Callers
      BY ArmsConstants
    <3> QED BY <3>1, <3>2, NoCallTyped DEF Call, CallSteps
  <2>6. Become(l, r)
    BY <1>6 DEF Begin
  <2> QED BY <1>1, <1>2, <2>1, <2>2, <2>3, <2>4, <2>5, <2>6, LegMoves
<1>7. CASE /\ ~Parses(call[l].text) /\ leg[l].attempt = LastAttempt
           /\ leg' = [leg EXCEPT ![l].st = "resolved"] /\ Become(l, NoCall)
  <2> PICK g : g = [leg[l] EXCEPT !.st = "resolved"]
    OBVIOUS
  <2>1. g \in LegType /\ g.attempt \in Attempts /\ g.st = "resolved" /\ g.text = NoReply
    BY <1>2 DEF LegType, LegStates
  <2>2. leg' = [leg EXCEPT ![l] = g]
    BY <1>7
  <2>3. \A n \in Attempts : n <= leg[l].attempt
    BY <1>7, AttemptsAre
  <2>4. l[1] \notin same => LegSound(l, g)
    BY <1>4, <1>7, <2>1, <2>3 DEF LegSound
  <2> QED BY <1>1, <1>2, <1>7, <2>1, <2>2, <2>4, NoCallTyped, LegMoves
<1> QED BY <1>5, <1>6, <1>7 DEF ScoreReply

\* A worker takes a query, or ends.
LEMMA TakeKeeps == ASSUME ArmsInv, NEW w \in Workers, Take(w) PROVE ArmsInv'
<1>1. /\ UNCHANGED <<fixed, out, phase, entry, tmp, bought>> /\ phase = "running" /\ worker[w] = 0
  BY DEF Take, cacheVars, bought
<1>2. /\ ArmsTypes /\ CallsOwned /\ QueriesCounted /\ worker \in [Workers -> Items \cup {0, -1}]
      /\ cursor \in Int /\ 1 <= cursor /\ cursor <= Cardinality(Items) + 1
      /\ leg \in [Legs -> LegType] /\ call \in [Callers -> Call]
  BY ItemsCount DEF ArmsInv, ArmsTypes, ArmsTypeOK, LegType, CacheInv, CacheTypes
<1>3. -1 \notin Items /\ 0 \notin Items
  BY ItemsCount
<1>4. Kept
  BY <1>1 DEF Kept, fixed, bought
<1>5. ASSUME UNCHANGED call PROVE CacheInv' /\ StoresAlone' /\ EntryWhole'
  BY <1>1, <1>2, <1>5, FilesStay DEF fixed
<1>6. ASSUME UNCHANGED <<call, leg>> PROVE CallsOwned' /\ RetriesFresh' /\ RepliesStored'
  BY <1>1, <1>2, <1>4, <1>6, RepliesKept DEF CallsOwned, Active, ArmKey, fixed
<1>7. CASE cursor \notin Items
  <2>1. worker' = [worker EXCEPT ![w] = -1] /\ UNCHANGED <<cursor, leg, excluded, call>>
    BY <1>7 DEF Take, cacheVars
  <2>2. ArmsTypes'
    BY <1>1, <1>2, <2>1 DEF ArmsTypes, ArmsTypeOK, fixed
  <2>3. LegsBegin'
    BY <1>1, <2>1 DEF ArmsInv, LegsBegin, Active, Attempts, LastAttempt, fixed
  <2>4. QueriesCounted'
    <3>1. \A v \in Workers : worker'[v] = worker[v] \/ (v = w /\ worker'[v] = -1)
      BY <1>2, <2>1
    <3>2. \A i \in Items : \A v \in Workers : worker[v] = i <=> worker'[v] = i
      BY <1>1, <1>2, <1>3, <2>1
    <3> QED BY <1>1, <1>2, <1>3, <1>7, <2>1, <3>1, <3>2 DEF QueriesCounted, OutItems, fixed
  <2> QED BY <1>5, <1>6, <2>1, <2>2, <2>3, <2>4 DEF ArmsInv
<1>8. CASE cursor \in Items
  <2>1. cursor' = cursor + 1 /\ cursor' \in 1..Cardinality(Items) + 1
    <3>1. cursor' = cursor + 1 /\ cursor <= Cardinality(Items) /\ Cardinality(Items) \in Nat
      BY <1>8, ItemsCount DEF Take
    <3> QED BY <1>2, <3>1
  <2>2. \A i : i \notin 1..(cursor' - 1) => i \notin 1..(cursor - 1) /\ i # cursor
    BY <1>2, <2>1
  <2>3. cursor \notin excluded \cup OutItems /\ \A v \in Workers : worker[v] # cursor
    BY <1>2, <1>8, ItemsCount DEF QueriesCounted
  <2>4. \A v \in Workers : v <= jobs => worker[v] # -1
    BY <1>2, <1>8 DEF QueriesCounted
  <2>5. \A i \in Items : i < cursor' => i < cursor \/ i = cursor
    BY <1>2, <2>1, ItemsCount
  <2>6. \A i \in Items \cup excluded \cup OutItems : i < cursor => i < cursor'
    <3>1. excluded \cup OutItems \subseteq Items
      BY <1>2 DEF ArmsTypes, ArmsTypeOK, OutItems
    <3> QED BY <1>2, <2>1, <3>1, ItemsCount
  <2>7. cursor < cursor'
    BY <1>2, <2>1
  <2>8. CASE cursor \in bare
    <3>1. excluded' = excluded \cup {cursor} /\ UNCHANGED <<worker, leg, call>>
      BY <1>8, <2>8 DEF Take, cacheVars
    <3>2. ArmsTypes'
      BY <1>1, <1>2, <1>8, <2>1, <3>1 DEF ArmsTypes, ArmsTypeOK, fixed
    <3>3. LegsBegin'
      BY <1>1, <2>2, <3>1 DEF ArmsInv, LegsBegin, Active, Attempts, LastAttempt, fixed
    <3>4. QueriesCounted'
      BY <1>1, <1>2, <2>3, <2>4, <2>5, <2>6, <2>7, <3>1 DEF QueriesCounted, OutItems, fixed
    <3> QED BY <1>5, <1>6, <3>1, <3>2, <3>3, <3>4 DEF ArmsInv
  <2>9. CASE cursor \notin bare
    <3>1. /\ worker' = [worker EXCEPT ![w] = cursor] /\ UNCHANGED excluded
          /\ leg' = [l \in Legs |-> IF l[1] = cursor THEN [leg[l] EXCEPT !.st = "asking"] ELSE leg[l]]
          /\ call' = [l \in Callers |->
                         IF l \in Legs /\ l[1] = cursor
                         THEN [NoCall EXCEPT !.pc = "lookup", !.name = l, !.key = ArmKey(l[1], l[2], 0)]
                         ELSE call[l]]
      BY <1>8, <2>9 DEF Take
    <3>2. \A l \in Legs : l[1] = cursor => leg[l] = NoLeg
      <4>1. cursor \notin 1..(cursor - 1)
        BY <1>2
      <4> QED BY <4>1 DEF ArmsInv, LegsBegin
    <3>3. \A l \in Legs : IF l[1] = cursor THEN leg'[l] = [st |-> "asking", attempt |-> 0, text |-> NoReply]
                                           ELSE leg'[l] = leg[l]
      <4>1. ASSUME NEW l \in Legs, l[1] = cursor
            PROVE  leg'[l] = [st |-> "asking", attempt |-> 0, text |-> NoReply]
        <5>1. leg'[l] = [leg[l] EXCEPT !.st = "asking"] /\ leg[l] = NoLeg
          BY <3>1, <3>2, <4>1
        <5>2. [NoLeg EXCEPT !.st = "asking"] = [st |-> "asking", attempt |-> 0, text |-> NoReply]
          BY DEF NoLeg
        <5> QED BY <5>1, <5>2
      <4>2. ASSUME NEW l \in Legs, l[1] # cursor PROVE leg'[l] = leg[l]
        BY <3>1, <4>2
      <4> QED BY <4>1, <4>2
    <3>4. [st |-> "asking", attempt |-> 0, text |-> NoReply] \in LegType
      BY DEF LegType, LegStates
    <3>5. leg' \in [Legs -> LegType]
      BY <1>2, <3>1, <3>3, <3>4
    <3>6. ASSUME NEW l \in Callers, l \in Legs, l[1] = cursor
          PROVE  call'[l] \in Call /\ call'[l].pc = "lookup" /\ call'[l].key = ArmKey(l[1], l[2], 0)
      <4>1. ArmKey(l[1], l[2], 0) \in Keys
        BY <1>2, <3>6, ArmKeys
      <4>2. NoCall \in Call
        BY NoCallTyped
      <4> PICK r : r = [NoCall EXCEPT !.pc = "lookup", !.name = l, !.key = ArmKey(l[1], l[2], 0)]
        OBVIOUS
      <4>3. r \in Call /\ r.pc = "lookup" /\ r.key = ArmKey(l[1], l[2], 0)
        BY <4>1, <4>2 DEF Call, CallSteps
      <4>4. call'[l] = r
        BY <3>1, <3>6
      <4> QED BY <4>3, <4>4
    <3>7. \A l \in Callers : ~(l \in Legs /\ l[1] = cursor) => call'[l] = call[l]
      BY <3>1
    <3>8. call' \in [Callers -> Call]
      BY <1>2, <3>1, <3>6, <3>7
    <3>9. CacheInv' /\ StoresAlone' /\ EntryWhole'
      BY <1>1, <3>6, <3>7, <3>8, FilesStay DEF fixed
    <3>10. ArmsTypes'
      <4>1. worker' \in [Workers -> Items \cup {0, -1}]
        BY <1>2, <1>8, <3>1
      <4> QED BY <1>1, <1>2, <2>1, <3>1, <3>5, <4>1 DEF ArmsTypes, ArmsTypeOK, LegType, fixed
    <3>11. CallsOwned'
      <4>1. ASSUME NEW c \in Callers, Active(c)'
            PROVE  c \in Legs /\ leg'[c].st = "asking" /\ call'[c].key = ArmKey(c[1], c[2], leg'[c].attempt)
        <5>1. CASE c \in Legs /\ c[1] = cursor
          BY <3>3, <3>6, <5>1
        <5>2. CASE ~(c \in Legs /\ c[1] = cursor)
          <6>1. call'[c] = call[c] /\ Active(c)
            BY <3>7, <4>1, <5>2 DEF Active
          <6>2. c \in Legs /\ leg[c].st = "asking" /\ call[c].key = ArmKey(c[1], c[2], leg[c].attempt)
            BY <1>2, <6>1 DEF CallsOwned
          <6> QED BY <3>3, <5>2, <6>1, <6>2
        <5> QED BY <5>1, <5>2
      <4> QED BY <1>1, <4>1 DEF CallsOwned, ArmKey, fixed
    <3>12. Attempts' = Attempts /\ 0 \in Attempts
      BY <1>1 DEF Attempts, LastAttempt, fixed
    <3>13. LegsBegin'
      <4>1. \A l \in Legs : l[1] \notin 1..(cursor' - 1) => leg'[l] = NoLeg
        BY <2>2, <3>3 DEF ArmsInv, LegsBegin
      <4>2. \A l \in Legs : leg'[l].attempt \in Attempts
        BY <3>3, <3>12 DEF ArmsInv, LegsBegin
      <4>3. \A l \in Legs : leg'[l].st = "asking" => leg'[l].text = NoReply
        BY <3>3 DEF ArmsInv, LegsBegin
      <4> QED BY <1>1, <3>12, <4>1, <4>2, <4>3 DEF LegsBegin
    <3>14. QueriesCounted'
      <4>1. \A v \in Workers : worker'[v] = IF v = w THEN cursor ELSE worker[v]
        BY <1>2, <3>1
      <4>2. \A i \in Items : \A v \in Workers : worker[v] = i => worker'[v] = i
        BY <1>1, <1>3, <4>1
      <4>3. \A u, v \in Workers : worker'[v] \in Items /\ worker'[u] = worker'[v] => u = v
        BY <1>2, <2>3, <4>1 DEF QueriesCounted
      <4>4. \A v \in Workers : worker'[v] \in Items => worker'[v] < cursor' /\ worker'[v] \notin excluded \cup OutItems
        BY <1>2, <2>3, <2>6, <2>7, <4>1 DEF QueriesCounted
      <4>5. \A v \in Workers : v <= jobs => worker'[v] # -1
        BY <1>3, <1>8, <2>4, <4>1
      <4>6. \A i \in Items : i < cursor' =>
              i \in excluded \cup OutItems \/ \E v \in Workers : worker'[v] = i
        <5>1. worker'[w] = cursor
          BY <4>1
        <5> QED BY <1>2, <2>5, <4>2, <5>1 DEF QueriesCounted
      <4>7. OutItems' = OutItems /\ excluded' = excluded /\ jobs' = jobs
        BY <1>1, <3>1 DEF OutItems, fixed
      <4> QED BY <1>1, <1>2, <2>6, <3>1, <4>3, <4>4, <4>5, <4>6, <4>7 DEF QueriesCounted
    <3>15. RetriesFresh'
      <4>1. ASSUME NEW l \in Legs, l[1] = cursor
            PROVE  ~\E n \in Attempts : n < leg'[l].attempt
        BY <3>3, <4>1, AttemptsAre
      <4> QED BY <1>1, <3>3, <3>12, <4>1 DEF ArmsInv, RetriesFresh, fixed, bought
    <3>16. RepliesStored'
      <4>1. \A l \in Legs : leg'[l].st = "resolved" => leg'[l] = leg[l]
        BY <3>3
      <4>2. \A i, a, t : InCache(i, a, t) => InCache(i, a, t)'
        BY <1>1, <3>12 DEF InCache
      <4>3. ASSUME NEW k \in Legs, k[1] \notin same', leg'[k].st = "resolved", leg'[k].text # NoReply
            PROVE  InCache(k[1], k[2], leg[k].text)'
        <5> PICK t : t = leg'[k].text
          OBVIOUS
        <5>1. InCache(k[1], k[2], t)
          BY <1>1, <4>1, <4>3 DEF ArmsInv, RepliesStored, fixed
        <5>2. InCache(k[1], k[2], t)'
          BY <4>2, <5>1
        <5> QED BY <5>2 DEF InCache
      <4>4. \A r \in out' : r.item \notin same' => \A arm \in Arms : InCache(r.item, arm, r[arm])'
        BY <1>1, <4>2 DEF ArmsInv, RepliesStored, fixed
      <4> QED BY <4>3, <4>4 DEF RepliesStored
    <3> QED BY <3>9, <3>10, <3>11, <3>13, <3>14, <3>15, <3>16 DEF ArmsInv
  <2> QED BY <2>8, <2>9
<1> QED BY <1>7, <1>8

\* The query of a worker is scored or excluded, and the worker goes on.
LEMMA PairCounted ==
  ASSUME ArmsTypes, QueriesCounted, NEW w \in Workers, worker[w] \in Items, phase = "running",
         worker' = [worker EXCEPT ![w] = 0], UNCHANGED <<jobs, cursor, phase>>,
         \/ excluded' = excluded \cup {worker[w]} /\ UNCHANGED out
         \/ UNCHANGED excluded /\ \E r : r.item = worker[w] /\ out' = out \cup {r}
  PROVE  QueriesCounted'
<1>1. worker \in [Workers -> Items \cup {0, -1}] /\ 0 \notin Items
  BY ItemsCount DEF ArmsTypes, ArmsTypeOK
<1>2. \A v \in Workers : worker'[v] = IF v = w THEN 0 ELSE worker[v]
  BY <1>1
<1>3. \A v \in Workers : worker'[v] \in Items => worker'[v] = worker[v] /\ worker'[v] # worker[w]
  BY <1>1, <1>2 DEF QueriesCounted
<1>4. excluded' \cup OutItems' = excluded \cup OutItems \cup {worker[w]} /\ excluded' \cap OutItems' = {}
  BY DEF QueriesCounted, OutItems
<1>5. \A r, s \in out' : r.item = s.item => r = s
  BY DEF QueriesCounted, OutItems
<1>6. \A v \in Workers : worker'[v] \in Items =>
        /\ worker'[v] < cursor' /\ worker'[v] \notin excluded' \cup OutItems'
        /\ \A u \in Workers : worker'[u] = worker'[v] => u = v
  BY <1>1, <1>2, <1>3, <1>4 DEF QueriesCounted
<1>7. \A i \in Items : i < cursor' =>
        i \in excluded' \cup OutItems' \/ \E v \in Workers : worker'[v] = i
  BY <1>2, <1>4 DEF QueriesCounted
<1>8. \A i \in excluded' \cup OutItems' : i < cursor'
  BY <1>4 DEF QueriesCounted
<1>9. \A v \in Workers : v <= jobs' /\ worker'[v] = -1 => cursor' \notin Items
  BY <1>2 DEF QueriesCounted
<1> QED BY <1>4, <1>5, <1>6, <1>7, <1>8, <1>9 DEF QueriesCounted

\* What a worker leaves of a pair; the cache, the cursor and the legs stay.
LEMMA WorkerMoves ==
  ASSUME ArmsInv, phase = "running",
         UNCHANGED <<cacheVars, fixed, cursor, leg, phase>>, ArmsTypes', QueriesCounted', RepliesStored'
  PROVE  ArmsInv'
<1>1. UNCHANGED <<entry, tmp, call, bought, fixed, cursor, leg, phase>>
  BY DEF cacheVars, bought
<1>2. CacheInv' /\ StoresAlone' /\ EntryWhole'
  BY <1>1, FilesStay DEF ArmsInv, CacheInv, CacheTypes, fixed
<1>3. CallsOwned'
  BY <1>1 DEF ArmsInv, CallsOwned, Active, ArmKey, fixed
<1>4. LegsBegin'
  BY <1>1 DEF ArmsInv, LegsBegin, Active, Attempts, LastAttempt, fixed
<1>5. RetriesFresh'
  BY <1>1 DEF ArmsInv, RetriesFresh, Attempts, LastAttempt, fixed, bought
<1> QED BY <1>2, <1>3, <1>4, <1>5 DEF ArmsInv

LEMMA FailureKeeps == ASSUME ArmsInv, NEW w \in Workers, CountFailure(w) PROVE ArmsInv'
<1>1. /\ UNCHANGED <<cacheVars, fixed, cursor, leg, phase, out>> /\ phase = "running" /\ worker[w] \in Items
      /\ excluded' = excluded \cup {worker[w]} /\ worker' = [worker EXCEPT ![w] = 0]
  BY DEF CountFailure, ArmFailed, AfterFailure
<1>2. ArmsTypes'
  BY <1>1 DEF ArmsInv, ArmsTypes, ArmsTypeOK, fixed
<1>3. QueriesCounted'
  BY <1>1, PairCounted DEF ArmsInv, fixed
<1>4. RepliesStored'
  <2>1. Kept
    BY <1>1 DEF Kept, fixed, cacheVars
  <2> QED BY <1>1, <2>1, RepliesKept
<1> QED BY <1>1, <1>2, <1>3, <1>4, WorkerMoves

LEMMA PairKeeps == ASSUME ArmsInv, NEW w \in Workers, PairDone(w) PROVE ArmsInv'
<1> PICK i : i = worker[w]
  OBVIOUS
<1> PICK r : r = [item |-> i, a |-> leg[<<i, "a">>].text, b |-> leg[<<i, "b">>].text]
  OBVIOUS
<1>1. /\ UNCHANGED <<cacheVars, fixed, cursor, leg, phase>> /\ phase = "running" /\ i \in Items
      /\ \A arm \in Arms : leg[<<i, arm>>].st = "resolved"
      /\ worker' = [worker EXCEPT ![w] = 0]
  BY DEF PairDone
<1>2. \/ excluded' = excluded \cup {worker[w]} /\ UNCHANGED out
      \/ UNCHANGED excluded /\ out' = out \cup {r} /\ \A arm \in Arms : leg[<<i, arm>>].text # NoReply
  BY DEF PairDone, Record
<1>3. r.item = i /\ \A arm \in Arms : r[arm] = leg[<<i, arm>>].text
  OBVIOUS
<1>4. \A arm \in Arms : leg[<<i, arm>>].text \in Texts \cup {TooShort, NoReply}
  BY <1>1 DEF ArmsInv, ArmsTypes, ArmsTypeOK
<1>5. worker' \in [Workers -> Items \cup {0, -1}]
  BY <1>1 DEF ArmsInv, ArmsTypes, ArmsTypeOK
<1>6. ArmsTypes'
  <2>1. CASE UNCHANGED out
    BY <1>1, <1>2, <1>5, <2>1 DEF ArmsInv, ArmsTypes, ArmsTypeOK, fixed
  <2>2. CASE UNCHANGED excluded /\ out' = out \cup {r} /\ \A arm \in Arms : leg[<<i, arm>>].text # NoReply
    <3>1. r \in [item: Items, a: Texts \cup {TooShort}, b: Texts \cup {TooShort}]
      BY <1>1, <1>4, <2>2
    <3> QED BY <1>1, <1>5, <2>2, <3>1 DEF ArmsInv, ArmsTypes, ArmsTypeOK, fixed
  <2> QED BY <1>2, <2>1, <2>2
<1>7. QueriesCounted'
  <2>1. ArmsTypes /\ QueriesCounted /\ UNCHANGED <<jobs, cursor, phase>>
    BY <1>1 DEF ArmsInv, fixed
  <2> QED BY <1>1, <1>2, <1>3, <2>1, PairCounted
<1>8. RepliesStored'
  <2>1. Kept
    BY <1>1 DEF Kept, fixed, cacheVars
  <2>2. CASE UNCHANGED out
    BY <1>1, <2>1, <2>2, RepliesKept
  <2>3. CASE out' = out \cup {r} /\ \A arm \in Arms : leg[<<i, arm>>].text # NoReply
    <3>1. ASSUME i \notin same, NEW arm \in Arms PROVE InCache(i, arm, r[arm])
      <4>1. <<i, arm>> \in Legs /\ <<i, arm>>[1] = i /\ <<i, arm>>[2] = arm
        BY <1>1
      <4>2. InCache(i, arm, leg[<<i, arm>>].text)
        BY <1>1, <2>3, <3>1, <4>1 DEF ArmsInv, RepliesStored
      <4> QED BY <1>3, <4>2
    <3>2. \A j, arm, t : InCache(j, arm, t) => InCache(j, arm, t)'
      BY <1>1 DEF InCache, Attempts, LastAttempt, fixed, cacheVars
    <3>3. \A s \in out' : s.item \notin same' => \A arm \in Arms : InCache(s.item, arm, s[arm])'
      BY <1>1, <1>3, <2>3, <3>1, <3>2 DEF ArmsInv, RepliesStored, fixed
    <3>4. \A l \in Legs : l[1] \notin same' /\ leg'[l].st = "resolved" /\ leg'[l].text # NoReply =>
            InCache(l[1], l[2], leg[l].text)'
      BY <1>1, <3>2 DEF ArmsInv, RepliesStored, InCache, Attempts, LastAttempt, fixed, cacheVars
    <3> QED BY <1>1, <3>3, <3>4 DEF RepliesStored
  <2> QED BY <1>2, <2>2, <2>3
<1> QED BY <1>1, <1>6, <1>7, <1>8, WorkerMoves

LEMMA ArmsInvariant == ArmsSpec => []ArmsInv
<1>1. CacheInit /\ ArmsInit => ArmsInv
  BY ArmsStart
<1>2. ArmsInv /\ [ArmsNext]_<<cacheVars, armsVars>> => ArmsInv'
  <2> SUFFICES ASSUME ArmsInv, [ArmsNext]_<<cacheVars, armsVars>> PROVE ArmsInv'
    OBVIOUS
  <2>1. ASSUME NEW w \in Workers, WorkerStep(w) PROVE ArmsInv'
    <3>1. CASE Take(w)
      BY <3>1, TakeKeeps
    <3>2. CASE PairDone(w)
      BY <3>2, PairKeeps
    <3>3. CASE CountFailure(w)
      BY <3>3, FailureKeeps
    <3>4. CASE Abort(w)
      BY <3>4, KillKeeps DEF Abort
    <3> QED BY <2>1, <3>1, <3>2, <3>3, <3>4 DEF WorkerStep
  <2>2. ASSUME NEW l \in Legs, LegStep(l) PROVE ArmsInv'
    <3>1. CASE HandsFree /\ CallStep(l) /\ UNCHANGED armsVars
      BY <3>1, CallKeeps
    <3>2. CASE AnswerReply(l)
      BY <3>2, AnswerKeeps
    <3>3. CASE ScoreReply(l)
      BY <3>3, ScoreKeeps
    <3>4. CASE LegThrows(l)
      BY <3>4, ThrowKeeps
    <3> QED BY <2>2, <3>1, <3>2, <3>3, <3>4 DEF LegStep
  <2>3. CASE WriteResults
    BY <2>3, WriteKeeps
  <2>4. CASE Kill
    BY <2>4, KillKeeps DEF Kill
  <2>5. CASE StartAgain
    BY <2>5, StartAgainKeeps
  <2>6. CASE UNCHANGED <<cacheVars, armsVars>>
    <3>1. UNCHANGED <<entry, tmp, call, bought, fixed, cursor, worker, leg, out, excluded, phase>>
      BY <2>6 DEF cacheVars, armsVars, bought, fixed
    <3>2. ArmsTypes' /\ QueriesCounted'
      BY <3>1, CountsKept DEF ArmsInv, ArmsTypes, ArmsTypeOK, counts, fixed
    <3>3. RepliesStored' /\ RetriesFresh'
      BY <3>1, RepliesKept DEF Kept, fixed, bought
    <3>4. CacheInv' /\ StoresAlone' /\ EntryWhole'
      BY <3>1, FilesStay DEF ArmsInv, CacheInv, CacheTypes, fixed
    <3>5. CallsOwned' /\ LegsBegin'
      BY <3>1 DEF ArmsInv, CallsOwned, LegsBegin, Active, ArmKey, Attempts, LastAttempt, fixed
    <3> QED BY <3>2, <3>3, <3>4, <3>5 DEF ArmsInv
  <2> QED BY <2>1, <2>2, <2>3, <2>4, <2>5, <2>6 DEF ArmsNext
<1> QED BY <1>1, <1>2, PTL DEF ArmsSpec

\* The results are written when every query was taken, and none is at a worker.
LEMMA AllCounted == ASSUME ArmsInv PROVE EveryQueryCounted
<1> SUFFICES ASSUME phase = "written", NEW i \in Items
             PROVE  Cardinality({r \in out : r.item = i}) = IF i \in excluded THEN 0 ELSE 1
  BY DEF EveryQueryCounted
<1>1. /\ QueriesCounted /\ jobs \in Workers /\ \A w \in Workers : worker[w] = -1
      /\ cursor \in Int /\ 1 <= cursor /\ cursor <= Cardinality(Items) + 1
  BY ItemsCount DEF ArmsInv, ArmsTypes, ArmsTypeOK, QueriesCounted
<1>2. cursor \notin Items
  <2>1. 1 \in Workers /\ 1 <= jobs
    BY <1>1, ArmsConstants DEF Workers
  <2>2. worker[1] = -1
    BY <1>1, <2>1
  <2> QED BY <1>1, <2>1, <2>2 DEF QueriesCounted
<1>3. i < cursor
  BY <1>1, <1>2, ItemsCount
<1>4. i \in excluded \cup OutItems
  <2>1. -1 \notin Items
    BY ItemsCount
  <2> QED BY <1>1, <1>3, <2>1 DEF QueriesCounted
<1>5. CASE i \in excluded
  <2>1. {r \in out : r.item = i} = {}
    BY <1>1, <1>5 DEF QueriesCounted, OutItems
  <2> QED BY <1>5, <2>1, FS_EmptySet
<1>6. CASE i \notin excluded
  <2>1. PICK r \in out : r.item = i
    BY <1>4, <1>6 DEF OutItems
  <2>2. {s \in out : s.item = i} = {r}
    BY <1>1, <2>1 DEF QueriesCounted
  <2> QED BY <1>6, <2>2, FS_Singleton
<1> QED BY <1>5, <1>6

LEMMA ArmsAreSound == ArmsInv => ArmsPaired
<1> SUFFICES ASSUME ArmsInv PROVE ArmsPaired
  OBVIOUS
<1>1. ArmsTypes /\ Attempts \subseteq {0, 1}
  BY AttemptsAre DEF ArmsInv
<1>2. RetryIsFresh
  BY DEF ArmsInv, RetriesFresh, RetryIsFresh, Bad, Attempts
<1>3. ReplayReproduces
  <2>1. ASSUME NEW r \in out, r.item \notin same, NEW arm \in Arms
        PROVE  r[arm] = TooShort \/ \E n \in 0..LastAttempt : entry[ArmKey(r.item, arm, n)] = r[arm]
    <3>1. InCache(r.item, arm, r[arm])
      BY <2>1 DEF ArmsInv, RepliesStored
    <3>2. \A n : ArmKey(r.item, arm, n) = <<r.item, arm, n>>
      BY <2>1 DEF ArmKey
    <3> QED BY <3>1, <3>2 DEF InCache, Attempts
  <2> QED BY <2>1 DEF ReplayReproduces
<1> QED BY <1>2, <1>3, AllCounted DEF ArmsPaired, ArmsInv, ArmsTypes

\* A gate script compares pairs, for every number of queries, workers and kills,
\* whatever the provider answers: every query ends once, scored or counted as
\* excluded, no retry is answered from the cache with the reply it retries, and
\* every score can be read again from the cache (answer-arms.ts, judge-arms.ts,
\* calibrate-judge.ts).
THEOREM ArmsArePaired == ArmsSpec => []ArmsPaired
<1> QED BY ArmsInvariant, ArmsAreSound, PTL

\* What the cache hands a gate script is whole and true, even for the keys two
\* calls of one process store under at a time.
THEOREM CacheIsWhole == ArmsSpec => []AnswersWhole
<1>1. ArmsInv => AnswersWhole
  BY CacheIsSound DEF ArmsInv
<1> QED BY <1>1, ArmsInvariant, PTL

\* A response that is stored is not bought again, kills and restarts included,
\* under a key that no two calls may ask for at a time.
THEOREM NothingBoughtTwice == ArmsSpec => NeverBoughtAgain
<1>1. ArmsInv /\ [ArmsNext]_<<cacheVars, armsVars>> =>
        [\A k \in Keys \ SharedKeys : entry[k] \in Texts => paid'[k] = paid[k]]_cacheVars
  <2> SUFFICES ASSUME ArmsInv, [ArmsNext]_<<cacheVars, armsVars>>, NEW k \in Keys \ SharedKeys, entry[k] \in Texts
               PROVE  paid'[k] = paid[k]
    OBVIOUS
  <2>1. CASE UNCHANGED paid
    BY <2>1
  <2>2. CASE \E l \in Legs : \E t \in Texts \cup {TooShort} : Answers(l, t)
    <3>1. PICK l \in Legs : /\ call[l].pc = "llm"
                            /\ paid' = [paid EXCEPT ![call[l].key] = @ + 1]
      BY <2>2 DEF Answers
    <3>2. l \in Callers
      BY ArmsConstants
    <3>3. CASE call[l].key = k
      <4>1. Lone(l)
        BY <3>1, <3>2, <3>3 DEF ArmsInv, StoresAlone, Active, Unshared
      <4> QED BY <3>1, <3>3, <4>1 DEF Lone
    <3>4. CASE call[l].key # k
      BY <3>1, <3>4 DEF ArmsInv, CacheInv, CacheTypes
    <3> QED BY <3>3, <3>4
  <2> QED BY <2>1, <2>2 DEF ArmsNext, WorkerStep, LegStep, CallStep, Take, PairDone, CountFailure, Abort,
             AnswerReply, ScoreReply, LegThrows, WriteResults, Kill, StartAgain, CacheCrash,
             Lookup, ProviderThrows, StoreOpen, StorePut, StoreRename, cacheVars, bought
<1> QED BY <1>1, ArmsInvariant, PTL DEF ArmsSpec, NeverBoughtAgain

-----------------------------------------------------------------------------
(* The sweep.  SweepInv is inductive.                                      *)

\* Every sweep has one call at a time, for the cell the loops are at.
RunnerAlone ==
    /\ \A c \in Callers \ {Runner} : ~Active(c)
    /\ \A k \in Keys : entry[k] \notin Torn
    /\ Lone(Runner)
    /\ Active(Runner) =>
          /\ Looping /\ call[Runner].key = at
          /\ at \notin DOMAIN results /\ ~Skips(at)

\* A score can be given again from the cache, unless the answer was too short.
Score(c, t) == IF Right(c, t) THEN "right" ELSE "wrong"
ScoresHold ==
    \A c \in Cells : TooShort \notin heard[c] =>
        \A res \in {"right", "wrong"} : <<c, res>> \in scored =>
            entry[c] \in Texts /\ res = Score(c, entry[c])

\* The rows in memory are those of the file, but for errors of earlier sweeps.
Scores == {"right", "wrong", "error"}
Rows == [cell: Cells, res: Scores, ok: BOOLEAN]
Matches(file, r) ==
    /\ DOMAIN r \subseteq DOMAIN file
    /\ \A c \in DOMAIN r : file[c] = r[c]
    /\ \A c \in DOMAIN file \ DOMAIN r : file[c] = "error"
FileFollows == stage \in {"loop", "done"} /\ ~joined => Matches(Loaded(lines), results)

SweepTypes ==
    /\ stage \in {"load", "loop", "done", "down"}
    /\ at \in Cells \cup {BehindLast}
    /\ lines \in Seq(Rows) /\ ended \in BOOLEAN
    /\ ~ended => lines # << >>
    /\ DOMAIN results \subseteq Cells
    /\ results \in [DOMAIN results -> Scores]
    /\ stops \in [Lanes -> Sizes \cup {0}]

\* The groups behind the loops are filled, or beyond the size their lane stopped at.
Passed(l, s) == l < Lane(at) \/ (l = Lane(at) /\ s < Size(at))
StopFilled(l, s) ==
    stops[l] = s => Group(l, s) \subseteq DOMAIN results /\ BelowThreshold(results, Group(l, s))
GroupFilled(l, s) ==
    Passed(l, s) /\ (stops[l] = 0 \/ s < stops[l]) =>
        Group(l, s) \subseteq DOMAIN results /\ ~BelowThreshold(results, Group(l, s))
HalfFilled ==
    at \in Cells =>
        \A c \in Group(Lane(at), Size(at)) : c[4] < at[4] => c \in DOMAIN results
GridFills ==
    stage \in {"loop", "done"} /\ ~misled =>
        /\ \A l \in Lanes, s \in Sizes : StopFilled(l, s) /\ GroupFilled(l, s)
        /\ HalfFilled
Inside == Looping /\ ~FirstOfGroup(at) => ~Skips(at)
Reported == stage = "done" => at = BehindLast /\ summary = Summaries(results, stops)

SweepInv ==
    /\ SweepTypes /\ CacheInv
    /\ RunnerAlone /\ ScoresHold /\ FileFollows /\ GridFills /\ Inside /\ Reported

\* A finite set of integers has a least element, and a greatest.
LEMMA Least ==
  ASSUME NEW T, T \subseteq Int, IsFiniteSet(T), T # {}
  PROVE  \E m \in T : \A n \in T : m <= n
<1> DEFINE upTo(m) == {n \in T : n <= m}
           U == {upTo(m) : m \in T}
<1>1. U \subseteq SUBSET T /\ U # {}
  OBVIOUS
<1>2. PICK x \in U : \A y \in U : ~(<<y, x>> \in StrictSubsetOrdering(T))
  <2>1. IsWellFoundedOn(StrictSubsetOrdering(T), SUBSET T)
    BY FS_StrictSubsetOrderingWellFounded, FS_FiniteSubsetsOfFinite
  <2> HIDE DEF U
  <2> QED BY <1>1, <2>1, WFMin, Zenon
<1>3. PICK m \in T : x = upTo(m)
  BY <1>2
<1>4. ASSUME NEW n \in T PROVE m <= n
  <2> SUFFICES ASSUME n < m PROVE FALSE
    BY <1>1
  <2>1. upTo(n) \in U /\ upTo(n) \in SUBSET T /\ upTo(m) \in SUBSET T
    BY <1>1
  <2>2. n \in Int /\ m \in Int
    BY <1>3
  <2>3. \A k \in T : k \in Int /\ (k <= n => k <= m)
    BY <2>2
  <2>4. upTo(n) \subseteq upTo(m) /\ m \in upTo(m) /\ m \notin upTo(n)
    <3>1. ~(m <= n) /\ m <= m
      BY <2>2
    <3> QED BY <2>3, <3>1, Zenon
  <2>5. <<upTo(n), x>> \in StrictSubsetOrdering(T)
    BY <2>1, <2>4, <1>3 DEF StrictSubsetOrdering
  <2> QED BY <2>1, <2>5, <1>2
<1> QED BY <1>4

LEMMA Greatest ==
  ASSUME NEW n \in Nat, NEW T, T \subseteq 1..n, T # {}
  PROVE  \E m \in T : \A k \in T : k <= m
<1> DEFINE D == {n - k : k \in T}
<1>1. D \subseteq 0..n /\ D # {} /\ T \subseteq Int
  <2>1. ASSUME NEW k \in T PROVE k \in Int /\ n - k \in 0..n
    OBVIOUS
  <2> QED BY <2>1
<1>2. IsFiniteSet(D)
  <2>1. IsFiniteSet(0..n)
    BY FS_Interval
  <2> QED BY <1>1, <2>1, FS_Subset
<1>3. PICK d \in D : \A e \in D : d <= e
  <2>1. D \subseteq Int
    BY <1>1
  <2> HIDE DEF D
  <2> QED BY <1>1, <1>2, <2>1, Least
<1>4. PICK m \in T : d = n - m
  BY <1>3
<1>5. ASSUME NEW k \in T PROVE k <= m
  <2>1. n - m <= n - k
    BY <1>3, <1>4
  <2>2. n \in Int /\ m \in Int /\ k \in Int
    BY <1>1
  <2> HIDE DEF D
  <2> QED BY <2>1, <2>2
<1> QED BY <1>5

\* The bounds of the loops.
LEMMA Bounds ==
  /\ Cardinality(Lanes) \in Nat /\ Cardinality(Sizes) \in Nat /\ Cardinality(Questions) \in Nat
  /\ \A i : i \in Lanes <=> i \in Int /\ 1 <= i /\ i <= Cardinality(Lanes)
  /\ \A i : i \in Sizes <=> i \in Int /\ 1 <= i /\ i <= Cardinality(Sizes)
  /\ \A i : i \in Questions <=> i \in Int /\ 1 <= i /\ i <= Cardinality(Questions)
  /\ 1 \in Lanes /\ 1 \in Sizes /\ 1 \in Questions
<1>1. ASSUME NEW S, IsFiniteSet(S), S # {}, S = 1..Cardinality(S)
      PROVE  /\ Cardinality(S) \in Nat /\ 1 \in S
             /\ \A i : i \in S <=> i \in Int /\ 1 <= i /\ i <= Cardinality(S)
  <2>1. Cardinality(S) \in Nat
    BY <1>1, FS_CardinalityType
  <2>2. ASSUME NEW n \in Nat PROVE \A i : i \in 1..n <=> i \in Int /\ 1 <= i /\ i <= n
    OBVIOUS
  <2>3. \A i : i \in S <=> i \in Int /\ 1 <= i /\ i <= Cardinality(S)
    BY <1>1, <2>1, <2>2, Zenon
  <2>4. PICK i : i \in S
    BY <1>1
  <2> QED BY <2>1, <2>3, <2>4
<1> QED BY <1>1, BenchConstants, Zenon

LEMMA CellParts ==
  /\ \A c \in Cells : /\ c = <<"bench", c[2], c[3], c[4]>>
                      /\ c[2] \in Lanes /\ c[3] \in Sizes /\ c[4] \in Questions
                      /\ c \in Keys
  /\ \A l \in Lanes, s \in Sizes, q \in Questions : <<"bench", l, s, q>> \in Cells
  /\ \A c, l, s : c \in Group(l, s) <=> c \in Cells /\ c[2] = l /\ c[3] = s
  /\ FirstCell \in Cells /\ BehindLast \notin Cells
BY Bounds, BenchConstants DEF Cells, Group, Lane, Size, FirstCell, BehindLast

\* Where the loops go.
LEMMA GroupBehind ==
  ASSUME NEW c \in Cells
  PROVE  /\ NextGroup(c) \in Cells \cup {BehindLast}
         /\ NextGroup(c)[4] = 1
         /\ \A l \in Lanes, s \in Sizes :
              l < Lane(NextGroup(c)) \/ (l = Lane(NextGroup(c)) /\ s < Size(NextGroup(c)))
                <=> (l < Lane(c) \/ (l = Lane(c) /\ s <= Size(c)))
<1>1. /\ c[2] \in Int /\ 1 <= c[2] /\ c[2] <= Cardinality(Lanes)
      /\ c[3] \in Int /\ 1 <= c[3] /\ c[3] <= Cardinality(Sizes)
  BY CellParts, Bounds
<1>2. CASE Size(c) < Cardinality(Sizes)
  <2>1. NextGroup(c) = <<"bench", c[2], c[3] + 1, 1>>
    BY <1>2 DEF NextGroup, Lane, Size
  <2>2. c[3] + 1 \in Sizes
    BY <1>1, <1>2, Bounds DEF Size
  <2>3. NextGroup(c) \in Cells
    BY <2>1, <2>2, CellParts, Bounds
  <2> QED BY <1>1, <2>1, <2>3, Bounds DEF Lane, Size
<1>3. CASE ~(Size(c) < Cardinality(Sizes))
  <2>1. NextGroup(c) = <<"bench", c[2] + 1, 1, 1>> /\ c[3] = Cardinality(Sizes)
    BY <1>1, <1>3, Bounds DEF NextGroup, Lane, Size
  <2>2. NextGroup(c) \in Cells \cup {BehindLast}
    <3>1. CASE c[2] = Cardinality(Lanes)
      BY <2>1, <3>1 DEF BehindLast
    <3>2. CASE c[2] # Cardinality(Lanes)
      <4>1. c[2] + 1 \in Lanes
        BY <1>1, <3>2, Bounds
      <4> QED BY <2>1, <4>1, CellParts, Bounds
    <3> QED BY <3>1, <3>2
  <2> QED BY <1>1, <2>1, <2>2, Bounds DEF Lane, Size
<1> QED BY <1>2, <1>3

LEMMA CellBehind ==
  ASSUME NEW c \in Cells
  PROVE  /\ NextCell(c) \in Cells \cup {BehindLast}
         /\ LastOfGroup(c) => NextCell(c) = NextGroup(c)
         /\ ~LastOfGroup(c) => /\ NextCell(c) \in Cells
                              /\ Lane(NextCell(c)) = Lane(c) /\ Size(NextCell(c)) = Size(c)
                              /\ NextCell(c)[4] = c[4] + 1
<1>1. CASE LastOfGroup(c)
  BY <1>1, GroupBehind DEF NextCell
<1>2. CASE ~LastOfGroup(c)
  <2>1. c[4] + 1 \in Questions
    BY <1>2, CellParts, Bounds DEF LastOfGroup
  <2>2. NextCell(c) = <<"bench", c[2], c[3], c[4] + 1>>
    BY <1>2 DEF NextCell, Lane, Size
  <2> QED BY <1>2, <2>1, <2>2, CellParts DEF Lane, Size
<1> QED BY <1>1, <1>2

\* Rows, scores and stops depend on the answered rows only.
LEMMA RowsAgree ==
  ASSUME NEW r, NEW t, NEW cells,
         \A c \in cells : c \in DOMAIN r /\ r[c] # "error" <=> c \in DOMAIN t /\ t[c] # "error",
         \A c \in cells : c \in DOMAIN r /\ r[c] # "error" => r[c] = t[c]
  PROVE  /\ RowsOf(r, cells) = RowsOf(t, cells)
         /\ BelowThreshold(r, cells) <=> BelowThreshold(t, cells)
<1>1. RowsOf(r, cells) = RowsOf(t, cells)
  BY DEF RowsOf
<1>2. CorrectOf(r, cells) = CorrectOf(t, cells)
  BY <1>1 DEF CorrectOf, RowsOf
<1> QED BY <1>1, <1>2 DEF BelowThreshold

LEMMA AnsweredRows ==
  ASSUME NEW r
  PROVE  /\ DOMAIN Answered(r) = {c \in DOMAIN r : r[c] # "error"}
         /\ \A c \in DOMAIN Answered(r) : Answered(r)[c] = r[c]
         /\ \A cells : RowsOf(Answered(r), cells) = RowsOf(r, cells)
         /\ \A cells : BelowThreshold(Answered(r), cells) <=> BelowThreshold(r, cells)
<1>1. /\ DOMAIN Answered(r) = {c \in DOMAIN r : r[c] # "error"}
      /\ \A c \in DOMAIN Answered(r) : Answered(r)[c] = r[c]
  BY DEF Answered, Restrict, RowsOf
<1> QED BY <1>1, RowsAgree

\* The last readable line of a cell is its row.
Readable(file) == {i \in DOMAIN file : file[i].ok}
IsLast(file, i) ==
    /\ i \in Readable(file)
    /\ \A j \in Readable(file) : file[j].cell = file[i].cell => j <= i

LEMMA LoadedLast ==
  ASSUME NEW file \in Seq(Rows)
  PROVE  /\ Loaded(file) \in [DOMAIN Loaded(file) -> Scores]
         /\ DOMAIN Loaded(file) \subseteq Cells
         /\ \A i : IsLast(file, i) => /\ file[i].cell \in DOMAIN Loaded(file)
                                      /\ Loaded(file)[file[i].cell] = file[i].res
         /\ \A c \in DOMAIN Loaded(file) : \E i : IsLast(file, i) /\ file[i].cell = c
<1> DEFINE D == {file[i].cell : i \in Readable(file)}
           last(c) == CHOOSE i \in Readable(file) :
                        /\ file[i].cell = c
                        /\ \A j \in Readable(file) : file[j].cell = c => j <= i
<1>1. Loaded(file) = [c \in D |-> file[last(c)].res]
  BY DEF Loaded, Readable
<1>2. ASSUME NEW c \in D PROVE IsLast(file, last(c)) /\ file[last(c)].cell = c
  <2> DEFINE T == {i \in Readable(file) : file[i].cell = c}
  <2>1. T \subseteq 1..Len(file) /\ T # {} /\ Len(file) \in Nat
    BY DEF Readable
  <2>2. PICK i \in T : \A j \in T : j <= i
    <3> HIDE DEF T
    <3> QED BY <2>1, Greatest
  <2>3. /\ last(c) \in Readable(file) /\ file[last(c)].cell = c
        /\ \A j \in Readable(file) : file[j].cell = c => j <= last(c)
    BY <2>2
  <2> QED BY <2>3 DEF IsLast
<1>3. ASSUME NEW i, IsLast(file, i)
      PROVE  file[i].cell \in D /\ last(file[i].cell) = i
  <2>1. file[i].cell \in D
    BY <1>3 DEF IsLast
  <2>2. IsLast(file, last(file[i].cell)) /\ file[last(file[i].cell)].cell = file[i].cell
    BY <1>2, <2>1
  <2> HIDE DEF last
  <2>3. last(file[i].cell) <= i /\ i <= last(file[i].cell)
    BY <1>3, <2>2 DEF IsLast
  <2>4. last(file[i].cell) \in Int /\ i \in Int
    BY <1>3, <2>2 DEF IsLast, Readable
  <2> QED BY <2>1, <2>3, <2>4
<1>4. \A i \in Readable(file) : file[i] \in Rows
  BY DEF Readable
<1>5. ASSUME NEW c \in D PROVE c \in Cells /\ file[last(c)].res \in Scores
  <2>1. last(c) \in Readable(file) /\ file[last(c)].cell = c
    BY <1>2 DEF IsLast
  <2> HIDE DEF last
  <2> QED BY <1>4, <2>1 DEF Rows
<1> HIDE DEF D, last
<1> QED BY <1>1, <1>2, <1>3, <1>5

LEMMA LoadedAppend ==
  ASSUME NEW file \in Seq(Rows), NEW row \in Rows, row.ok
  PROVE  LET f == Loaded(Append(file, row)) IN
         /\ DOMAIN f = DOMAIN Loaded(file) \cup {row.cell}
         /\ f[row.cell] = row.res
         /\ \A c \in DOMAIN Loaded(file) : c # row.cell => f[c] = Loaded(file)[c]
<1> DEFINE more == Append(file, row)
           n == Len(file) + 1
<1>1. /\ more \in Seq(Rows) /\ n \in Nat
      /\ DOMAIN more = DOMAIN file \cup {n} /\ more[n] = row
      /\ \A i \in DOMAIN file : more[i] = file[i] /\ i \in Int /\ i < n
  OBVIOUS
<1> HIDE DEF more, n
<1>2. /\ Readable(more) = Readable(file) \cup {n}
      /\ \A i \in Readable(file) : i \in DOMAIN file
  BY <1>1 DEF Readable
<1>3. IsLast(more, n) /\ more[n] = row
  BY <1>1, <1>2 DEF IsLast
<1>4. \A i : IsLast(file, i) /\ file[i].cell # row.cell => IsLast(more, i) /\ more[i] = file[i]
  BY <1>1, <1>2 DEF IsLast
<1>5. \A i : IsLast(more, i) /\ more[i].cell # row.cell => IsLast(file, i) /\ more[i] = file[i]
  BY <1>1, <1>2 DEF IsLast
<1>6. /\ \A i : IsLast(file, i) => /\ file[i].cell \in DOMAIN Loaded(file)
                                   /\ Loaded(file)[file[i].cell] = file[i].res
      /\ \A c \in DOMAIN Loaded(file) : \E i : IsLast(file, i) /\ file[i].cell = c
  BY LoadedLast
<1>7. /\ \A i : IsLast(more, i) => /\ more[i].cell \in DOMAIN Loaded(more)
                                   /\ Loaded(more)[more[i].cell] = more[i].res
      /\ \A c \in DOMAIN Loaded(more) : \E i : IsLast(more, i) /\ more[i].cell = c
  BY <1>1, LoadedLast
<1>8. row.cell \in DOMAIN Loaded(more) /\ Loaded(more)[row.cell] = row.res
  BY <1>3, <1>7
<1>9. ASSUME NEW c \in DOMAIN Loaded(file), c # row.cell
      PROVE  c \in DOMAIN Loaded(more) /\ Loaded(more)[c] = Loaded(file)[c]
  <2>1. PICK i : IsLast(file, i) /\ file[i].cell = c
    BY <1>6
  <2> QED BY <1>4, <1>6, <1>7, <1>9, <2>1
<1>10. ASSUME NEW c \in DOMAIN Loaded(more), c # row.cell PROVE c \in DOMAIN Loaded(file)
  <2>1. PICK i : IsLast(more, i) /\ more[i].cell = c
    BY <1>7
  <2> QED BY <1>5, <1>6, <1>10, <2>1
<1> QED BY <1>8, <1>9, <1>10 DEF more

\* A lane's stop is the smallest size it does badly at.
DidBadly(r, l, s) == RowsOf(r, Group(l, s)) # {} /\ BelowThreshold(r, Group(l, s))

LEMMA StopsFound ==
  ASSUME NEW r
  PROVE  /\ Reconstructed(r) \in [Lanes -> Sizes \cup {0}]
         /\ \A l \in Lanes : Reconstructed(r)[l] = 0 => \A s \in Sizes : ~DidBadly(r, l, s)
         /\ \A l \in Lanes : Reconstructed(r)[l] # 0 =>
              /\ Reconstructed(r)[l] \in Sizes /\ DidBadly(r, l, Reconstructed(r)[l])
              /\ \A s \in Sizes : DidBadly(r, l, s) => Reconstructed(r)[l] <= s
<1> DEFINE bad(l) == {s \in Sizes : DidBadly(r, l, s)}
           min(T) == CHOOSE s \in T : \A t \in T : s <= t
<1>1. Reconstructed(r) = [l \in Lanes |-> IF bad(l) = {} THEN 0 ELSE min(bad(l))]
  BY DEF Reconstructed, DidBadly
<1>2. ASSUME NEW l \in Lanes, bad(l) # {}
      PROVE  min(bad(l)) \in bad(l) /\ \A s \in bad(l) : min(bad(l)) <= s
  <2>1. bad(l) \subseteq Int /\ IsFiniteSet(bad(l))
    <3>1. Sizes \subseteq Int /\ IsFiniteSet(Sizes) /\ bad(l) \in SUBSET Sizes
      BY Bounds, BenchConstants
    <3> HIDE DEF bad
    <3> QED BY <3>1, FS_Subset
  <2> HIDE DEF bad
  <2>2. \E m \in bad(l) : \A s \in bad(l) : m <= s
    BY <1>2, <2>1, Least
  <2> QED BY <2>2
<1> HIDE DEF min
<1>3. 0 \notin Sizes
  BY Bounds
<1> QED BY <1>1, <1>2, <1>3

\* A step of the call fills what it asks for and disturbs no score.
LEMMA SweepCallKeeps == ASSUME SweepInv, BenchCall PROVE SweepInv'
<1> Runner \in Callers
  BY BenchConstants
<1>1. /\ SweepTypes /\ CacheInv /\ CacheTypes /\ RunnerAlone /\ ScoresHold
      /\ Looping /\ CallStep(Runner) /\ UNCHANGED benchVars
  BY DEF SweepInv, BenchCall, CacheInv
<1>2. UNCHANGED <<hard, stage, at, results, stops, lines, ended, joined, scored, summary, runs, misled>>
  BY <1>1 DEF benchVars, sweepVars, fileVars
<1>3. /\ Active(Runner) /\ call[Runner].key = at /\ at \in Cells /\ at \in Keys
      /\ at \notin DOMAIN results /\ ~Skips(at) /\ entry[at] \notin Torn
  BY <1>1, StepElsewhere, CellParts DEF RunnerAlone, Looping
<1>4. /\ OnlyMoves(Runner) /\ CacheInv'
      /\ \A k \in Keys : heard[k] \subseteq heard'[k]
      /\ \A k \in Keys : k # at => entry'[k] = entry[k]
  BY <1>1, <1>3, StepMoves, StepKeeps, StepElsewhere
<1>5. /\ Lone(Runner)' /\ entry'[at] \notin Torn
      /\ entry[at] \in Texts => entry'[at] = entry[at]
  <2>1. \A d \in Callers : d # Runner /\ Active(d) => call[d].key # call[Runner].key
    BY <1>1 DEF RunnerAlone
  <2> QED BY <1>1, <1>3, <2>1, StepLone DEF RunnerAlone
<1>6. RunnerAlone'
  <2>1. \A c \in Callers \ {Runner} : ~Active(c)'
    BY <1>1, <1>4 DEF RunnerAlone, OnlyMoves, Active
  <2>2. \A k \in Keys : entry'[k] \notin Torn
    BY <1>1, <1>4, <1>5 DEF RunnerAlone
  <2>3. call'[Runner].key = at
    BY <1>3, <1>4 DEF OnlyMoves
  <2> QED BY <1>1, <1>2, <1>3, <1>5, <2>1, <2>2, <2>3 DEF RunnerAlone, Looping, Skips
<1>7. ScoresHold'
  <2> SUFFICES ASSUME NEW c \in Cells, TooShort \notin heard'[c],
                      NEW res \in {"right", "wrong"}, <<c, res>> \in scored
               PROVE  (entry[c] \in Texts /\ res = Score(c, entry[c]))'
    BY <1>2 DEF ScoresHold
  <2>1. entry[c] \in Texts /\ res = Score(c, entry[c])
    BY <1>1, <1>4, CellParts DEF ScoresHold
  <2>2. entry'[c] = entry[c]
    BY <1>4, <1>5, <2>1, CellParts
  <2> QED BY <1>2, <2>1, <2>2 DEF Score, Right
<1>8. SweepTypes' /\ FileFollows' /\ Reported' /\ Inside'
  BY <1>2 DEF SweepInv, SweepTypes, FileFollows, Reported, Inside, Looping, Skips
<1>9. GridFills'
  BY <1>2 DEF SweepInv, GridFills, StopFilled, GroupFilled, Passed, HalfFilled
<1> QED BY <1>4, <1>6, <1>7, <1>8, <1>9 DEF SweepInv

\* Steps that touch no file of the cache and leave the calls to others alone.
LEMMA CacheStays ==
  ASSUME SweepInv, UNCHANGED <<entry, tmp, bought, hard>>, call' \in [Callers -> Call],
         \A c \in Callers : call'[c] = call[c] \/ call'[c].pc \in {"idle", "lookup"},
         \A c \in Callers \ {Runner} : ~Active(c)',
         Active(Runner)' => /\ Looping' /\ call'[Runner].key = at'
                            /\ at' \notin DOMAIN results' /\ ~Skips(at)'
  PROVE  CacheInv' /\ RunnerAlone'
<1>1. CacheInv'
  BY CallsChange DEF SweepInv
<1>2. Lone(Runner)'
  <2>1. CASE call'[Runner] = call[Runner]
    BY <2>1 DEF SweepInv, RunnerAlone, Lone
  <2>2. CASE call'[Runner].pc \in {"idle", "lookup"}
    BY <2>2 DEF Lone
  <2> QED BY <2>1, <2>2, BenchConstants
<1>3. \A k \in Keys : entry'[k] \notin Torn
  BY DEF SweepInv, RunnerAlone
<1> QED BY <1>1, <1>2, <1>3 DEF RunnerAlone

LEMMA ScoresStay ==
  ASSUME SweepInv, UNCHANGED <<entry, bought, hard, scored>> PROVE ScoresHold'
BY DEF SweepInv, ScoresHold, Score, Right, bought

\* The answer of the call is scored as the cache would score it again.
LEMMA OutcomeHolds ==
  ASSUME SweepInv, Returned, UNCHANGED <<entry, bought, hard>>,
         scored' \in {scored, scored \cup {<<at, Outcome>>}}
  PROVE  ScoresHold'
<1> Runner \in Callers
  BY BenchConstants
<1>1. /\ ScoresHold /\ CacheInv /\ Lone(Runner) /\ InHand(Runner)
      /\ call[Runner].pc \in {"done", "failed"} /\ Active(Runner) /\ call[Runner].key = at
  BY DEF SweepInv, Returned, Active, RunnerAlone, CacheInv
<1> SUFFICES ASSUME NEW c \in Cells, TooShort \notin heard[c],
                    NEW res \in {"right", "wrong"}, <<c, res>> \in scored'
             PROVE  entry[c] \in Texts /\ res = Score(c, entry[c])
  BY DEF ScoresHold, Score, Right, bought
<1>2. CASE <<c, res>> \in scored
  BY <1>1, <1>2 DEF ScoresHold
<1>3. CASE c = at /\ res = Outcome
  <2>1. call[Runner].pc = "done" /\ res = Score(at, call[Runner].text)
    BY <1>1, <1>3 DEF Outcome, Score
  <2>2. call[Runner].text \in heard[at] /\ call[Runner].text # TooShort
    BY <1>1, <1>3, <2>1 DEF InHand
  <2>3. entry[at] = call[Runner].text
    BY <1>1, <2>1, <2>2 DEF Lone
  <2>4. call[Runner].text \in Texts
    BY <1>1, <2>2, CellParts, <1>3 DEF CacheInv, CacheTypes
  <2> QED BY <1>3, <2>1, <2>3, <2>4
<1> QED BY <1>2, <1>3

\* Going on behind a cell that has its row keeps the grid filled behind the loops.
LEMMA AdvanceKeeps ==
  ASSUME SweepTypes, GridFills, Looping, ~Skips(at), stage' = "loop",
         NEW r \in [DOMAIN results \cup {at} -> Scores],
         \A c \in DOMAIN results : r[c] = results[c],
         Advance(r)
  PROVE  /\ at' \in Cells \cup {BehindLast} /\ stops' \in [Lanes -> Sizes \cup {0}]
         /\ results' = r /\ GridFills' /\ Inside'
<1> DEFINE l0 == Lane(at)
           s0 == Size(at)
           G0 == Group(l0, s0)
           bad == LastOfGroup(at) /\ BelowThreshold(r, G0)
<1>1. /\ at \in Cells /\ l0 \in Lanes /\ s0 \in Sizes /\ l0 \in Int /\ s0 \in Int /\ 0 < s0
      /\ at[4] \in Int /\ at[4] <= Cardinality(Questions)
      /\ stops \in [Lanes -> Sizes \cup {0}] /\ DOMAIN r = DOMAIN results \cup {at}
      /\ stops[l0] = 0 \/ (s0 < stops[l0] /\ stops[l0] \in Int)
  BY CellParts, Bounds DEF Looping, SweepTypes, Lane, Size, Skips
<1>2. /\ at' = NextCell(at) /\ results' = r
      /\ stops' = IF bad THEN [stops EXCEPT ![l0] = s0] ELSE stops
      /\ misled' = (misled \/ (bad /\ RowsOf(r, G0) = {}))
  BY DEF Advance
<1>3. /\ at' \in Cells \cup {BehindLast} /\ stops' \in [Lanes -> Sizes \cup {0}]
  BY <1>1, <1>2, CellBehind
<1>4. ASSUME ~misled' PROVE GridFills'
  <2>1. /\ ~misled /\ HalfFilled /\ stage = "loop"
        /\ \A l \in Lanes, s \in Sizes : StopFilled(l, s) /\ GroupFilled(l, s)
    BY <1>2, <1>4 DEF GridFills, Looping
  <2>2. ASSUME NEW G, G \subseteq DOMAIN results
        PROVE  G \subseteq DOMAIN r /\ (BelowThreshold(r, G) <=> BelowThreshold(results, G))
    BY <1>1, <2>2, RowsAgree
  <2>3. \A c \in G0 : c[4] \in Int /\ c[4] <= Cardinality(Questions)
                       /\ (c[4] = at[4] => c = at) /\ (c[4] < at[4] => c \in DOMAIN results)
    BY <1>1, <2>1, CellParts, Bounds DEF HalfFilled, Lane, Size
  <2>4. LastOfGroup(at) => G0 \subseteq DOMAIN r
    <3> SUFFICES ASSUME LastOfGroup(at), NEW c \in G0 PROVE c \in DOMAIN r
      BY Zenon
    <3>1. c[4] = at[4] \/ c[4] < at[4]
      BY <1>1, <2>3 DEF LastOfGroup
    <3> QED BY <1>1, <2>3, <3>1
  <2>5. ASSUME NEW l \in Lanes, NEW s \in Sizes PROVE StopFilled(l, s)'
    <3> SUFFICES ASSUME stops'[l] = s
                 PROVE  Group(l, s) \subseteq DOMAIN r /\ BelowThreshold(r, Group(l, s))
      BY <1>2 DEF StopFilled
    <3>1. CASE bad /\ l = l0
      BY <1>1, <1>2, <2>4, <3>1
    <3>2. CASE ~(bad /\ l = l0)
      <4>1. stops[l] = s
        BY <1>1, <1>2, <3>2
      <4> QED BY <2>1, <2>2, <4>1 DEF StopFilled
    <3> QED BY <3>1, <3>2
  <2>6. ASSUME NEW l \in Lanes, NEW s \in Sizes PROVE GroupFilled(l, s)'
    <3> SUFFICES ASSUME Passed(l, s)', stops'[l] = 0 \/ s < stops'[l]
                 PROVE  Group(l, s) \subseteq DOMAIN r /\ ~BelowThreshold(r, Group(l, s))
      BY <1>2 DEF GroupFilled
    <3>1. CASE LastOfGroup(at) /\ l = l0 /\ s = s0
      <4>1. ~bad
        BY <1>1, <1>2, <3>1
      <4> QED BY <2>4, <3>1, <4>1
    <3>2. CASE ~(LastOfGroup(at) /\ l = l0 /\ s = s0)
      <4>1. Passed(l, s)
        <5>1. CASE LastOfGroup(at)
          <6>1. l < l0 \/ (l = l0 /\ s <= s0)
            BY <1>1, <1>2, <5>1, CellBehind, GroupBehind DEF Passed
          <6>2. s \in Int
            BY Bounds
          <6> QED BY <1>1, <3>2, <5>1, <6>1, <6>2 DEF Passed
        <5>2. CASE ~LastOfGroup(at)
          BY <1>1, <1>2, <5>2, CellBehind DEF Passed
        <5> QED BY <5>1, <5>2
      <4>2. stops[l] = 0 \/ s < stops[l]
        <5>1. CASE bad /\ l = l0
          <6>1. s < s0 /\ s \in Int
            BY <1>1, <4>1, <5>1, Bounds DEF Passed
          <6> QED BY <1>1, <5>1, <6>1
        <5>2. CASE ~(bad /\ l = l0)
          BY <1>1, <1>2, <5>2
        <5> QED BY <5>1, <5>2
      <4> QED BY <2>1, <2>2, <4>1, <4>2 DEF GroupFilled
    <3> QED BY <3>1, <3>2
  <2>7. HalfFilled'
    <3> SUFFICES ASSUME at' \in Cells
                 PROVE  \A c \in Group(Lane(at'), Size(at')) : c[4] < at'[4] => c \in DOMAIN r
      BY <1>2 DEF HalfFilled
    <3>1. CASE LastOfGroup(at)
      <4>1. at'[4] = 1
        BY <1>1, <1>2, <3>1, CellBehind, GroupBehind
      <4>2. \A c \in Group(Lane(at'), Size(at')) : ~(c[4] < 1)
        BY CellParts, Bounds
      <4> QED BY <4>1, <4>2
    <3>2. CASE ~LastOfGroup(at)
      <4>1. Lane(at') = l0 /\ Size(at') = s0 /\ at'[4] = at[4] + 1
        BY <1>1, <1>2, <3>2, CellBehind
      <4>2. \A c \in G0 : c[4] < at[4] + 1 => c[4] = at[4] \/ c[4] < at[4]
        BY <1>1, <2>3
      <4> QED BY <1>1, <2>3, <4>1, <4>2
    <3> QED BY <3>1, <3>2
  <2> QED BY <2>5, <2>6, <2>7 DEF GridFills
<1>5. ASSUME misled' PROVE GridFills'
  BY <1>5 DEF GridFills
<1>6. GridFills'
  BY <1>4, <1>5, Zenon
<1>7. Inside'
  <2>1. CASE LastOfGroup(at)
    <3>1. at'[4] = 1
      BY <1>1, <1>2, <2>1, CellBehind, GroupBehind
    <3> QED BY <3>1 DEF Inside, FirstOfGroup
  <2>2. CASE ~LastOfGroup(at)
    <3>1. Lane(at') = l0 /\ Size(at') = s0 /\ stops' = stops
      BY <1>1, <1>2, <2>2, CellBehind
    <3> QED BY <3>1 DEF Inside, Skips
  <2> QED BY <2>1, <2>2
<1> QED BY <1>2, <1>3, <1>6, <1>7

LEMMA SweepStarts == ASSUME CacheInit, BenchInit PROVE SweepInv
<1>1. CacheInv
  BY CacheStarts
<1>2. SweepTypes
  BY CellParts DEF BenchInit, BenchStart, NoRows, NoStops, SweepTypes
<1>3. RunnerAlone
  <2>1. \A c \in Callers : call[c] = NoCall /\ ~Active(c)
    BY NoCallTyped DEF CacheInit, CacheEmpty, Active
  <2>2. Lone(Runner)
    BY <2>1, NoCallTyped, BenchConstants DEF Lone
  <2> QED BY <2>1, <2>2, BenchConstants DEF RunnerAlone, CacheInit, CacheEmpty, Torn
<1> QED BY <1>1, <1>2, <1>3 DEF SweepInv, BenchInit, BenchStart, NoRows, ScoresHold, FileFollows, GridFills, Inside, Looping, Reported

\* The rows that are read back stop the lanes that did badly before.
LEMMA LoadKeeps == ASSUME SweepInv, Load PROVE SweepInv'
<1> DEFINE prev == Loaded(lines)
<1>1. /\ UNCHANGED <<entry, tmp, call, paid, heard, faults, hard, lines, ended, scored>>
      /\ stage = "load" /\ stage' = "loop" /\ at' = FirstCell
      /\ results' = Answered(prev) /\ stops' = Reconstructed(prev)
      /\ misled' = (misled \/ \E l \in Lanes :
                        LET s == Reconstructed(prev)[l] IN
                        s # 0 /\ RowsOf(prev, Group(l, s)) # Group(l, s))
  BY DEF Load, cacheVars
<1>2. SweepTypes /\ lines \in Seq(Rows)
  BY DEF SweepInv, SweepTypes
<1>3. /\ prev \in [DOMAIN prev -> Scores] /\ DOMAIN prev \subseteq Cells
      /\ DOMAIN results' = {c \in DOMAIN prev : prev[c] # "error"}
      /\ \A c \in DOMAIN results' : results'[c] = prev[c]
      /\ \A cells : RowsOf(results', cells) = RowsOf(prev, cells)
      /\ \A cells : BelowThreshold(results', cells) <=> BelowThreshold(prev, cells)
  BY <1>1, <1>2, LoadedLast, AnsweredRows
<1> HIDE DEF prev
<1>4. SweepTypes'
  <2>1. results' \in [DOMAIN results' -> Scores]
    <3>1. results' = [c \in DOMAIN results' |-> results'[c]]
      BY <1>1 DEF Answered, Restrict
    <3> QED BY <1>3, <3>1
  <2>2. stops' \in [Lanes -> Sizes \cup {0}]
    BY <1>1, StopsFound
  <2> QED BY <1>1, <1>2, <1>3, <2>1, <2>2, CellParts DEF SweepTypes
<1>5. CacheInv' /\ RunnerAlone'
  <2>1. \A c \in Callers : ~Active(c) /\ ~Active(c)' /\ call'[c] = call[c]
    BY <1>1 DEF SweepInv, RunnerAlone, Looping, Active
  <2>2. call' \in [Callers -> Call]
    BY <1>1 DEF SweepInv, CacheInv, CacheTypes
  <2> QED BY <1>1, <2>1, <2>2, CacheStays, BenchConstants DEF bought
<1>6. ScoresHold'
  BY <1>1, ScoresStay DEF bought
<1>7. FileFollows'
  BY <1>1, <1>3 DEF FileFollows, Matches, prev
<1>8. ASSUME ~misled' PROVE GridFills'
  <2>1. ASSUME NEW l \in Lanes, NEW s \in Sizes PROVE StopFilled(l, s)' /\ GroupFilled(l, s)'
    <3>1. ~Passed(l, s)'
      BY <1>1, Bounds DEF Passed, FirstCell, Lane, Size
    <3>2. ASSUME stops'[l] = s
          PROVE  Group(l, s) \subseteq DOMAIN results' /\ BelowThreshold(results', Group(l, s))
      <4>1. s # 0 /\ Reconstructed(prev)[l] = s
        BY <1>1, <3>2, Bounds
      <4>2. DidBadly(prev, l, s) /\ RowsOf(prev, Group(l, s)) = Group(l, s)
        BY <1>1, <1>8, <4>1, StopsFound
      <4> QED BY <1>3, <4>2 DEF DidBadly, RowsOf
    <3> QED BY <3>1, <3>2 DEF StopFilled, GroupFilled
  <2>2. HalfFilled'
    BY <1>1, CellParts, Bounds DEF HalfFilled, FirstCell
  <2> QED BY <2>1, <2>2 DEF GridFills
<1>9. ASSUME misled' PROVE GridFills'
  BY <1>9 DEF GridFills
<1>10. GridFills'
  BY <1>8, <1>9, Zenon
<1>11. Inside' /\ Reported'
  BY <1>1 DEF Inside, FirstOfGroup, FirstCell, Reported
<1> QED BY <1>4, <1>5, <1>6, <1>7, <1>10, <1>11 DEF SweepInv

\* A group beyond the size its lane stopped at has nothing to be filled.
LEMMA SkipGroupKeeps == ASSUME SweepInv, SkipGroup PROVE SweepInv'
<1>1. /\ UNCHANGED <<entry, tmp, call, paid, heard, faults, hard, stage, results, stops>>
      /\ UNCHANGED <<lines, ended, joined, scored, misled>>
      /\ stage = "loop" /\ at \in Cells /\ FirstOfGroup(at) /\ Skips(at) /\ at' = NextGroup(at)
  BY DEF SkipGroup, cacheVars, fileVars, Looping
<1>2. SweepTypes' /\ at' \in Cells \cup {BehindLast} /\ at'[4] = 1
  BY <1>1, GroupBehind DEF SweepInv, SweepTypes
<1>3. CacheInv' /\ RunnerAlone'
  <2>1. \A c \in Callers : ~Active(c) /\ ~Active(c)' /\ call'[c] = call[c]
    BY <1>1 DEF SweepInv, RunnerAlone, Active
  <2>2. call' \in [Callers -> Call]
    BY <1>1 DEF SweepInv, CacheInv, CacheTypes
  <2> QED BY <1>1, <2>1, <2>2, CacheStays, BenchConstants DEF bought
<1>4. ScoresHold' /\ FileFollows' /\ Inside' /\ Reported'
  BY <1>1, <1>2, ScoresStay DEF bought, SweepInv, FileFollows, Inside, FirstOfGroup, Reported
<1>5. GridFills'
  <2> SUFFICES ASSUME GridFills, ~misled PROVE GridFills'
    BY <1>1 DEF GridFills, SweepInv
  <2>1. \A l \in Lanes, s \in Sizes : StopFilled(l, s) /\ GroupFilled(l, s)
    BY <1>1 DEF GridFills
  <2>2. ASSUME NEW l \in Lanes, NEW s \in Sizes PROVE StopFilled(l, s)'
    BY <1>1, <2>1 DEF StopFilled
  <2>3. ASSUME NEW l \in Lanes, NEW s \in Sizes PROVE GroupFilled(l, s)'
    <3> SUFFICES ASSUME Passed(l, s)', stops[l] = 0 \/ s < stops[l] PROVE Passed(l, s)
      BY <1>1, <2>1 DEF GroupFilled
    <3>1. l < Lane(at) \/ (l = Lane(at) /\ s <= Size(at))
      BY <1>1, GroupBehind DEF Passed
    <3>2. stops[Lane(at)] # 0 /\ Size(at) >= stops[Lane(at)]
      BY <1>1 DEF Skips
    <3>3. stops[l] \in Int /\ s \in Int /\ Size(at) \in Int
      BY <1>1, Bounds, CellParts DEF SweepInv, SweepTypes, Size
    <3> QED BY <3>1, <3>2, <3>3 DEF Passed
  <2>4. HalfFilled'
    BY <1>2, CellParts, Bounds DEF HalfFilled
  <2> QED BY <2>2, <2>3, <2>4 DEF GridFills
<1> QED BY <1>2, <1>3, <1>4, <1>5 DEF SweepInv

\* The loops go on in no group that is to be skipped.
LEMMA EnteredInside == ASSUME SweepInv, Enters PROVE ~Skips(at)
BY DEF SweepInv, Inside, Enters

LEMMA SkipSeenKeeps == ASSUME SweepInv, SkipSeen PROVE SweepInv'
<1>1. /\ UNCHANGED <<entry, tmp, call, paid, heard, faults, hard, stage>>
      /\ UNCHANGED <<lines, ended, joined, scored>>
      /\ stage = "loop" /\ at \in Cells /\ at \in DOMAIN results /\ Advance(results)
      /\ ~Skips(at) /\ call[Runner].pc = "idle"
  BY EnteredInside DEF SkipSeen, Enters, cacheVars, fileVars, Looping
<1>2. SweepTypes /\ GridFills /\ Looping /\ results \in [DOMAIN results -> Scores]
  BY <1>1 DEF SweepInv, SweepTypes, Looping
<1>3. /\ at' \in Cells \cup {BehindLast} /\ stops' \in [Lanes -> Sizes \cup {0}]
      /\ results' = results /\ GridFills' /\ Inside'
  <2>1. DOMAIN results \cup {at} = DOMAIN results
    BY <1>1
  <2> QED BY <1>1, <1>2, <2>1, AdvanceKeeps
<1>4. SweepTypes'
  BY <1>1, <1>2, <1>3 DEF SweepTypes
<1>5. CacheInv' /\ RunnerAlone'
  <2>1. \A c \in Callers : ~Active(c) /\ ~Active(c)' /\ call'[c] = call[c]
    BY <1>1 DEF SweepInv, RunnerAlone, Active
  <2>2. call' \in [Callers -> Call]
    BY <1>1 DEF SweepInv, CacheInv, CacheTypes
  <2> QED BY <1>1, <2>1, <2>2, CacheStays, BenchConstants DEF bought
<1>6. ScoresHold' /\ FileFollows' /\ Reported'
  BY <1>1, <1>3, ScoresStay DEF bought, SweepInv, FileFollows, Reported
<1> QED BY <1>3, <1>4, <1>5, <1>6 DEF SweepInv

LEMMA AskCellKeeps == ASSUME SweepInv, AskCell PROVE SweepInv'
<1> DEFINE asked == [NoCall EXCEPT !.pc = "lookup", !.key = at, !.name = Runner]
<1>1. /\ UNCHANGED <<entry, tmp, bought, benchVars>>
      /\ Looping /\ at \in Cells /\ at \notin DOMAIN results /\ ~Skips(at)
      /\ call' = [call EXCEPT ![Runner] = asked]
  BY EnteredInside DEF AskCell, Enters, Looping, Begin, Become
<1>2. UNCHANGED <<hard, stage, at, results, stops, lines, ended, joined, scored, summary, misled>>
  BY <1>1 DEF benchVars, sweepVars, fileVars
<1>3. asked \in Call /\ asked.pc = "lookup" /\ asked.key = at
  BY <1>1, NoCallTyped, CellParts, BenchConstants DEF Call, CallSteps
<1> HIDE DEF asked
<1>4. CacheInv' /\ RunnerAlone'
  <2>1. call \in [Callers -> Call] /\ \A c \in Callers \ {Runner} : ~Active(c)
    BY DEF SweepInv, CacheInv, CacheTypes, RunnerAlone
  <2>2. /\ call' \in [Callers -> Call] /\ call'[Runner] = asked
        /\ \A c \in Callers \ {Runner} : call'[c] = call[c] /\ ~Active(c)'
    BY <1>1, <1>3, <2>1, BenchConstants DEF Active
  <2>3. (Looping /\ ~Skips(at))'
    BY <1>1, <1>2 DEF Looping, Skips
  <2> QED BY <1>1, <1>2, <1>3, <2>2, <2>3, CacheStays
<1>5. ScoresHold' /\ SweepTypes' /\ FileFollows' /\ Inside' /\ Reported'
  BY <1>1, <1>2, ScoresStay DEF SweepInv, SweepTypes, FileFollows, Inside, Looping, Skips, Reported
<1>6. GridFills'
  BY <1>2 DEF SweepInv, GridFills, StopFilled, GroupFilled, Passed, HalfFilled
<1> QED BY <1>4, <1>5, <1>6 DEF SweepInv

\* The row goes to the file and to memory alike, unless it is joined to a torn line.
LEMMA RecordKeeps == ASSUME SweepInv, RecordCell PROVE SweepInv'
<1> DEFINE r == [c \in DOMAIN results \cup {at} |-> IF c = at THEN Outcome ELSE results[c]]
<1>1. /\ UNCHANGED <<entry, tmp, bought, hard, stage>> /\ Returned /\ Looping /\ at \in Cells
      /\ call' = [call EXCEPT ![Runner] = NoCall]
      /\ lines' = Appended(Row) /\ ended' = TRUE /\ joined' = (joined \/ ~ended)
      /\ scored' = scored \cup {<<at, Outcome>>} /\ Advance(r)
  BY DEF RecordCell, Returned, Looping, Become
<1>2. SweepTypes /\ GridFills /\ RunnerAlone /\ FileFollows /\ stage = "loop"
  BY <1>1 DEF SweepInv, Looping
<1>3. at \notin DOMAIN results /\ ~Skips(at)
  BY <1>1, <1>2, BenchConstants DEF RunnerAlone, Active, Returned
<1>4. Outcome \in Scores /\ Row \in Rows /\ Row.ok /\ Row.cell = at /\ Row.res = Outcome
  BY <1>1 DEF Outcome, Scores, Row, Rows
<1>5. /\ r \in [DOMAIN results \cup {at} -> Scores] /\ r[at] = Outcome
      /\ \A c \in DOMAIN results : r[c] = results[c]
  BY <1>2, <1>3, <1>4 DEF SweepTypes
<1> HIDE DEF r
<1>6. /\ at' \in Cells \cup {BehindLast} /\ stops' \in [Lanes -> Sizes \cup {0}]
      /\ results' = r /\ GridFills' /\ Inside'
  BY <1>1, <1>2, <1>3, <1>5, AdvanceKeeps
<1>7. lines' \in Seq(Rows) /\ (ended => lines' = Append(lines, Row))
  <2>1. CASE ended
    BY <1>1, <1>2, <1>4, <2>1 DEF Appended, SweepTypes
  <2>2. CASE ~ended
    <3>1. lines' = [lines EXCEPT ![Len(lines)].ok = FALSE]
      BY <1>1, <2>2 DEF Appended
    <3>2. lines \in Seq(Rows) /\ Len(lines) \in 1..Len(lines) /\ lines[Len(lines)] \in Rows
      BY <1>2, <2>2 DEF SweepTypes
    <3>3. [lines[Len(lines)] EXCEPT !.ok = FALSE] \in Rows
      BY <3>2 DEF Rows
    <3> QED BY <2>2, <3>1, <3>2, <3>3
  <2> QED BY <2>1, <2>2
<1>8. SweepTypes'
  BY <1>1, <1>2, <1>5, <1>6, <1>7 DEF SweepTypes
<1>9. CacheInv' /\ RunnerAlone'
  <2>1. call \in [Callers -> Call] /\ \A c \in Callers \ {Runner} : ~Active(c)
    BY DEF SweepInv, CacheInv, CacheTypes, RunnerAlone
  <2>2. /\ call' \in [Callers -> Call]
        /\ \A c \in Callers : (call'[c] = call[c] \/ call'[c].pc = "idle") /\ ~Active(c)'
    BY <1>1, <2>1, NoCallTyped, BenchConstants DEF Active
  <2> QED BY <1>1, <2>2, CacheStays, BenchConstants
<1>10. ScoresHold'
  BY <1>1, OutcomeHolds
<1>11. FileFollows'
  <2> SUFFICES ASSUME ~joined' PROVE Matches(Loaded(lines'), r)
    BY <1>6 DEF FileFollows
  <2>1. ended /\ Matches(Loaded(lines), results)
    BY <1>1, <1>2 DEF FileFollows
  <2>2. lines \in Seq(Rows) /\ lines' = Append(lines, Row)
    BY <1>2, <1>7, <2>1 DEF SweepTypes
  <2>3. /\ DOMAIN Loaded(lines') = DOMAIN Loaded(lines) \cup {at}
        /\ Loaded(lines')[at] = Outcome
        /\ \A c \in DOMAIN Loaded(lines) : c # at => Loaded(lines')[c] = Loaded(lines)[c]
    BY <1>4, <2>2, LoadedAppend
  <2> QED BY <1>3, <1>5, <2>1, <2>3 DEF Matches
<1>12. Reported'
  BY <1>1, <1>2 DEF Reported
<1> QED BY <1>6, <1>8, <1>9, <1>10, <1>11, <1>12 DEF SweepInv

LEMMA SummaryKeeps == ASSUME SweepInv, WriteSummary PROVE SweepInv'
<1>1. /\ UNCHANGED <<entry, tmp, call, paid, heard, faults, hard, at, results, stops>>
      /\ UNCHANGED <<lines, ended, joined, scored, misled>>
      /\ stage = "loop" /\ at \notin Cells /\ stage' = "done"
      /\ summary' = Summaries(results, stops)
  BY DEF WriteSummary, cacheVars, sweepVars, fileVars
<1>2. SweepTypes' /\ Reported'
  BY <1>1 DEF SweepInv, SweepTypes, Reported
<1>3. CacheInv' /\ RunnerAlone'
  <2>1. \A c \in Callers : ~Active(c) /\ ~Active(c)' /\ call'[c] = call[c]
    BY <1>1 DEF SweepInv, RunnerAlone, Looping, Active
  <2>2. call' \in [Callers -> Call]
    BY <1>1 DEF SweepInv, CacheInv, CacheTypes
  <2> QED BY <1>1, <2>1, <2>2, CacheStays, BenchConstants DEF bought
<1>4. ScoresHold' /\ FileFollows' /\ Inside'
  BY <1>1, ScoresStay DEF bought, SweepInv, FileFollows, Inside, Looping
<1>5. GridFills'
  BY <1>1 DEF SweepInv, GridFills, StopFilled, GroupFilled, Passed, HalfFilled
<1> QED BY <1>2, <1>3, <1>4, <1>5 DEF SweepInv

LEMMA KillKeepsSweep == ASSUME SweepInv, KillRunner PROVE SweepInv'
<1>1. /\ CacheCrash /\ UNCHANGED <<entry, bought, hard, at, results, stops>>
      /\ call' = [c \in Callers |-> NoCall] /\ stage' = "down"
      /\ SweepTypes
  BY DEF SweepInv, KillRunner, CacheCrash, sweepVars
<1>2. CacheInv' /\ RunnerAlone'
  <2>1. \A c \in Callers : call'[c].pc = "idle"
    BY <1>1, NoCallTyped
  <2>2. \A k \in Keys : entry'[k] \notin Torn
    BY <1>1 DEF SweepInv, RunnerAlone
  <2> QED BY <1>1, <2>1, <2>2, CrashKeeps, BenchConstants DEF SweepInv, RunnerAlone, Lone, Active
<1>3. /\ lines' \in Seq(Rows) /\ ended' \in BOOLEAN /\ (~ended' => lines' # << >>)
      /\ ScoresHold'
  <2>1. CASE UNCHANGED fileVars
    BY <1>1, <2>1, ScoresStay DEF SweepTypes, fileVars
  <2>2. CASE ~UNCHANGED fileVars
    <3>1. PICK whole \in BOOLEAN :
            /\ lines' = IF ended THEN Append(lines, [Row EXCEPT !.ok = whole]) ELSE Appended(Row)
            /\ Returned /\ ended' = FALSE /\ scored' = scored \cup {<<at, Outcome>>}
      BY <2>2 DEF KillRunner
    <3>2. ScoresHold'
      BY <1>1, <3>1, OutcomeHolds
    <3>3. at \in Cells /\ [Row EXCEPT !.ok = whole] \in Rows
      BY <3>1 DEF Returned, Looping, Row, Rows, Outcome, Scores
    <3>4. CASE ended
      <4>1. lines \in Seq(Rows) /\ lines' = Append(lines, [Row EXCEPT !.ok = whole])
        BY <1>1, <3>1, <3>4 DEF SweepTypes
      <4> HIDE DEF Row
      <4>2. lines' \in Seq(Rows) /\ lines' # << >>
        BY <3>3, <4>1
      <4> QED BY <3>1, <3>2, <4>2
    <3>5. CASE ~ended
      <4>1. lines' = [lines EXCEPT ![Len(lines)].ok = FALSE]
        BY <3>1, <3>5 DEF Appended
      <4>2. lines \in Seq(Rows) /\ Len(lines) \in 1..Len(lines) /\ lines[Len(lines)] \in Rows
        BY <1>1, <3>5 DEF SweepTypes
      <4>3. [lines[Len(lines)] EXCEPT !.ok = FALSE] \in Rows
        BY <4>2 DEF Rows
      <4>4. lines' \in Seq(Rows) /\ lines' # << >>
        BY <4>1, <4>2, <4>3
      <4> QED BY <3>1, <3>2, <4>4
    <3> QED BY <3>4, <3>5
  <2> QED BY <2>1, <2>2
<1>4. SweepTypes'
  BY <1>1, <1>3 DEF SweepTypes
<1> QED BY <1>1, <1>2, <1>3, <1>4 DEF SweepInv, FileFollows, GridFills, Inside, Looping, Reported

LEMMA StartKeeps == ASSUME SweepInv, StartSweep PROVE SweepInv'
<1>1. /\ UNCHANGED <<entry, tmp, call, paid, heard, faults, hard, at, results, stops>>
      /\ UNCHANGED <<lines, ended, joined, scored, misled>>
      /\ stage \in {"down", "done"} /\ stage' = "load"
  BY DEF StartSweep, cacheVars, sweepVars, fileVars
<1>2. SweepTypes'
  BY <1>1 DEF SweepInv, SweepTypes
<1>3. CacheInv' /\ RunnerAlone'
  <2>1. \A c \in Callers : ~Active(c) /\ ~Active(c)' /\ call'[c] = call[c]
    BY <1>1 DEF SweepInv, RunnerAlone, Looping, Active
  <2>2. call' \in [Callers -> Call]
    BY <1>1 DEF SweepInv, CacheInv, CacheTypes
  <2> QED BY <1>1, <2>1, <2>2, CacheStays, BenchConstants DEF bought
<1> QED BY <1>1, <1>2, <1>3, ScoresStay
        DEF SweepInv, bought, FileFollows, GridFills, Inside, Looping, Reported

LEMMA SweepInvariant == BenchSpec => []SweepInv
<1>1. CacheInit /\ BenchInit => SweepInv
  BY SweepStarts
<1>2. SweepInv /\ [BenchNext]_<<cacheVars, benchVars>> => SweepInv'
  <2> SUFFICES ASSUME SweepInv, [BenchNext]_<<cacheVars, benchVars>> PROVE SweepInv'
    OBVIOUS
  <2>1. CASE UNCHANGED <<cacheVars, benchVars>>
    <3>1. /\ UNCHANGED <<entry, tmp, call, paid, heard, faults, hard, stage, at, results, stops>>
          /\ UNCHANGED <<lines, ended, joined, scored, misled, summary>>
      BY <2>1 DEF cacheVars, benchVars, sweepVars, fileVars
    <3>2. CacheInv'
      BY <3>1, CallsChange DEF SweepInv, CacheInv, CacheTypes, bought
    <3>3. RunnerAlone' /\ SweepTypes' /\ FileFollows' /\ Inside' /\ Reported'
      BY <3>1 DEF SweepInv, RunnerAlone, Lone, Active, Looping, Skips, SweepTypes, FileFollows, Inside, Reported
    <3>4. GridFills' /\ ScoresHold'
      BY <3>1, ScoresStay DEF SweepInv, GridFills, StopFilled, GroupFilled, Passed, HalfFilled, bought
    <3> QED BY <3>2, <3>3, <3>4 DEF SweepInv
  <2> QED BY <2>1, LoadKeeps, SkipGroupKeeps, SkipSeenKeeps, AskCellKeeps, SweepCallKeeps, RecordKeeps,
             SummaryKeeps, KillKeepsSweep, StartKeeps DEF BenchNext, BenchStep
<1> QED BY <1>1, <1>2, PTL DEF BenchSpec

LEMMA GridIsReached == ASSUME SweepInv PROVE GridReached
<1> SUFFICES ASSUME stage = "done", ~misled, NEW l \in Lanes, NEW s \in Sizes
             PROVE  /\ stops[l] = 0 \/ s <= stops[l] => Group(l, s) \subseteq DOMAIN results
                    /\ stops[l] = s => BelowThreshold(results, Group(l, s))
                    /\ stops[l] = 0 \/ s < stops[l] => ~BelowThreshold(results, Group(l, s))
  BY DEF GridReached
<1>1. StopFilled(l, s) /\ GroupFilled(l, s) /\ at = BehindLast
  BY DEF SweepInv, GridFills, Reported
<1>2. Passed(l, s)
  BY <1>1, Bounds DEF Passed, BehindLast, Lane
<1>3. stops[l] \in Int /\ s \in Int
  BY Bounds DEF SweepInv, SweepTypes
<1> QED BY <1>1, <1>2, <1>3 DEF StopFilled, GroupFilled

\* Where no call failed and no stop misled, the file tells the stops there are.
LEMMA StopsTold ==
  ASSUME SweepInv, stage = "done", ~misled, \A c \in DOMAIN results : results[c] # "error"
  PROVE  stops = Reconstructed(results)
<1>1. stops \in [Lanes -> Sizes \cup {0}]
  BY DEF SweepInv, SweepTypes
<1>2. ASSUME NEW l \in Lanes PROVE stops[l] = Reconstructed(results)[l]
  <2>1. ASSUME NEW s \in Sizes
        PROVE  /\ stops[l] = s => DidBadly(results, l, s)
               /\ DidBadly(results, l, s) => stops[l] # 0 /\ stops[l] <= s
    <3>1. /\ stops[l] = 0 \/ s <= stops[l] => Group(l, s) \subseteq DOMAIN results
          /\ stops[l] = s => BelowThreshold(results, Group(l, s))
          /\ stops[l] = 0 \/ s < stops[l] => ~BelowThreshold(results, Group(l, s))
      BY GridIsReached DEF GridReached
    <3>2. stops[l] \in Int /\ s \in Int
      BY <1>1, Bounds
    <3>3. <<"bench", l, s, 1>> \in Group(l, s)
      BY CellParts, Bounds
    <3>4. Group(l, s) \subseteq DOMAIN results => RowsOf(results, Group(l, s)) # {}
      BY <3>3 DEF RowsOf
    <3> QED BY <3>1, <3>2, <3>4 DEF DidBadly
  <2>2. /\ Reconstructed(results)[l] \in Sizes \cup {0} /\ stops[l] \in Sizes \cup {0}
        /\ Reconstructed(results)[l] = 0 => \A s \in Sizes : ~DidBadly(results, l, s)
        /\ Reconstructed(results)[l] # 0 =>
             /\ DidBadly(results, l, Reconstructed(results)[l])
             /\ \A s \in Sizes : DidBadly(results, l, s) => Reconstructed(results)[l] <= s
    BY <1>1, StopsFound
  <2>3. Sizes \subseteq Int
    BY Bounds
  <2> QED BY <2>1, <2>2, <2>3
<1> QED BY <1>1, <1>2, StopsFound

LEMMA DiskIsMatched == ASSUME SweepInv PROVE DiskMatches
<1> SUFFICES ASSUME stage = "done", ~joined
             PROVE  /\ Answered(Loaded(lines)) = Answered(results)
                    /\ (\A i \in DOMAIN lines : lines[i].res # "error") /\ ~misled =>
                          summary = Summaries(Loaded(lines), Reconstructed(Loaded(lines)))
  BY DEF DiskMatches
<1> DEFINE file == Loaded(lines)
<1>1. /\ Matches(file, results) /\ lines \in Seq(Rows) /\ summary = Summaries(results, stops)
      /\ results \in [DOMAIN results -> Scores]
  BY DEF SweepInv, FileFollows, SweepTypes, Reported
<1>2. /\ file \in [DOMAIN file -> Scores]
      /\ \A c \in DOMAIN file : \E i : IsLast(lines, i) /\ lines[i].cell = c /\ file[c] = lines[i].res
  BY <1>1, LoadedLast
<1> HIDE DEF file
<1>3. Answered(file) = Answered(results)
  <2>1. RowsOf(file, DOMAIN file) = RowsOf(results, DOMAIN results)
    BY <1>1 DEF Matches, RowsOf
  <2>2. \A c \in RowsOf(results, DOMAIN results) : file[c] = results[c]
    BY <1>1 DEF Matches, RowsOf
  <2> QED BY <2>1, <2>2 DEF Answered, Restrict
<1>4. ASSUME \A i \in DOMAIN lines : lines[i].res # "error", ~misled
      PROVE  summary = Summaries(file, Reconstructed(file))
  <2>1. \A c \in DOMAIN file : file[c] # "error"
    BY <1>2, <1>4 DEF IsLast, Readable
  <2>2. DOMAIN file = DOMAIN results /\ \A c \in DOMAIN file : file[c] = results[c]
    BY <1>1, <2>1 DEF Matches
  <2>3. file = results
    BY <1>1, <1>2, <2>2
  <2>4. stops = Reconstructed(results)
    BY <1>4, <2>1, <2>3, StopsTold
  <2> QED BY <1>1, <2>3, <2>4
<1> QED BY <1>3, <1>4 DEF file

LEMMA SweepIsSound == SweepInv => SweepResumes
<1> SUFFICES ASSUME SweepInv PROVE SweepResumes
  OBVIOUS
<1>1. BenchTypeOK
  <2>1. SweepTypes /\ lines \in Seq(Rows)
    BY DEF SweepInv, SweepTypes
  <2>2. \A i \in DOMAIN lines : lines[i] \in Rows
    BY <2>1
  <2> QED BY <2>1, <2>2 DEF SweepTypes, Rows, Scores, BenchTypeOK
<1>2. RefilledAlike
  BY DEF SweepInv, ScoresHold, RefilledAlike
<1> QED BY <1>1, <1>2, GridIsReached, DiskIsMatched DEF SweepResumes

\* A sweep that was killed and resumed any number of times is the sweep that ran
\* through: it fills the grid up to the size each lane stops at, gives no cell two
\* scores, and leaves on disk what it counted (runner.ts:131-400).
THEOREM SweepsResume == BenchSpec => []SweepResumes
<1> QED BY SweepInvariant, SweepIsSound, PTL

\* What the cache hands a sweep is whole and true.
THEOREM SweepAnswersWhole == BenchSpec => []AnswersWhole
<1>1. SweepInv => AnswersWhole
  BY CacheIsSound DEF SweepInv
<1> QED BY <1>1, SweepInvariant, PTL

\* A sweep that is started again buys no response that is stored (cachedLlm.ts:82).
THEOREM SweepBuysOnce == BenchSpec => NeverBoughtAgain
<1>1. SweepInv /\ [BenchNext]_<<cacheVars, benchVars>> =>
        [\A k \in Keys \ SharedKeys : entry[k] \in Texts => paid'[k] = paid[k]]_cacheVars
  <2> SUFFICES ASSUME SweepInv, [BenchNext]_<<cacheVars, benchVars>>, NEW k \in Keys, entry[k] \in Texts
               PROVE  paid'[k] = paid[k]
    OBVIOUS
  <2>1. CASE UNCHANGED paid
    BY <2>1
  <2>2. CASE \E t \in Texts \cup {TooShort} : Answers(Runner, t)
    <3>1. /\ call[Runner].pc = "llm"
          /\ paid' = [paid EXCEPT ![call[Runner].key] = @ + 1]
      BY <2>2 DEF Answers
    <3>2. call[Runner].key # k
      BY <3>1 DEF SweepInv, RunnerAlone, Lone
    <3> QED BY <3>1, <3>2 DEF SweepInv, CacheInv, CacheTypes
  <2> QED BY <2>1, <2>2 DEF BenchNext, BenchStep, BenchCall, CallStep, Load, SkipGroup, SkipSeen, AskCell,
             RecordCell, WriteSummary, KillRunner, StartSweep, CacheCrash,
             Lookup, ProviderThrows, StoreOpen, StorePut, StoreRename, cacheVars, bought
<1> QED BY <1>1, SweepInvariant, PTL DEF BenchSpec, NeverBoughtAgain
=============================================================================
