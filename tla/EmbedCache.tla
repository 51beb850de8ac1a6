------------------------------ MODULE EmbedCache ------------------------------
(***************************************************************************)
(* The cache of embeddings on disk (src/eval/embed.ts): one file per text, *)
(* looked up by its existence, written in place, and a model pipeline that *)
(* is loaded once per process and whose promise is kept, settled or not.   *)
(*                                                                         *)
(* A vector is "whole", or "part" when it was read from a file that was    *)
(* still being written, or was cut short by a kill or a write that failed. *)
(* A call that fails leaves its file as it stands and the process alive.   *)
(***************************************************************************)
EXTENDS Integers, Sequences, FiniteSets, SequencesExt

CONSTANTS
    Embedders,      \* calls of embed()
    EmbTexts,       \* texts
    MaxEmbKills     \* bound: kills of the process

VARIABLES
    vec,            \* the files: "absent", "part" or "whole"
    pipe,           \* pipelinePromise: "unset", "loading", "ready" or "rejected"
    emb,            \* the calls
    embKills,       \* history
    computed,       \* history: how often a text was computed
    shared,         \* history: texts two calls, or one call twice, had in hand at a time
    cut,            \* history: texts whose file was cut short by a kill or a failed write
    unfiled         \* history: how often a text's vector was lost before its file was opened

embVars == <<vec, pipe, emb, embKills, computed, shared, cut, unfiled>>

NoEmb == [pc |-> "idle", texts |-> << >>, at |-> 1, misses |-> << >>, got |-> << >>]
EmbBusy(c) == emb[c].pc \in {"looking", "importing", "loading", "computing", "computed", "opened"}
EmbGo(c, r) == emb' = [emb EXCEPT ![c] = r]
\* The call is at this point with its next miss, the text t.
EmbAt(c, pc, t) == emb[c].pc = pc /\ emb[c].texts[Head(emb[c].misses)] = t

EmbInit ==
    /\ vec = [t \in EmbTexts |-> "absent"] /\ pipe = "unset"
    /\ emb = [c \in Embedders |-> NoEmb]
    /\ embKills = 0 /\ computed = [t \in EmbTexts |-> 0] /\ shared = {} /\ cut = {}
    /\ unfiled = [t \in EmbTexts |-> 0]

-----------------------------------------------------------------------------
(* Slips.                                                                  *)

\* A miss is put where the first text belongs.
EmbCompute_First(c) ==
    /\ emb[c].pc = "computing"
    /\ LET i == Head(emb[c].misses)
           t == emb[c].texts[i]
       IN  /\ EmbGo(c, [emb[c] EXCEPT !.pc = "computed", !.got[1] = <<t, "whole">>])
           /\ computed' = [computed EXCEPT ![t] = @ + 1]
    /\ UNCHANGED <<vec, pipe, embKills, shared, cut, unfiled>>

\* The file is not looked for.
EmbLook_Never(c) ==
    /\ emb[c].pc = "looking"
    /\ EmbGo(c, IF emb[c].at > Len(emb[c].texts)
                THEN [emb[c] EXCEPT !.pc = IF emb[c].misses = << >> THEN "done" ELSE "loading"]
                ELSE [emb[c] EXCEPT !.at = @ + 1, !.misses = Append(@, emb[c].at)])
    /\ UNCHANGED <<vec, pipe, embKills, computed, shared, cut, unfiled>>

-----------------------------------------------------------------------------
EmbBegin(c, texts) ==
    /\ emb[c].pc = "idle"
    /\ EmbGo(c, [NoEmb EXCEPT !.pc = "looking", !.texts = texts,
                              !.got = [i \in 1..Len(texts) |-> <<texts[i], "none">>]])
    /\ shared' = shared \cup {t \in EmbTexts : \E i, j \in DOMAIN texts : i # j /\ t = texts[i] /\ t = texts[j]}
                      \cup UNION {ToSet(texts) \cap ToSet(emb[d].texts) :
                                     d \in {e \in Embedders : EmbBusy(e)}}
    /\ UNCHANGED <<vec, pipe, embKills, computed, cut, unfiled>>

\* Pass 1: a file that exists is a hit whatever it holds.  A read that fails rejects
\* the call, and so does a length that is no multiple of four; any other length is
\* taken for a vector.
EmbLook(c) ==
    /\ emb[c].pc = "looking"
    /\ LET i == emb[c].at
           t == emb[c].texts[i]
       IN  IF i > Len(emb[c].texts)
           THEN EmbGo(c, [emb[c] EXCEPT !.pc = IF emb[c].misses = << >> THEN "done" ELSE "loading"])
           ELSE IF vec[t] = "absent"
           THEN EmbGo(c, [emb[c] EXCEPT !.at = i + 1, !.misses = Append(@, i)])
           ELSE \/ EmbGo(c, [emb[c] EXCEPT !.at = i + 1, !.got[i] = <<t, vec[t]>>])
                \/ EmbGo(c, [emb[c] EXCEPT !.pc = "failed"])
    /\ UNCHANGED <<vec, pipe, embKills, computed, shared, cut, unfiled>>

\* getPipeline: a call that finds no promise imports the library and then starts
\* the load, over the promise another call has set meanwhile.
PipeStart(c) ==
    /\ emb[c].pc = "loading" /\ pipe = "unset"
    /\ EmbGo(c, [emb[c] EXCEPT !.pc = "importing"])
    /\ UNCHANGED <<vec, pipe, embKills, computed, shared, cut, unfiled>>

PipeAssign(c) ==
    /\ emb[c].pc = "importing"
    /\ pipe' = "loading"
    /\ EmbGo(c, [emb[c] EXCEPT !.pc = "loading"])
    /\ UNCHANGED <<vec, embKills, computed, shared, cut, unfiled>>

\* The promise settles for the rest of the process: a failed load is not repeated.
PipeSettles ==
    /\ pipe = "loading"
    /\ pipe' \in {"ready", "rejected"}
    /\ UNCHANGED <<vec, emb, embKills, computed, shared, cut, unfiled>>

PipeGiven(c) ==
    /\ emb[c].pc = "loading" /\ pipe \in {"ready", "rejected"}
    /\ EmbGo(c, [emb[c] EXCEPT !.pc = IF pipe = "ready" THEN "computing" ELSE "failed"])
    /\ UNCHANGED <<vec, pipe, embKills, computed, shared, cut, unfiled>>

\* Pass 2: the next miss is computed ...
EmbCompute(c) ==
    /\ emb[c].pc = "computing"
    /\ LET i == Head(emb[c].misses)
           t == emb[c].texts[i]
       IN  /\ EmbGo(c, [emb[c] EXCEPT !.pc = "computed", !.got[i] = <<t, "whole">>])
           /\ computed' = [computed EXCEPT ![t] = @ + 1]
    /\ UNCHANGED <<vec, pipe, embKills, shared, cut, unfiled>>

\* ... its file is opened, which empties it, ...
EmbOpen(c) ==
    /\ emb[c].pc = "computed"
    /\ vec' = [vec EXCEPT ![emb[c].texts[Head(emb[c].misses)]] = "part"]
    /\ EmbGo(c, [emb[c] EXCEPT !.pc = "opened"])
    /\ UNCHANGED <<pipe, embKills, computed, shared, cut, unfiled>>

\* ... and filled.
EmbWritten(c) ==
    /\ emb[c].pc = "opened"
    /\ vec' = [vec EXCEPT ![emb[c].texts[Head(emb[c].misses)]] = "whole"]
    /\ EmbGo(c, [emb[c] EXCEPT !.misses = Tail(@),
                     !.pc = IF Len(emb[c].misses) = 1 THEN "done" ELSE "computing"])
    /\ UNCHANGED <<pipe, embKills, computed, shared, cut, unfiled>>

\* The library cannot be imported, the model throws, the directory or the file
\* cannot be made, or the write stops partway: the call rejects, its other misses
\* are left, and nothing takes back the file.
EmbFails(c) ==
    /\ emb[c].pc \in {"importing", "computing", "computed", "opened"}
    /\ EmbGo(c, [emb[c] EXCEPT !.pc = "failed"])
    /\ unfiled' = [t \in EmbTexts |-> unfiled[t] + IF EmbAt(c, "computed", t) THEN 1 ELSE 0]
    /\ cut' = cut \cup {t \in EmbTexts : EmbAt(c, "opened", t)}
    /\ UNCHANGED <<vec, pipe, embKills, computed, shared>>

EmbKill ==
    /\ embKills < MaxEmbKills /\ embKills' = embKills + 1
    /\ cut' = cut \cup {t \in EmbTexts : vec[t] = "part"}
    /\ unfiled' = [t \in EmbTexts |->
                     unfiled[t] + IF \E c \in Embedders : EmbAt(c, "computed", t) THEN 1 ELSE 0]
    /\ emb' = [c \in Embedders |-> NoEmb] /\ pipe' = "unset"
    /\ UNCHANGED <<vec, computed, shared>>

EmbNext ==
    \/ \E c \in Embedders : \E texts \in UNION {[1..n -> EmbTexts] : n \in 1..2} : EmbBegin(c, texts)
    \/ \E c \in Embedders : \/ EmbLook(c) \/ PipeStart(c) \/ PipeAssign(c) \/ PipeGiven(c)
                            \/ EmbCompute(c) \/ EmbOpen(c) \/ EmbWritten(c) \/ EmbFails(c)
    \/ PipeSettles \/ EmbKill

EmbSpec == EmbInit /\ [][EmbNext]_embVars

-----------------------------------------------------------------------------
\* A call that returns gives every text its own whole vector, in the order of the
\* texts, whichever calls failed before it, but for texts another call had in hand
\* at the time and texts whose file a kill or a failed write cut short (embed.ts:93):
\* those files are taken as they are, by every later call (embed.ts:71-76).
VectorsWhole ==
    \A c \in Embedders : emb[c].pc = "done" =>
        /\ Len(emb[c].got) = Len(emb[c].texts)
        /\ \A i \in 1..Len(emb[c].texts) :
              LET t == emb[c].texts[i] IN
              /\ emb[c].got[i][1] = t
              /\ emb[c].got[i][2] = "whole" \/ t \in shared \cup cut

\* A text that is not in hand twice is computed once, and once more for every time
\* a kill, or a directory or file that could not be made, came between its vector
\* and its file (embed.ts:86-93).  No other failure, no later call and no restart
\* computes it again: "only embed once per unique text ever" (embed.ts:52-53).
EmbeddedOnce == \A t \in EmbTexts \ shared : computed[t] <= 1 + unfiled[t]
=============================================================================
