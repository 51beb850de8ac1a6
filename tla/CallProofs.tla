----------------------------- MODULE CallProofs -----------------------------
(***************************************************************************)
(* What the calls of a retrieval guarantee, whatever their number and      *)
(* size: the embedding cache that several processes share, a chat that is  *)
(* retried and read line by line, the write-time passes whose chunks a     *)
(* pool takes, the settings that each stage reads, what the model calls of *)
(* ask() show and may cite, and the index the router reads.  The           *)
(* composition in KernelProofs states what they amount to together.        *)
(*                                                                         *)
(* The passes, the chat and the digests compute over sequences that the    *)
(* environment chooses, so what they compute is reasoned about with the    *)
(* induction of SelectionProofs.                                           *)
(***************************************************************************)
EXTENDS EmbedCache, OrganizePool, ChatClient, Settings, Citations, RouterIndex, SelectionProofs

-----------------------------------------------------------------------------
(* The cache of embeddings.  EmbInv is inductive.  It says of every call    *)
(* which of its places are filled and which are still to be computed, that  *)
(* a text two calls in flight have is a shared one, that a file that is     *)
(* half written is in somebody's hands or was at a kill or a failed write,  *)
(* and that a miss that is still to be computed has no file yet.            *)

EmbFiles == {"absent", "part", "whole"}
EmbPhases == {"idle", "looking", "importing", "loading", "computing", "computed", "opened",
              "done", "failed"}
EmbCall == [pc : EmbPhases, texts : Seq(EmbTexts), at : Nat, misses : Seq(Nat),
            got : Seq(EmbTexts \X {"none", "part", "whole"})]

EmbTypes ==
    /\ vec \in [EmbTexts -> EmbFiles] /\ pipe \in {"unset", "loading", "ready", "rejected"}
    /\ emb \in [Embedders -> EmbCall] /\ embKills \in Nat /\ computed \in [EmbTexts -> Nat]
    /\ shared \subseteq EmbTexts /\ cut \subseteq EmbTexts /\ unfiled \in [EmbTexts -> Nat]

\* The places of a call that are still to be computed, and those that are filled.
Missed(r) == {r.misses[k] : k \in 1..Len(r.misses)}
Filled(r, i, excused) == r.got[i][2] = "whole" \/ r.texts[i] \in excused

Holding(r) == r.pc \in {"computed", "opened"}
Held(r) == r.texts[r.misses[1]]

CallWhole(r, excused) ==
    /\ Len(r.got) = Len(r.texts)
    /\ \A i \in 1..Len(r.texts) : r.got[i][1] = r.texts[i]
    /\ Missed(r) \subseteq 1..Len(r.texts)
    /\ \A j, k \in 1..Len(r.misses) : j < k => r.misses[j] < r.misses[k]
    /\ r.pc = "looking" => r.at \in 1..(Len(r.texts) + 1) /\ Missed(r) \subseteq 1..(r.at - 1)
    /\ r.pc \in {"importing", "loading", "computing", "computed", "opened"} => r.misses # << >>
    /\ r.pc = "done" => r.misses = << >>
    /\ r.pc # "failed" => \A i \in 1..Len(r.texts) :
                             (r.pc = "looking" => i < r.at) => i \in Missed(r) \/ Filled(r, i, excused)
    /\ Holding(r) => r.got[r.misses[1]][2] = "whole"

CallsWhole == \A c \in Embedders : CallWhole(emb[c], shared \cup cut)

SharedNoted ==
    /\ \A c, d \in Embedders : c # d /\ EmbBusy(c) /\ EmbBusy(d) =>
          \A i \in 1..Len(emb[c].texts), j \in 1..Len(emb[d].texts) :
             emb[c].texts[i] = emb[d].texts[j] => emb[c].texts[i] \in shared
    /\ \A c \in Embedders : EmbBusy(c) =>
          \A i, j \in 1..Len(emb[c].texts) :
             i # j /\ emb[c].texts[i] = emb[c].texts[j] => emb[c].texts[i] \in shared

PartsHeld ==
    \A t \in EmbTexts : vec[t] = "part" =>
        t \in cut \/ \E c \in Embedders : emb[c].pc = "opened" /\ Held(emb[c]) = t

\* The k-th miss of a call is still to be computed.
Pending(c, k) == EmbBusy(c) /\ k \in 1..Len(emb[c].misses) /\ (Holding(emb[c]) => k # 1)

CountsHeld ==
    \A t \in EmbTexts \ shared :
        /\ computed[t] <= 1 + unfiled[t]
        /\ (vec[t] = "absent" /\ ~\E c \in Embedders : emb[c].pc = "computed" /\ Held(emb[c]) = t)
              => computed[t] <= unfiled[t]
        /\ \A c \in Embedders : \A k \in 1..Len(emb[c].misses) :
              Pending(c, k) /\ emb[c].texts[emb[c].misses[k]] = t => vec[t] = "absent"

EmbInv == EmbTypes /\ CallsWhole /\ SharedNoted /\ PartsHeld /\ CountsHeld

LEMMA NoEmbWhole ==
  /\ NoEmb \in EmbCall /\ NoEmb.pc = "idle"
  /\ \A excused : CallWhole(NoEmb, excused)
<1>1. /\ NoEmb.pc = "idle" /\ NoEmb.texts = << >> /\ NoEmb.misses = << >> /\ NoEmb.got = << >> /\ NoEmb.at = 1
      /\ NoEmb \in EmbCall
  <2>1. << >> \in Seq(EmbTexts) /\ << >> \in Seq(Nat) /\ << >> \in Seq(EmbTexts \X {"none", "part", "whole"})
    OBVIOUS
  <2> QED BY <2>1 DEF NoEmb, EmbCall, EmbPhases
<1>2. Missed(NoEmb) = {}
  BY <1>1 DEF Missed
<1> QED BY <1>1, <1>2 DEF CallWhole, Holding

\* One call moves on: what is said of the others stays.
LEMMA OneCall ==
  ASSUME EmbInv, NEW c \in Embedders, NEW r \in EmbCall, EmbGo(c, r),
         CallWhole(r, shared \cup cut), UNCHANGED <<shared, cut>>,
         r.texts = emb[c].texts, EmbBusy(c)
  PROVE  /\ emb' \in [Embedders -> EmbCall] /\ emb'[c] = r
         /\ \A d \in Embedders : d # c => emb'[d] = emb[d]
         /\ CallsWhole' /\ SharedNoted'
<1>1. /\ emb' \in [Embedders -> EmbCall] /\ emb'[c] = r
      /\ \A d \in Embedders : d # c => emb'[d] = emb[d]
  BY DEF EmbInv, EmbTypes, EmbGo
<1>2. CallsWhole'
  BY <1>1 DEF EmbInv, CallsWhole
<1>3. \A d \in Embedders : emb'[d].texts = emb[d].texts /\ (EmbBusy(d)' => EmbBusy(d))
  BY <1>1 DEF EmbBusy
<1>4. SharedNoted'
  BY <1>3 DEF EmbInv, SharedNoted
<1> QED BY <1>1, <1>2, <1>4

\* Two calls in flight have no text in common that is not shared, nor has one call twice.
LEMMA OneHolder ==
  ASSUME EmbInv, NEW c \in Embedders, NEW d \in Embedders, EmbBusy(c), EmbBusy(d),
         NEW i \in 1..Len(emb[c].texts), NEW j \in 1..Len(emb[d].texts),
         emb[c].texts[i] = emb[d].texts[j], emb[c].texts[i] \notin shared
  PROVE  c = d /\ i = j
BY DEF EmbInv, SharedNoted

LEMMA CallPlaces ==
  ASSUME NEW r \in EmbCall, NEW s, CallWhole(r, s)
  PROVE  /\ \A k \in 1..Len(r.misses) : r.misses[k] \in 1..Len(r.texts) /\ r.texts[r.misses[k]] \in EmbTexts
         /\ r.pc \in {"computing", "computed", "opened"} =>
              /\ Len(r.misses) > 0 /\ 1 \in 1..Len(r.misses) /\ Head(r.misses) = r.misses[1]
              /\ r.misses[1] \in 1..Len(r.texts) /\ Held(r) \in EmbTexts
<1>1. \A k \in 1..Len(r.misses) : r.misses[k] \in 1..Len(r.texts)
  BY DEF CallWhole, Missed
<1>2. r.texts \in Seq(EmbTexts) /\ r.misses \in Seq(Nat)
  BY DEF EmbCall
<1>3. \A i \in 1..Len(r.texts) : r.texts[i] \in EmbTexts
  BY <1>2
<1>4. ASSUME r.pc \in {"computing", "computed", "opened"}
      PROVE  Len(r.misses) > 0 /\ 1 \in 1..Len(r.misses) /\ Head(r.misses) = r.misses[1]
  <2>1. r.misses # << >>
    BY <1>4 DEF CallWhole
  <2> QED BY <1>2, <2>1
<1> QED BY <1>1, <1>3, <1>4 DEF Held

LEMMA EmbStarts == ASSUME EmbInit PROVE EmbInv
<1>1. \A c \in Embedders : emb[c] = NoEmb
  BY DEF EmbInit
<1>2. \A c \in Embedders : ~EmbBusy(c) /\ emb[c].misses = << >>
  BY <1>1 DEF EmbBusy, NoEmb
<1>3. EmbTypes
  BY NoEmbWhole DEF EmbInit, EmbTypes, EmbFiles
<1>4. CallsWhole
  BY <1>1, NoEmbWhole DEF CallsWhole
<1>5. SharedNoted
  BY <1>2 DEF SharedNoted
<1>6. PartsHeld
  BY DEF EmbInit, PartsHeld
<1>7. CountsHeld
  BY <1>2, <1>3 DEF EmbInit, CountsHeld
<1> QED BY <1>3, <1>4, <1>5, <1>6, <1>7 DEF EmbInv

LEMMA EmbBegins ==
  ASSUME EmbInv, NEW c \in Embedders, NEW texts \in UNION {[1..n -> EmbTexts] : n \in 1..2},
         EmbBegin(c, texts)
  PROVE  EmbInv'
<1> DEFINE r == [NoEmb EXCEPT !.pc = "looking", !.texts = texts,
                              !.got = [i \in 1..Len(texts) |-> <<texts[i], "none">>]]
<1>1. texts \in Seq(EmbTexts)
  <2>1. PICK n \in 1..2 : texts \in [1..n -> EmbTexts]
    OBVIOUS
  <2> QED BY <2>1
<1>2. /\ r \in EmbCall /\ r.pc = "looking" /\ r.texts = texts /\ r.at = 1 /\ r.misses = << >>
      /\ Len(r.got) = Len(texts) /\ \A i \in 1..Len(texts) : r.got[i] = <<texts[i], "none">>
  <2>1. NoEmb.at = 1 /\ NoEmb.misses = << >> /\ NoEmb \in EmbCall
    BY NoEmbWhole DEF NoEmb
  <2>2. \A i \in 1..Len(texts) : <<texts[i], "none">> \in EmbTexts \X {"none", "part", "whole"}
    BY <1>1
  <2>3. [i \in 1..Len(texts) |-> <<texts[i], "none">>] \in Seq(EmbTexts \X {"none", "part", "whole"})
    BY <1>1, <2>2
  <2>4. \A g : LET x == [NoEmb EXCEPT !.pc = "looking", !.texts = texts, !.got = g]
              IN  /\ g \in Seq(EmbTexts \X {"none", "part", "whole"}) => x \in EmbCall
                  /\ x.pc = "looking" /\ x.texts = texts /\ x.at = 1 /\ x.misses = << >> /\ x.got = g
    BY <1>1, <2>1 DEF EmbCall, EmbPhases
  <2>5. Len([k \in 1..Len(texts) |-> <<texts[k], "none">>]) = Len(texts)
    BY <1>1
  <2> QED BY <2>3, <2>4, <2>5, ZenonT(60)
<1> HIDE DEF r
<1>3. /\ emb' = [emb EXCEPT ![c] = r] /\ emb[c].pc = "idle"
      /\ shared' = shared \cup {t \in EmbTexts : \E i, j \in DOMAIN texts : i # j /\ t = texts[i] /\ t = texts[j]}
                      \cup UNION {ToSet(texts) \cap ToSet(emb[d].texts) : d \in {e \in Embedders : EmbBusy(e)}}
      /\ UNCHANGED <<vec, pipe, embKills, computed, cut, unfiled>>
  BY DEF EmbBegin, EmbGo, r
<1>4. /\ emb' \in [Embedders -> EmbCall] /\ emb'[c] = r
      /\ \A d \in Embedders : d # c => emb'[d] = emb[d]
  BY <1>2, <1>3 DEF EmbInv, EmbTypes
<1>5. shared \subseteq shared' /\ shared' \subseteq EmbTexts
  <2>1. shared \subseteq EmbTexts /\ ToSet(texts) \subseteq EmbTexts
    BY <1>1 DEF EmbInv, EmbTypes, ToSet
  <2> QED BY <1>3, <2>1
<1>6. EmbTypes'
  BY <1>3, <1>4, <1>5 DEF EmbInv, EmbTypes
<1>7. CallsWhole'
  <2>1. CallWhole(r, (shared \cup cut)')
    <3>1. Missed(r) = {}
      BY <1>2 DEF Missed
    <3>2. ~Holding(r)
      BY <1>2 DEF Holding
    <3> QED BY <1>1, <1>2, <3>1, <3>2 DEF CallWhole
  <2>2. ASSUME NEW d \in Embedders PROVE CallWhole(emb[d], (shared \cup cut)')
    <3>1. CallWhole(emb[d], shared \cup cut)
      BY DEF EmbInv, CallsWhole
    <3>2. \A i : Filled(emb[d], i, shared \cup cut) => Filled(emb[d], i, (shared \cup cut)')
      BY <1>3, <1>5 DEF Filled
    <3> QED BY <3>1, <3>2 DEF CallWhole
  <2> QED BY <1>4, <2>1, <2>2 DEF CallsWhole
<1>8. SharedNoted'
  <2>1. \A i, j \in 1..Len(texts) : i # j /\ texts[i] = texts[j] => texts[i] \in shared'
    <3>1. \A i \in 1..Len(texts) : i \in DOMAIN texts /\ texts[i] \in EmbTexts
      BY <1>1
    <3> QED BY <1>3, <3>1
  <2>2. ASSUME NEW d \in Embedders, d # c, EmbBusy(d), NEW i \in 1..Len(texts), NEW j \in 1..Len(emb[d].texts),
               texts[i] = emb[d].texts[j]
        PROVE  texts[i] \in shared'
    <3>1. emb[d].texts \in Seq(EmbTexts)
      BY DEF EmbInv, EmbTypes, EmbCall
    <3>2. texts[i] \in ToSet(texts) /\ texts[i] \in ToSet(emb[d].texts)
      BY <1>1, <2>2, <3>1 DEF ToSet
    <3> QED BY <1>3, <2>2, <3>2
  <2>3. \A d \in Embedders : d # c => (EmbBusy(d)' <=> EmbBusy(d)) /\ emb'[d].texts = emb[d].texts
    BY <1>4 DEF EmbBusy
  <2>4. emb'[c].texts = texts
    BY <1>2, <1>4
  <2>5. ASSUME NEW d \in Embedders, NEW e \in Embedders, d # e, EmbBusy(d)', EmbBusy(e)',
               NEW i \in 1..Len(emb'[d].texts), NEW j \in 1..Len(emb'[e].texts),
               emb'[d].texts[i] = emb'[e].texts[j]
        PROVE  emb'[d].texts[i] \in shared'
    <3>1. CASE d = c
      BY <2>2, <2>3, <2>4, <2>5, <3>1
    <3>2. CASE e = c
      BY <2>2, <2>3, <2>4, <2>5, <3>2
    <3>3. CASE d # c /\ e # c
      BY <1>5, <2>3, <2>5, <3>3 DEF EmbInv, SharedNoted
    <3> QED BY <3>1, <3>2, <3>3
  <2>6. ASSUME NEW d \in Embedders, EmbBusy(d)', NEW i \in 1..Len(emb'[d].texts), NEW j \in 1..Len(emb'[d].texts),
               i # j, emb'[d].texts[i] = emb'[d].texts[j]
        PROVE  emb'[d].texts[i] \in shared'
    <3>1. CASE d = c
      BY <2>1, <2>4, <2>6, <3>1
    <3>2. CASE d # c
      BY <1>5, <2>3, <2>6, <3>2 DEF EmbInv, SharedNoted
    <3> QED BY <3>1, <3>2
  <2> QED BY <2>5, <2>6 DEF SharedNoted
<1>9. PartsHeld'
  <2>1. \A d \in Embedders : emb[d].pc = "opened" => emb'[d] = emb[d]
    BY <1>3, <1>4
  <2> QED BY <1>3, <2>1 DEF EmbInv, PartsHeld
<1>10. CountsHeld'
  <2>1. \A d \in Embedders : emb[d].pc = "computed" => emb'[d] = emb[d]
    BY <1>3, <1>4
  <2>2. \A d \in Embedders, k \in Nat :
           k \in 1..Len(emb'[d].misses) => emb'[d] = emb[d] /\ (Pending(d, k)' => Pending(d, k))
    BY <1>2, <1>4 DEF Pending, EmbBusy
  <2>3. \A d \in Embedders : \A k \in 1..Len(emb'[d].misses) : k \in Nat
    BY <1>4 DEF EmbCall
  <2> QED BY <1>3, <1>5, <2>1, <2>2, <2>3 DEF EmbInv, CountsHeld
<1> QED BY <1>6, <1>7, <1>8, <1>9, <1>10 DEF EmbInv

\* A call looks for its next text: what another left half written it shares, or a kill cut.
LEMMA EmbLooks ==
  ASSUME EmbInv, NEW c \in Embedders, EmbLook(c) PROVE EmbInv'
<1> DEFINE q == emb[c]
           i == q.at
           t == q.texts[i]
           s == shared \cup cut
<1>1. /\ q \in EmbCall /\ CallWhole(q, s) /\ q.pc = "looking" /\ EmbBusy(c) /\ i \in 1..(Len(q.texts) + 1)
      /\ q.texts \in Seq(EmbTexts) /\ q.misses \in Seq(Nat) /\ q.got \in Seq(EmbTexts \X {"none", "part", "whole"})
      /\ Len(q.got) = Len(q.texts) /\ Missed(q) \subseteq 1..(i - 1)
      /\ UNCHANGED <<vec, pipe, embKills, computed, shared, cut, unfiled>>
  <2>1. q \in EmbCall /\ CallWhole(q, s) /\ q.pc = "looking" /\ UNCHANGED <<vec, pipe, embKills, computed, shared, cut, unfiled>>
    BY DEF EmbInv, EmbTypes, CallsWhole, EmbLook
  <2> QED BY <2>1 DEF CallWhole, EmbBusy, EmbCall
<1> USE <1>1
<1>2. ASSUME NEW r \in EmbCall, EmbGo(c, r), CallWhole(r, s), r.texts = q.texts, ~Holding(r),
             \A k \in 1..Len(r.misses) : \/ k \in 1..Len(q.misses) /\ r.misses[k] = q.misses[k]
                                         \/ vec[r.texts[r.misses[k]]] = "absent"
      PROVE  EmbInv'
  <2>1. /\ emb' \in [Embedders -> EmbCall] /\ emb'[c] = r
        /\ \A d \in Embedders : d # c => emb'[d] = emb[d]
        /\ CallsWhole' /\ SharedNoted'
    BY <1>2, OneCall
  <2>2. EmbTypes'
    BY <2>1 DEF EmbInv, EmbTypes
  <2>3. PartsHeld'
    <3>1. \A d \in Embedders : emb[d].pc = "opened" => emb'[d] = emb[d]
      BY <2>1
    <3> QED BY <3>1 DEF EmbInv, PartsHeld
  <2>4. CountsHeld'
    <3>1. \A d \in Embedders : emb[d].pc = "computed" => emb'[d] = emb[d]
      BY <2>1
    <3>2. ASSUME NEW d \in Embedders, NEW k \in 1..Len(emb'[d].misses), Pending(d, k)',
                 NEW u \in EmbTexts \ shared', emb'[d].texts[emb'[d].misses[k]] = u
          PROVE  vec'[u] = "absent"
      <4>1. CASE d # c
        <5>1. emb'[d] = emb[d] /\ Pending(d, k)
          BY <2>1, <3>2, <4>1 DEF Pending, EmbBusy
        <5> QED BY <3>2, <5>1 DEF EmbInv, CountsHeld
      <4>2. CASE d = c
        <5>1. CASE vec[r.texts[r.misses[k]]] = "absent"
          BY <2>1, <3>2, <4>2, <5>1
        <5>2. CASE k \in 1..Len(q.misses) /\ r.misses[k] = q.misses[k]
          <6>1. Pending(c, k)
            BY <5>2 DEF Pending, Holding
          <6> QED BY <1>2, <2>1, <3>2, <4>2, <5>2, <6>1 DEF EmbInv, CountsHeld
        <5> QED BY <1>2, <2>1, <3>2, <4>2, <5>1, <5>2
      <4> QED BY <4>1, <4>2
    <3>3. ASSUME NEW u \in EmbTexts \ shared
          PROVE  /\ computed[u] <= 1 + unfiled[u]
                 /\ (vec[u] = "absent" /\ ~\E d \in Embedders : emb'[d].pc = "computed" /\ Held(emb'[d]) = u)
                       => computed[u] <= unfiled[u]
      BY <3>1 DEF EmbInv, CountsHeld
    <3> QED BY <3>2, <3>3 DEF CountsHeld
  <2> QED BY <2>1, <2>2, <2>3, <2>4 DEF EmbInv
<1>3. CASE i > Len(q.texts)
  <2> DEFINE r == [q EXCEPT !.pc = IF q.misses = << >> THEN "done" ELSE "loading"]
  <2>1. EmbGo(c, r)
    BY <1>3 DEF EmbLook
  <2>2. /\ r \in EmbCall /\ r.pc \in {"done", "loading"} /\ (r.pc = "done" <=> q.misses = << >>)
        /\ r.texts = q.texts /\ r.misses = q.misses /\ r.got = q.got
    BY DEF EmbCall, EmbPhases
  <2> HIDE DEF r
  <2>3. CallWhole(r, s)
    <3>1. Missed(r) = Missed(q) /\ \A j : Filled(r, j, s) = Filled(q, j, s)
      BY <2>2 DEF Missed, Filled
    <3>2. i = Len(q.texts) + 1
      <4>1. i \in 1..(Len(q.texts) + 1) /\ i > Len(q.texts) /\ Len(q.texts) \in Nat
        BY <1>3
      <4> QED BY ONLY <4>1
    <3>3. \A j \in 1..Len(r.texts) : j \in Missed(r) \/ Filled(r, j, s)
      <4>1. \A j \in 1..Len(r.texts) : j < i
        BY <2>2, <3>2
      <4> QED BY <2>2, <3>1, <4>1 DEF CallWhole
    <3>4. ~Holding(r)
      BY <2>2 DEF Holding
    <3> QED BY <2>2, <3>1, <3>3, <3>4 DEF CallWhole
  <2>4. ~Holding(r)
    BY <2>2 DEF Holding
  <2> QED BY <1>2, <2>1, <2>2, <2>3, <2>4
<1>4. CASE i \in 1..Len(q.texts) /\ vec[t] = "absent"
  <2> DEFINE r == [q EXCEPT !.at = i + 1, !.misses = Append(q.misses, i)]
             n == Len(q.misses)
  <2>1. EmbGo(c, r)
    BY <1>4 DEF EmbLook
  <2>2. /\ r \in EmbCall /\ r.pc = "looking" /\ r.texts = q.texts /\ r.got = q.got
        /\ r.at = i + 1 /\ r.misses = Append(q.misses, i)
    <3>1. Append(q.misses, i) \in Seq(Nat) /\ i + 1 \in Nat
      BY <1>4
    <3>2. \A m, a : LET x == [q EXCEPT !.at = a, !.misses = m]
                    IN  /\ a \in Nat /\ m \in Seq(Nat) => x \in EmbCall
                        /\ x.pc = q.pc /\ x.texts = q.texts /\ x.got = q.got /\ x.at = a /\ x.misses = m
      BY DEF EmbCall
    <3> QED BY <3>1, <3>2
  <2> HIDE DEF r
  <2>3. /\ n \in Nat /\ Len(r.misses) = n + 1 /\ r.misses[n + 1] = i
        /\ \A k \in 1..n : r.misses[k] = q.misses[k]
    BY <2>2
  <2>4. CallWhole(r, s)
    <3>1. Missed(r) = Missed(q) \cup {i}
      <4>1. 1..(n + 1) = (1..n) \cup {n + 1}
        BY <2>3
      <4> QED BY <2>3, <4>1, ZenonT(60) DEF Missed
    <3>2. \A j : Filled(r, j, s) = Filled(q, j, s)
      BY <2>2 DEF Filled
    <3>3. ~Holding(r)
      BY <2>2 DEF Holding
    <3>4. ASSUME NEW j \in 1..(n + 1), NEW k \in 1..(n + 1), j < k PROVE r.misses[j] < r.misses[k]
      <4>1. j \in 1..n
        BY <2>3, <3>4
      <4>2. CASE k \in 1..n
        BY <2>3, <3>4, <4>1, <4>2 DEF CallWhole
      <4>3. CASE k = n + 1
        <5>1. r.misses[j] \in 1..(i - 1) /\ r.misses[k] = i
          <6>1. r.misses[j] \in Missed(q)
            <7>1. r.misses[j] = q.misses[j] /\ j \in 1..Len(q.misses)
              BY <2>3, <4>1
            <7> QED BY ONLY <7>1 DEF Missed
          <6> QED BY <2>3, <4>3, <6>1
        <5>2. i \in Nat
          BY <1>4
        <5> QED BY ONLY <5>1, <5>2
      <4>4. n \in Nat
        BY <2>3
      <4>5. k \in 1..n \/ k = n + 1
        BY ONLY <4>4, k \in 1..(n + 1)
      <4> QED BY ONLY <4>2, <4>3, <4>5
    <3>5. Missed(r) \subseteq 1..Len(r.texts) /\ Missed(r) \subseteq 1..(r.at - 1) /\ r.at \in 1..(Len(r.texts) + 1)
      <4>1. /\ r.texts = q.texts /\ r.at = i + 1 /\ i \in 1..Len(q.texts) /\ Missed(q) \subseteq 1..(i - 1)
            /\ Len(q.texts) \in Nat
        BY <1>4, <2>2
      <4>2. ASSUME NEW a \in Nat, NEW m \in Nat, a \in 1..m, NEW S, S \subseteq 1..(a - 1)
            PROVE  S \cup {a} \subseteq 1..m /\ S \cup {a} \subseteq 1..((a + 1) - 1) /\ a + 1 \in 1..(m + 1)
        BY ONLY <4>2
      <4>3. i \in Nat
        BY <4>1
      <4> QED BY ONLY <3>1, <4>1, <4>2, <4>3
    <3>6. \A j \in 1..Len(r.texts) : j < r.at => j \in Missed(r) \/ Filled(r, j, s)
      <4>1. \A j \in 1..Len(r.texts) : j < r.at => j < i \/ j = i
        BY <2>2
      <4> QED BY <2>2, <3>1, <3>2, <4>1 DEF CallWhole
    <3>7. Len(r.got) = Len(r.texts) /\ \A j \in 1..Len(r.texts) : r.got[j][1] = r.texts[j]
      BY <2>2 DEF CallWhole
    <3> QED BY <2>2, <2>3, <3>3, <3>4, <3>5, <3>6, <3>7 DEF CallWhole
  <2>5. \A k \in 1..Len(r.misses) : \/ k \in 1..n /\ r.misses[k] = q.misses[k]
                                    \/ vec[r.texts[r.misses[k]]] = "absent"
    <3>1. \A k \in 1..(n + 1) : k \in 1..n \/ k = n + 1
      BY <2>3
    <3> QED BY <1>4, <2>2, <2>3, <3>1
  <2>6. ~Holding(r)
    BY <2>2 DEF Holding
  <2> QED BY <1>2, <2>1, <2>2, <2>4, <2>5, <2>6
<1>5. CASE i \in 1..Len(q.texts) /\ vec[t] # "absent"
  <2>1. \/ EmbGo(c, [q EXCEPT !.at = i + 1, !.got[i] = <<t, vec[t]>>])
        \/ EmbGo(c, [q EXCEPT !.pc = "failed"])
    BY <1>5 DEF EmbLook
  <2>2. t \in EmbTexts /\ vec[t] \in {"part", "whole"} /\ s \subseteq EmbTexts
    <3>1. t \in EmbTexts
      BY <1>5
    <3>2. vec \in [EmbTexts -> EmbFiles] /\ s \subseteq EmbTexts
      BY DEF EmbInv, EmbTypes
    <3> QED BY <1>5, <3>1, <3>2 DEF EmbFiles
  <2>3. vec[t] = "part" => t \in s
    <3> SUFFICES ASSUME vec[t] = "part", t \notin cut, t \notin shared PROVE FALSE
      OBVIOUS
    <3>1. PICK d \in Embedders : emb[d].pc = "opened" /\ Held(emb[d]) = t
      BY <2>2 DEF EmbInv, PartsHeld
    <3>2. EmbBusy(d) /\ emb[d] \in EmbCall /\ CallWhole(emb[d], s)
      BY <3>1 DEF EmbInv, EmbBusy, EmbTypes, CallsWhole
    <3>3. emb[d].misses[1] \in 1..Len(emb[d].texts)
      BY <3>1, <3>2, CallPlaces
    <3>4. c = d
      BY <1>5, <3>1, <3>2, <3>3, OneHolder DEF Held
    <3> QED BY <3>1, <3>4
  <2>4. CASE EmbGo(c, [q EXCEPT !.at = i + 1, !.got[i] = <<t, vec[t]>>])
    <3> DEFINE r == [q EXCEPT !.at = i + 1, !.got[i] = <<t, vec[t]>>]
    <3>1. <<t, vec[t]>> \in EmbTexts \X {"none", "part", "whole"}
      BY <2>2
    <3>2. /\ r.pc = "looking" /\ r.texts = q.texts /\ r.misses = q.misses /\ r.at = i + 1
          /\ r.got = [q.got EXCEPT ![i] = <<t, vec[t]>>] /\ r \in EmbCall
      <4>1. [q.got EXCEPT ![i] = <<t, vec[t]>>] \in Seq(EmbTexts \X {"none", "part", "whole"})
        BY <1>5, <3>1, ExceptSeq
      <4>2. \A g, a : LET x == [q EXCEPT !.at = a, !.got = g]
                      IN  /\ a \in Nat /\ g \in Seq(EmbTexts \X {"none", "part", "whole"}) => x \in EmbCall
                          /\ x.pc = q.pc /\ x.texts = q.texts /\ x.misses = q.misses /\ x.at = a /\ x.got = g
        BY DEF EmbCall
      <4>3. r = [q EXCEPT !.at = i + 1, !.got = [q.got EXCEPT ![i] = <<t, vec[t]>>]] /\ i + 1 \in Nat
        BY <1>5
      <4> HIDE DEF r
      <4> QED BY <4>1, <4>2, <4>3
    <3> HIDE DEF r
    <3>3. /\ Len(r.got) = Len(r.texts) /\ r.got[i] = <<t, vec[t]>>
          /\ \A j \in 1..Len(r.texts) : j # i => r.got[j] = q.got[j]
      BY <1>5, <3>1, <3>2, ExceptSeq, SMTT(60)
    <3>4. CallWhole(r, s)
      <4>1. Missed(r) = Missed(q)
        BY <3>2, SMTT(60) DEF Missed
      <4>2. Filled(r, i, s) /\ \A j \in 1..Len(r.texts) : j # i => Filled(r, j, s) = Filled(q, j, s)
        BY <2>2, <2>3, <3>2, <3>3 DEF Filled
      <4>3. ~Holding(r)
        BY <3>2 DEF Holding
      <4>4. \A j \in 1..Len(r.texts) : r.got[j][1] = r.texts[j]
        BY <3>2, <3>3 DEF CallWhole
      <4>5. \A j \in 1..Len(r.texts) : j < r.at => j \in Missed(r) \/ Filled(r, j, s)
        <5>1. \A j \in 1..Len(r.texts) : j < r.at => j < i \/ j = i
          BY <3>2
        <5> QED BY <3>2, <4>1, <4>2, <5>1 DEF CallWhole
      <4>6. Missed(r) \subseteq 1..Len(r.texts) /\ Missed(r) \subseteq 1..(r.at - 1) /\ r.at \in 1..(Len(r.texts) + 1)
        BY <1>5, <3>2, <4>1
      <4> QED BY <3>2, <3>3, <4>3, <4>4, <4>5, <4>6 DEF CallWhole
    <3>5. ~Holding(r)
      BY <3>2 DEF Holding
    <3>6. EmbGo(c, r)
      BY <2>4 DEF r
    <3> QED BY <1>2, <3>2, <3>4, <3>5, <3>6
  <2>5. CASE EmbGo(c, [q EXCEPT !.pc = "failed"])
    <3> DEFINE r == [q EXCEPT !.pc = "failed"]
    <3>1. r \in EmbCall /\ r.pc = "failed" /\ r.texts = q.texts /\ r.misses = q.misses /\ r.got = q.got
      BY DEF EmbCall, EmbPhases
    <3>2. EmbGo(c, r)
      BY <2>5
    <3> HIDE DEF r
    <3>3. Missed(r) = Missed(q) /\ ~Holding(r)
      BY <3>1 DEF Missed, Holding
    <3>4. CallWhole(r, s)
      BY <3>1, <3>3 DEF CallWhole
    <3> QED BY <1>2, <3>1, <3>2, <3>3, <3>4
  <2> QED BY <2>1, <2>4, <2>5
<1> QED BY <1>3, <1>4, <1>5

\* A call moves between two phases that hold no vector: nothing is known anew.
LEMMA EmbTurns ==
  ASSUME EmbInv, NEW c \in Embedders, EmbBusy(c), NEW pc \in {"importing", "loading", "computing", "failed"},
         emb[c].pc \in {"loading", "importing"}, EmbGo(c, [emb[c] EXCEPT !.pc = pc]),
         pipe' \in {"unset", "loading", "ready", "rejected"},
         UNCHANGED <<vec, embKills, computed, shared, cut, unfiled>>
  PROVE  EmbInv'
<1> DEFINE q == emb[c]
           r == [q EXCEPT !.pc = pc]
           s == shared \cup cut
<1>1. q \in EmbCall /\ CallWhole(q, s)
  BY DEF EmbInv, EmbTypes, CallsWhole
<1>2. /\ r \in EmbCall /\ r.pc = pc /\ r.texts = q.texts /\ r.misses = q.misses /\ r.got = q.got
      /\ EmbGo(c, r)
  BY <1>1 DEF EmbCall, EmbPhases
<1> HIDE DEF r
<1>3. CallWhole(r, s)
  <2>1. Missed(r) = Missed(q) /\ \A j : Filled(r, j, s) = Filled(q, j, s)
    BY <1>2 DEF Missed, Filled
  <2>2. ~Holding(r)
    BY <1>2 DEF Holding
  <2> QED BY <1>1, <1>2, <2>1, <2>2 DEF CallWhole
<1>4. /\ emb' \in [Embedders -> EmbCall] /\ emb'[c] = r
      /\ \A d \in Embedders : d # c => emb'[d] = emb[d]
      /\ CallsWhole' /\ SharedNoted'
  BY <1>2, <1>3, OneCall
<1>5. EmbTypes'
  BY <1>4 DEF EmbInv, EmbTypes
<1>6. \A d \in Embedders : emb[d].pc \in {"opened", "computed"} => emb'[d] = emb[d]
  BY <1>4
<1>7. PartsHeld'
  BY <1>6 DEF EmbInv, PartsHeld
<1>8. CountsHeld'
  <2>1. \A d \in Embedders : emb'[d].misses = emb[d].misses /\ emb'[d].texts = emb[d].texts
                             /\ \A k : Pending(d, k)' => Pending(d, k)
    BY <1>2, <1>4 DEF Pending, EmbBusy, Holding
  <2> QED BY <1>6, <2>1 DEF EmbInv, CountsHeld
<1> QED BY <1>4, <1>5, <1>7, <1>8 DEF EmbInv

LEMMA EmbPipes ==
  ASSUME EmbInv, PipeSettles \/ \E c \in Embedders : PipeStart(c) \/ PipeAssign(c) \/ PipeGiven(c)
  PROVE  EmbInv'
<1>1. CASE PipeSettles
  <2>1. /\ UNCHANGED <<vec, emb, embKills, computed, shared, cut, unfiled>>
        /\ pipe' \in {"ready", "rejected"}
    BY <1>1 DEF PipeSettles
  <2>2. EmbTypes' /\ CallsWhole' /\ PartsHeld'
    BY <2>1 DEF EmbInv, EmbTypes, CallsWhole, PartsHeld
  <2>3. SharedNoted' /\ CountsHeld'
    BY <2>1 DEF EmbInv, SharedNoted, CountsHeld, EmbBusy, Pending
  <2> QED BY <2>2, <2>3 DEF EmbInv
<1>2. ASSUME NEW c \in Embedders, PipeStart(c) \/ PipeAssign(c) \/ PipeGiven(c) PROVE EmbInv'
  <2>1. emb[c].pc \in {"loading", "importing"} /\ EmbBusy(c) /\ pipe \in {"unset", "loading", "ready", "rejected"}
    BY <1>2 DEF PipeStart, PipeAssign, PipeGiven, EmbBusy, EmbInv, EmbTypes
  <2>2. CASE PipeStart(c)
    BY <2>1, <2>2, EmbTurns DEF PipeStart
  <2>3. CASE PipeAssign(c)
    BY <2>1, <2>3, EmbTurns DEF PipeAssign
  <2>4. CASE PipeGiven(c)
    <3>1. CASE pipe = "ready"
      BY <2>1, <2>4, <3>1, EmbTurns DEF PipeGiven
    <3>2. CASE pipe = "rejected"
      BY <2>1, <2>4, <3>2, EmbTurns DEF PipeGiven
    <3> QED BY <2>4, <3>1, <3>2 DEF PipeGiven
  <2> QED BY <1>2, <2>2, <2>3, <2>4
<1> QED BY <1>1, <1>2

\* A vector is computed for a text nobody has written and nobody has in hand.
LEMMA EmbComputes ==
  ASSUME EmbInv, NEW c \in Embedders, EmbCompute(c) PROVE EmbInv'
<1> DEFINE q == emb[c]
           i == q.misses[1]
           t == q.texts[i]
           s == shared \cup cut
           r == [q EXCEPT !.pc = "computed", !.got[i] = <<t, "whole">>]
<1>1. /\ q \in EmbCall /\ CallWhole(q, s) /\ q.pc = "computing" /\ EmbBusy(c)
      /\ UNCHANGED <<vec, pipe, embKills, shared, cut, unfiled>>
  BY DEF EmbInv, EmbTypes, CallsWhole, EmbCompute, EmbBusy
<1>2. Head(q.misses) = i /\ i \in 1..Len(q.texts) /\ t \in EmbTexts /\ Len(q.misses) > 0 /\ Held(q) = t
  BY <1>1, CallPlaces DEF Held
<1>3. EmbGo(c, r) /\ computed' = [computed EXCEPT ![t] = @ + 1]
  BY <1>2 DEF EmbCompute
<1>4. q.got \in Seq(EmbTexts \X {"none", "part", "whole"}) /\ Len(q.got) = Len(q.texts) /\ q.texts \in Seq(EmbTexts)
  BY <1>1 DEF EmbCall, CallWhole
<1>5. /\ r \in EmbCall /\ r.pc = "computed" /\ r.texts = q.texts /\ r.misses = q.misses /\ r.at = q.at
      /\ r.got = [q.got EXCEPT ![i] = <<t, "whole">>]
  <2>1. [q.got EXCEPT ![i] = <<t, "whole">>] \in Seq(EmbTexts \X {"none", "part", "whole"})
    BY <1>2, <1>4, ExceptSeq
  <2>2. \A g : LET x == [q EXCEPT !.pc = "computed", !.got = g]
               IN  /\ g \in Seq(EmbTexts \X {"none", "part", "whole"}) => x \in EmbCall
                   /\ x.pc = "computed" /\ x.texts = q.texts /\ x.misses = q.misses /\ x.at = q.at /\ x.got = g
    BY <1>1 DEF EmbCall, EmbPhases
  <2>3. r = [q EXCEPT !.pc = "computed", !.got = [q.got EXCEPT ![i] = <<t, "whole">>]]
    BY <1>1 DEF EmbCall
  <2> HIDE DEF r
  <2> QED BY <2>1, <2>2, <2>3
<1> HIDE DEF r
<1>6. /\ Len(r.got) = Len(r.texts) /\ r.got[i] = <<t, "whole">>
      /\ \A j \in 1..Len(r.texts) : j # i => r.got[j] = q.got[j]
  <2>1. <<t, "whole">> \in EmbTexts \X {"none", "part", "whole"}
    BY <1>2
  <2> QED BY <1>2, <1>4, <1>5, <2>1, ExceptSeq
<1>7. CallWhole(r, s)
  <2>1. Missed(r) = Missed(q) /\ Missed(q) \subseteq 1..Len(q.texts)
    BY <1>1, <1>5 DEF Missed, CallWhole
  <2>2. \A j \in 1..Len(r.texts) : r.got[j][1] = r.texts[j]
    BY <1>1, <1>5, <1>6 DEF CallWhole
  <2>3. \A j \in 1..Len(r.texts) : j \in Missed(r) \/ Filled(r, j, s)
    <3>1. \A j \in 1..Len(r.texts) : Filled(q, j, s) => Filled(r, j, s)
      BY <1>5, <1>6 DEF Filled
    <3> QED BY <1>1, <1>5, <2>1, <3>1 DEF CallWhole
  <2>4. r.got[r.misses[1]][2] = "whole" /\ r.misses # << >>
    BY <1>1, <1>5, <1>6 DEF CallWhole
  <2> QED BY <1>1, <1>5, <1>6, <2>1, <2>2, <2>3, <2>4 DEF CallWhole
<1>8. /\ emb' \in [Embedders -> EmbCall] /\ emb'[c] = r
      /\ \A d \in Embedders : d # c => emb'[d] = emb[d]
      /\ CallsWhole' /\ SharedNoted'
  BY <1>1, <1>3, <1>5, <1>7, OneCall
<1>9. /\ computed' \in [EmbTexts -> Nat] /\ computed'[t] = computed[t] + 1 /\ computed[t] \in Nat
      /\ \A u \in EmbTexts : u # t => computed'[u] = computed[u]
  BY <1>2, <1>3 DEF EmbInv, EmbTypes
<1>10. EmbTypes'
  BY <1>1, <1>8, <1>9 DEF EmbInv, EmbTypes
<1>11. PartsHeld'
  <2>1. \A d \in Embedders : emb[d].pc = "opened" => emb'[d] = emb[d]
    BY <1>1, <1>8
  <2> QED BY <1>1, <2>1 DEF EmbInv, PartsHeld
<1>12. CountsHeld'
  <2>1. t \notin shared => computed[t] <= unfiled[t]
    <3> SUFFICES ASSUME t \notin shared PROVE computed[t] <= unfiled[t]
      OBVIOUS
    <3>1. 1 \in 1..Len(q.misses) /\ Pending(c, 1)
      BY <1>1, <1>2, CallPlaces DEF Pending, Holding
    <3>2. vec[t] = "absent"
      BY <1>2, <3>1 DEF EmbInv, CountsHeld
    <3>3. ASSUME NEW d \in Embedders, emb[d].pc = "computed", Held(emb[d]) = t PROVE FALSE
      <4>1. EmbBusy(d) /\ emb[d] \in EmbCall /\ CallWhole(emb[d], s)
        BY <3>3 DEF EmbInv, EmbBusy, EmbTypes, CallsWhole
      <4>2. emb[d].misses[1] \in 1..Len(emb[d].texts)
        BY <3>3, <4>1, CallPlaces
      <4>3. c = d
        BY <1>1, <1>2, <3>3, <4>1, <4>2, OneHolder DEF Held
      <4> QED BY <1>1, <3>3, <4>3
    <3> QED BY <1>2, <3>2, <3>3 DEF EmbInv, CountsHeld
  <2>2. \A d \in Embedders : emb[d].pc = "computed" => emb'[d] = emb[d]
    BY <1>1, <1>8
  <2>3. \A d \in Embedders : emb'[d].misses = emb[d].misses /\ emb'[d].texts = emb[d].texts
                             /\ \A k : Pending(d, k)' => Pending(d, k)
    BY <1>1, <1>5, <1>8 DEF Pending, EmbBusy, Holding
  <2>4. emb'[c].pc = "computed" /\ Held(emb'[c]) = t
    BY <1>2, <1>5, <1>8, SMTT(60) DEF Held
  <2>5. /\ \A u \in EmbTexts : unfiled[u] \in Nat /\ computed[u] \in Nat
        /\ shared' = shared /\ vec' = vec /\ unfiled' = unfiled
    BY <1>1 DEF EmbInv, EmbTypes
  <2>6. ASSUME NEW u \in EmbTexts \ shared
        PROVE  /\ computed'[u] <= 1 + unfiled[u]
               /\ (vec[u] = "absent" /\ ~\E d \in Embedders : emb'[d].pc = "computed" /\ Held(emb'[d]) = u)
                     => computed'[u] <= unfiled[u]
    <3>1. CASE u = t
      BY <1>9, <2>1, <2>4, <2>5, <3>1
    <3>2. CASE u # t
      BY <1>9, <2>2, <2>5, <3>2 DEF EmbInv, CountsHeld
    <3> QED BY <3>1, <3>2, SMTT(60)
  <2> QED BY <2>3, <2>5, <2>6 DEF EmbInv, CountsHeld
<1> QED BY <1>8, <1>10, <1>11, <1>12 DEF EmbInv

LEMMA EmbOpens ==
  ASSUME EmbInv, NEW c \in Embedders, EmbOpen(c) PROVE EmbInv'
<1> DEFINE q == emb[c]
           t == q.texts[q.misses[1]]
           s == shared \cup cut
           r == [q EXCEPT !.pc = "opened"]
<1>1. /\ q \in EmbCall /\ CallWhole(q, s) /\ q.pc = "computed" /\ EmbBusy(c)
      /\ UNCHANGED <<pipe, embKills, computed, shared, cut, unfiled>>
  BY DEF EmbInv, EmbTypes, CallsWhole, EmbOpen, EmbBusy
<1>2. /\ Head(q.misses) = q.misses[1] /\ q.misses[1] \in 1..Len(q.texts) /\ t \in EmbTexts /\ Held(q) = t
      /\ Len(q.misses) > 0
  BY <1>1, CallPlaces DEF Held
<1>3. EmbGo(c, r) /\ vec' = [vec EXCEPT ![t] = "part"]
  BY <1>2 DEF EmbOpen
<1>4. r \in EmbCall /\ r.pc = "opened" /\ r.texts = q.texts /\ r.misses = q.misses /\ r.got = q.got
  BY <1>1 DEF EmbCall, EmbPhases
<1> HIDE DEF r
<1>5. CallWhole(r, s)
  <2>1. Missed(r) = Missed(q) /\ \A j : Filled(r, j, s) = Filled(q, j, s)
    BY <1>4 DEF Missed, Filled
  <2>2. Holding(q)
    BY <1>1 DEF Holding
  <2> QED BY <1>1, <1>4, <2>1, <2>2 DEF CallWhole
<1>6. /\ emb' \in [Embedders -> EmbCall] /\ emb'[c] = r
      /\ \A d \in Embedders : d # c => emb'[d] = emb[d]
      /\ CallsWhole' /\ SharedNoted'
  BY <1>1, <1>3, <1>4, <1>5, OneCall
<1>7. vec' \in [EmbTexts -> EmbFiles] /\ vec'[t] = "part" /\ \A u \in EmbTexts : u # t => vec'[u] = vec[u]
  BY <1>2, <1>3 DEF EmbInv, EmbTypes, EmbFiles
<1>8. EmbTypes'
  BY <1>1, <1>6, <1>7 DEF EmbInv, EmbTypes
<1>9. emb'[c].pc = "opened" /\ Held(emb'[c]) = t
  BY <1>2, <1>4, <1>6 DEF Held
<1>10. PartsHeld'
  <2>1. \A d \in Embedders : emb[d].pc = "opened" => emb'[d] = emb[d]
    BY <1>1, <1>6
  <2> QED BY <1>1, <1>7, <1>9, <2>1 DEF EmbInv, PartsHeld
<1>11. CountsHeld'
  <2>1. ASSUME NEW d \in Embedders, NEW k \in 1..Len(emb'[d].misses), Pending(d, k)',
               NEW u \in EmbTexts \ shared, emb'[d].texts[emb'[d].misses[k]] = u
        PROVE  vec'[u] = "absent"
    <3>1. /\ emb'[d].misses = emb[d].misses /\ emb'[d].texts = emb[d].texts
          /\ Pending(d, k) /\ EmbBusy(d) /\ (d = c => k # 1)
      BY <1>1, <1>4, <1>6, <2>1 DEF Pending, EmbBusy, Holding
    <3>2. vec[u] = "absent"
      BY <2>1, <3>1 DEF EmbInv, CountsHeld
    <3>3. u # t
      <4> SUFFICES ASSUME u = t PROVE FALSE
        OBVIOUS
      <4>1. emb[d] \in EmbCall /\ CallWhole(emb[d], s)
        BY DEF EmbInv, EmbTypes, CallsWhole
      <4>2. emb[d].misses[k] \in 1..Len(emb[d].texts)
        BY <2>1, <3>1, <4>1, CallPlaces
      <4> DEFINE j == emb[d].misses[k]
      <4>3. emb[d].texts[j] = t /\ t \notin shared /\ j \in 1..Len(emb[d].texts) /\ EmbBusy(d)
        BY <2>1, <3>1, <4>2
      <4> HIDE DEF j
      <4>7. c = d /\ q.misses[1] = j
        BY <1>1, <1>2, <4>3, OneHolder
      <4>4. k \in 2..Len(q.misses)
        BY <2>1, <3>1, <4>7
      <4>5. q.misses[1] < q.misses[k] /\ q.misses \in Seq(Nat)
        <5>1. 1 \in 1..Len(q.misses) /\ k \in 1..Len(q.misses) /\ 1 < k
          BY <1>2, <4>4
        <5> QED BY <1>1, <5>1 DEF CallWhole, EmbCall
      <4>6. q.misses[1] \in Nat
        BY <1>2
      <4> QED BY <4>5, <4>6, <4>7 DEF j
    <3> QED BY <1>7, <3>2, <3>3
  <2>2. ASSUME NEW u \in EmbTexts \ shared
        PROVE  /\ computed[u] <= 1 + unfiled[u]
               /\ (vec'[u] = "absent" /\ ~\E d \in Embedders : emb'[d].pc = "computed" /\ Held(emb'[d]) = u)
                     => computed[u] <= unfiled[u]
    <3>1. computed[u] <= 1 + unfiled[u]
      BY DEF EmbInv, CountsHeld
    <3>2. ASSUME vec'[u] = "absent", ~\E d \in Embedders : emb'[d].pc = "computed" /\ Held(emb'[d]) = u
          PROVE  computed[u] <= unfiled[u]
      <4>1. u # t /\ vec[u] = "absent"
        BY <1>7, <3>2
      <4>2. ~\E d \in Embedders : emb[d].pc = "computed" /\ Held(emb[d]) = u
        BY <1>2, <1>6, <3>2, <4>1
      <4> QED BY <4>1, <4>2 DEF EmbInv, CountsHeld
    <3> QED BY <3>1, <3>2
  <2> QED BY <1>1, <2>1, <2>2 DEF CountsHeld
<1> QED BY <1>6, <1>8, <1>10, <1>11 DEF EmbInv

LEMMA EmbWrites ==
  ASSUME EmbInv, NEW c \in Embedders, EmbWritten(c) PROVE EmbInv'
<1> DEFINE q == emb[c]
           t == q.texts[q.misses[1]]
           s == shared \cup cut
           n == Len(q.misses)
           pc == IF n = 1 THEN "done" ELSE "computing"
           r == [q EXCEPT !.misses = Tail(q.misses), !.pc = pc]
<1>1. /\ q \in EmbCall /\ CallWhole(q, s) /\ q.pc = "opened" /\ EmbBusy(c)
      /\ UNCHANGED <<pipe, embKills, computed, shared, cut, unfiled>>
  BY DEF EmbInv, EmbTypes, CallsWhole, EmbWritten, EmbBusy
<1>2. /\ Head(q.misses) = q.misses[1] /\ q.misses[1] \in 1..Len(q.texts) /\ t \in EmbTexts /\ Held(q) = t
      /\ n > 0 /\ q.misses \in Seq(Nat) /\ q.misses # << >>
  BY <1>1, CallPlaces DEF Held, EmbCall
<1>3. EmbGo(c, r) /\ vec' = [vec EXCEPT ![t] = "whole"]
  BY <1>2 DEF EmbWritten
<1>4. /\ Tail(q.misses) \in Seq(Nat) /\ Len(Tail(q.misses)) = n - 1 /\ n \in Nat
      /\ \A k \in 1..(n - 1) : Tail(q.misses)[k] = q.misses[k + 1]
  BY <1>2
<1>5. /\ r \in EmbCall /\ r.pc = pc /\ r.texts = q.texts /\ r.misses = Tail(q.misses) /\ r.got = q.got
  BY <1>1, <1>4 DEF EmbCall, EmbPhases
<1> HIDE DEF r
<1>6. CallWhole(r, s)
  <2>1. Missed(q) = Missed(r) \cup {q.misses[1]}
    <3>1. \A k \in 1..n : k = 1 \/ (k - 1 \in 1..(n - 1) /\ q.misses[k] = Tail(q.misses)[k - 1])
      BY <1>2, <1>4
    <3>2. \A k \in 1..(n - 1) : k + 1 \in 1..n
      BY <1>4
    <3>3. 1 \in 1..n
      BY <1>2
    <3>4. ASSUME NEW x \in Missed(q) PROVE x \in Missed(r) \cup {q.misses[1]}
      <4>1. PICK k \in 1..n : x = q.misses[k]
        BY DEF Missed
      <4> QED BY <1>4, <1>5, <3>1, <4>1 DEF Missed
    <3>5. ASSUME NEW x \in Missed(r) PROVE x \in Missed(q)
      <4>1. PICK k \in 1..(n - 1) : x = Tail(q.misses)[k]
        BY <1>4, <1>5 DEF Missed
      <4>2. x = q.misses[k + 1] /\ k + 1 \in 1..n
        BY <1>4, <3>2, <4>1
      <4> QED BY <4>2 DEF Missed
    <3>6. q.misses[1] \in Missed(q)
      BY <3>3 DEF Missed
    <3> QED BY <3>4, <3>5, <3>6
  <2>2. \A j : Filled(r, j, s) = Filled(q, j, s)
    BY <1>5 DEF Filled
  <2>3. ~Holding(r) /\ Holding(q)
    BY <1>1, <1>5 DEF Holding
  <2>4. Filled(q, q.misses[1], s)
    BY <1>1, <2>3 DEF CallWhole, Filled
  <2>5. \A j \in 1..Len(r.texts) : j \in Missed(r) \/ Filled(r, j, s)
    BY <1>1, <1>5, <2>1, <2>2, <2>4 DEF CallWhole
  <2>6. \A j, k \in 1..Len(r.misses) : j < k => r.misses[j] < r.misses[k]
    <3>1. \A j \in 1..(n - 1) : j + 1 \in 1..n
      BY <1>4
    <3>2. \A j, k \in 1..(n - 1) : j < k => j + 1 < k + 1
      BY <1>4
    <3> QED BY <1>1, <1>4, <1>5, <3>1, <3>2 DEF CallWhole
  <2>7. pc = "done" <=> r.misses = << >>
    <3>1. r.misses = << >> <=> Len(r.misses) = 0
      BY <1>4, <1>5, EmptySeq
    <3> QED BY <1>2, <1>4, <1>5, <3>1
  <2>8. Missed(r) \subseteq 1..Len(r.texts)
    BY <1>1, <1>5, <2>1 DEF CallWhole
  <2> QED BY <1>1, <1>5, <2>3, <2>5, <2>6, <2>7, <2>8 DEF CallWhole
<1>7. /\ emb' \in [Embedders -> EmbCall] /\ emb'[c] = r
      /\ \A d \in Embedders : d # c => emb'[d] = emb[d]
      /\ CallsWhole' /\ SharedNoted'
  BY <1>1, <1>3, <1>5, <1>6, OneCall
<1>8. vec' \in [EmbTexts -> EmbFiles] /\ vec'[t] = "whole" /\ \A u \in EmbTexts : u # t => vec'[u] = vec[u]
  BY <1>2, <1>3 DEF EmbInv, EmbTypes, EmbFiles
<1>9. EmbTypes'
  BY <1>1, <1>7, <1>8 DEF EmbInv, EmbTypes
<1>10. PartsHeld'
  <2>1. ASSUME NEW u \in EmbTexts, vec'[u] = "part"
        PROVE  u \in cut \/ \E d \in Embedders : emb'[d].pc = "opened" /\ Held(emb'[d]) = u
    <3>1. u # t /\ vec[u] = "part"
      BY <1>8, <2>1
    <3> QED BY <1>2, <1>7, <3>1 DEF EmbInv, PartsHeld
  <2> QED BY <1>1, <2>1 DEF PartsHeld
<1>11. CountsHeld'
  <2>1. ASSUME NEW d \in Embedders, NEW k \in 1..Len(emb'[d].misses), Pending(d, k)',
               NEW u \in EmbTexts \ shared, emb'[d].texts[emb'[d].misses[k]] = u
        PROVE  vec'[u] = "absent"
    <3>1. PICK m \in 1..Len(emb[d].misses) :
             Pending(d, m) /\ emb'[d].misses[k] = emb[d].misses[m] /\ (d = c => m # 1)
      <4>1. CASE d = c
        <5>3. k \in 1..(n - 1)
          <6>1. emb'[d].misses = Tail(q.misses)
            BY <1>5, <1>7, <4>1
          <6> QED BY <1>4, <6>1
        <5>1. k + 1 \in 1..n /\ k + 1 # 1 /\ Tail(q.misses)[k] = q.misses[k + 1]
          BY <1>4, <5>3
        <5>2. Pending(c, k + 1)
          BY <1>1, <5>1 DEF Pending
        <5> QED BY <1>5, <1>7, <4>1, <5>1, <5>2
      <4>2. CASE d # c
        <5>1. emb'[d] = emb[d]
          BY <1>7, <4>2
        <5>2. Pending(d, k)
          BY <2>1, <5>1 DEF Pending, EmbBusy
        <5> QED BY <2>1, <4>2, <5>1, <5>2
      <4> QED BY <4>1, <4>2
    <3>2. emb'[d].texts = emb[d].texts /\ EmbBusy(d) /\ emb[d].texts[emb[d].misses[m]] = u
      BY <1>5, <1>7, <2>1, <3>1 DEF Pending
    <3>3. vec[u] = "absent"
      BY <3>1, <3>2 DEF EmbInv, CountsHeld
    <3>4. u # t
      <4> SUFFICES ASSUME u = t PROVE FALSE
        OBVIOUS
      <4>1. emb[d] \in EmbCall /\ CallWhole(emb[d], s)
        BY DEF EmbInv, EmbTypes, CallsWhole
      <4>2. emb[d].misses[m] \in 1..Len(emb[d].texts)
        BY <3>1, <4>1, CallPlaces
      <4> DEFINE j == emb[d].misses[m]
      <4>3. emb[d].texts[j] = t /\ t \notin shared /\ j \in 1..Len(emb[d].texts) /\ EmbBusy(d)
        BY <2>1, <3>2, <4>2
      <4> HIDE DEF j
      <4>7. c = d /\ q.misses[1] = j
        BY <1>1, <1>2, <4>3, OneHolder
      <4>4. m \in 2..n
        BY <3>1, <4>7
      <4>5. q.misses[1] < q.misses[m] /\ q.misses[1] \in Nat
        BY <1>1, <1>2, <4>4, SMTT(60) DEF CallWhole
      <4> QED BY <4>5, <4>7 DEF j
    <3> QED BY <1>8, <3>3, <3>4
  <2>2. ASSUME NEW u \in EmbTexts \ shared
        PROVE  /\ computed[u] <= 1 + unfiled[u]
               /\ (vec'[u] = "absent" /\ ~\E d \in Embedders : emb'[d].pc = "computed" /\ Held(emb'[d]) = u)
                     => computed[u] <= unfiled[u]
    <3>1. computed[u] <= 1 + unfiled[u]
      BY DEF EmbInv, CountsHeld
    <3>2. ASSUME vec'[u] = "absent", ~\E d \in Embedders : emb'[d].pc = "computed" /\ Held(emb'[d]) = u
          PROVE  computed[u] <= unfiled[u]
      <4>1. u # t /\ vec[u] = "absent"
        BY <1>8, <3>2
      <4>2. ~\E d \in Embedders : emb[d].pc = "computed" /\ Held(emb[d]) = u
        BY <1>1, <1>7, <3>2, <4>1
      <4> QED BY <4>1, <4>2 DEF EmbInv, CountsHeld
    <3> QED BY <3>1, <3>2
  <2> QED BY <1>1, <2>1, <2>2 DEF CountsHeld
<1> QED BY <1>7, <1>9, <1>10, <1>11 DEF EmbInv

\* A file or a vector that a failure or a kill leaves behind is noted.
LEMMA EmbLeft ==
  ASSUME EmbInv, NEW c \in Embedders, emb[c].pc \in {"computed", "opened"}
  PROVE  /\ Held(emb[c]) \in EmbTexts
         /\ \A t \in EmbTexts : /\ emb[c].pc = "computed" => (EmbAt(c, "computed", t) <=> Held(emb[c]) = t)
                                /\ emb[c].pc = "opened" => (EmbAt(c, "opened", t) <=> Held(emb[c]) = t)
<1>1. emb[c] \in EmbCall /\ CallWhole(emb[c], shared \cup cut)
  BY DEF EmbInv, EmbTypes, CallsWhole
<1>2. Head(emb[c].misses) = emb[c].misses[1] /\ Held(emb[c]) \in EmbTexts
  BY <1>1, CallPlaces
<1> QED BY <1>2 DEF EmbAt, Held

\* A call that fails while it holds a vector loses it, or leaves its file cut short.
LEMMA EmbFailed ==
  ASSUME EmbInv, NEW c \in Embedders, EmbFails(c) PROVE EmbInv'
<1> DEFINE q == emb[c]
           r == [q EXCEPT !.pc = "failed"]
           s == shared \cup cut
<1>1. /\ q \in EmbCall /\ CallWhole(q, s) /\ q.pc \in {"importing", "computing", "computed", "opened"}
      /\ EmbBusy(c) /\ EmbGo(c, r) /\ UNCHANGED <<vec, pipe, embKills, computed, shared>>
  BY DEF EmbInv, EmbTypes, CallsWhole, EmbFails, EmbBusy
<1>2. r \in EmbCall /\ r.pc = "failed" /\ r.texts = q.texts /\ r.misses = q.misses /\ r.got = q.got
  BY <1>1 DEF EmbCall, EmbPhases
<1> HIDE DEF r
<1>3. /\ emb' \in [Embedders -> EmbCall] /\ emb'[c] = r
      /\ \A d \in Embedders : d # c => emb'[d] = emb[d]
  BY <1>1, <1>2 DEF EmbInv, EmbTypes, EmbGo
<1>4. cut \subseteq cut' /\ cut' \subseteq EmbTexts
  BY DEF EmbInv, EmbTypes, EmbFails
<1>5. /\ unfiled' \in [EmbTexts -> Nat]
      /\ \A t \in EmbTexts : /\ unfiled[t] \in Nat /\ computed[t] \in Nat /\ unfiled[t] <= unfiled'[t]
                             /\ EmbAt(c, "computed", t) => unfiled'[t] = unfiled[t] + 1
  <2>1. unfiled \in [EmbTexts -> Nat] /\ computed \in [EmbTexts -> Nat]
    BY DEF EmbInv, EmbTypes
  <2>2. \A t \in EmbTexts : unfiled[t] + (IF EmbAt(c, "computed", t) THEN 1 ELSE 0) \in Nat
    BY <2>1
  <2>3. unfiled' = [t \in EmbTexts |-> unfiled[t] + IF EmbAt(c, "computed", t) THEN 1 ELSE 0]
    BY DEF EmbFails
  <2>4. \A t \in EmbTexts : unfiled'[t] = unfiled[t] + IF EmbAt(c, "computed", t) THEN 1 ELSE 0
    BY <2>3
  <2>5. unfiled' \in [EmbTexts -> Nat]
    BY <2>2, <2>3
  <2> QED BY <2>1, <2>4, <2>5
<1>6. EmbTypes'
  BY <1>1, <1>3, <1>4, <1>5 DEF EmbInv, EmbTypes
<1>7. CallsWhole'
  <2>1. ASSUME NEW d \in Embedders PROVE CallWhole(emb[d], (shared \cup cut)')
    <3>1. CallWhole(emb[d], s)
      BY DEF EmbInv, CallsWhole
    <3>2. \A i : Filled(emb[d], i, s) => Filled(emb[d], i, (shared \cup cut)')
      BY <1>1, <1>4 DEF Filled
    <3> QED BY <3>1, <3>2 DEF CallWhole
  <2>2. CallWhole(r, (shared \cup cut)')
    <3>1. Missed(r) = Missed(q) /\ ~Holding(r)
      BY <1>2 DEF Missed, Holding
    <3> QED BY <1>1, <1>2, <3>1 DEF CallWhole
  <2> QED BY <1>3, <2>1, <2>2 DEF CallsWhole
<1>8. \A d \in Embedders : /\ emb'[d].texts = emb[d].texts /\ emb'[d].misses = emb[d].misses
                           /\ EmbBusy(d)' => EmbBusy(d) /\ emb'[d] = emb[d]
  BY <1>2, <1>3 DEF EmbBusy
<1>9. SharedNoted'
  BY <1>1, <1>8 DEF EmbInv, SharedNoted
<1>10. PartsHeld'
  <2>1. ASSUME NEW t \in EmbTexts, vec[t] = "part", t \notin cut'
        PROVE  \E d \in Embedders : emb'[d].pc = "opened" /\ Held(emb'[d]) = t
    <3>1. PICK d \in Embedders : emb[d].pc = "opened" /\ Held(emb[d]) = t
      BY <1>4, <2>1 DEF EmbInv, PartsHeld
    <3>2. d # c
      BY <2>1, <3>1, EmbLeft DEF EmbFails
    <3> QED BY <1>3, <3>1, <3>2
  <2> QED BY <1>1, <2>1 DEF PartsHeld
<1>11. CountsHeld'
  <2>1. \A d \in Embedders : \A k : Pending(d, k)' => Pending(d, k)
    BY <1>8 DEF Pending
  <2>2. ASSUME NEW t \in EmbTexts \ shared
        PROVE  /\ computed[t] <= 1 + unfiled'[t]
               /\ (vec[t] = "absent" /\ ~\E d \in Embedders : emb'[d].pc = "computed" /\ Held(emb'[d]) = t)
                     => computed[t] <= unfiled'[t]
    <3>1. computed[t] <= 1 + unfiled[t]
      BY DEF EmbInv, CountsHeld
    <3>2. ASSUME vec[t] = "absent", ~\E d \in Embedders : emb'[d].pc = "computed" /\ Held(emb'[d]) = t
          PROVE  computed[t] <= unfiled'[t]
      <4>1. CASE EmbAt(c, "computed", t)
        BY <1>5, <3>1, <4>1
      <4>2. CASE ~EmbAt(c, "computed", t)
        <5>1. ~\E d \in Embedders : emb[d].pc = "computed" /\ Held(emb[d]) = t
          BY <1>3, <3>2, <4>2, EmbLeft
        <5>2. computed[t] <= unfiled[t]
          BY <3>2, <5>1 DEF EmbInv, CountsHeld
        <5> QED BY <1>5, <5>2
      <4> QED BY <4>1, <4>2
    <3> QED BY <1>5, <3>1, <3>2
  <2> QED BY <1>1, <1>8, <2>1, <2>2 DEF EmbInv, CountsHeld
<1> QED BY <1>6, <1>7, <1>9, <1>10, <1>11 DEF EmbInv

LEMMA EmbKilled == ASSUME EmbInv, EmbKill PROVE EmbInv'
<1> DEFINE Lost(t) == \E c \in Embedders : EmbAt(c, "computed", t)
<1>1. /\ embKills' = embKills + 1 /\ pipe' = "unset" /\ UNCHANGED <<vec, computed, shared>>
      /\ cut' = cut \cup {t \in EmbTexts : vec[t] = "part"}
      /\ unfiled' = [t \in EmbTexts |-> unfiled[t] + IF Lost(t) THEN 1 ELSE 0]
      /\ emb' = [c \in Embedders |-> NoEmb]
  BY DEF EmbKill
<1>2. \A c \in Embedders : emb'[c] = NoEmb /\ ~EmbBusy(c)'
  BY <1>1, NoEmbWhole DEF EmbBusy
<1>3. /\ unfiled' \in [EmbTexts -> Nat]
      /\ \A t \in EmbTexts : /\ unfiled[t] \in Nat /\ computed[t] \in Nat /\ unfiled[t] <= unfiled'[t]
                             /\ Lost(t) => unfiled'[t] = unfiled[t] + 1
  <2>1. unfiled \in [EmbTexts -> Nat] /\ computed \in [EmbTexts -> Nat]
    BY DEF EmbInv, EmbTypes
  <2> HIDE DEF Lost
  <2>2. \A t \in EmbTexts : unfiled[t] + (IF Lost(t) THEN 1 ELSE 0) \in Nat
    BY <2>1
  <2>4. \A t \in EmbTexts : unfiled'[t] = unfiled[t] + IF Lost(t) THEN 1 ELSE 0
    BY <1>1
  <2>5. unfiled' \in [EmbTexts -> Nat]
    BY <1>1, <2>2
  <2> QED BY <2>1, <2>4, <2>5
<1>4. EmbTypes'
  BY <1>1, <1>3, NoEmbWhole DEF EmbInv, EmbTypes
<1>5. CallsWhole'
  BY <1>2, NoEmbWhole DEF CallsWhole
<1>6. SharedNoted'
  BY <1>2 DEF SharedNoted
<1>7. PartsHeld'
  BY <1>1 DEF PartsHeld
<1>8. CountsHeld'
  <2>1. ASSUME NEW t \in EmbTexts \ shared
        PROVE  computed[t] <= 1 + unfiled'[t] /\ (vec[t] = "absent" => computed[t] <= unfiled'[t])
    <3>1. computed[t] <= 1 + unfiled[t]
      BY DEF EmbInv, CountsHeld
    <3>2. ASSUME vec[t] = "absent" PROVE computed[t] <= unfiled'[t]
      <4>1. CASE Lost(t)
        <5> HIDE DEF Lost
        <5> QED BY <1>3, <3>1, <4>1
      <4>2. CASE ~Lost(t)
        <5>1. ~\E c \in Embedders : emb[c].pc = "computed" /\ Held(emb[c]) = t
          BY <4>2, EmbLeft
        <5>2. computed[t] <= unfiled[t]
          BY <3>2, <5>1 DEF EmbInv, CountsHeld
        <5> HIDE DEF Lost
        <5> QED BY <1>3, <5>2
      <4> QED BY <4>1, <4>2
    <3> HIDE DEF Lost
    <3> QED BY <1>3, <3>1, <3>2
  <2>2. \A c \in Embedders : \A k : ~Pending(c, k)'
    BY <1>2 DEF Pending
  <2> QED BY <1>1, <2>1, <2>2 DEF CountsHeld
<1> QED BY <1>4, <1>5, <1>6, <1>7, <1>8 DEF EmbInv

LEMMA EmbSteps == EmbInv /\ [EmbNext]_embVars => EmbInv'
<1> SUFFICES ASSUME EmbInv, [EmbNext]_embVars PROVE EmbInv'
  OBVIOUS
<1>1. ASSUME NEW c \in Embedders, NEW texts \in UNION {[1..n -> EmbTexts] : n \in 1..2}, EmbBegin(c, texts)
      PROVE  EmbInv'
  BY <1>1, EmbBegins
<1>2. ASSUME NEW c \in Embedders, EmbLook(c) PROVE EmbInv'
  BY <1>2, EmbLooks
<1>3. ASSUME NEW c \in Embedders, PipeStart(c) \/ PipeAssign(c) \/ PipeGiven(c) PROVE EmbInv'
  BY <1>3, EmbPipes
<1>4. ASSUME NEW c \in Embedders, EmbCompute(c) PROVE EmbInv'
  BY <1>4, EmbComputes
<1>5. ASSUME NEW c \in Embedders, EmbOpen(c) PROVE EmbInv'
  BY <1>5, EmbOpens
<1>6. ASSUME NEW c \in Embedders, EmbWritten(c) PROVE EmbInv'
  BY <1>6, EmbWrites
<1>a. ASSUME NEW c \in Embedders, EmbFails(c) PROVE EmbInv'
  BY <1>a, EmbFailed
<1>7. CASE PipeSettles
  BY <1>7, EmbPipes
<1>8. CASE EmbKill
  BY <1>8, EmbKilled
<1>9. CASE UNCHANGED embVars
  <2>1. UNCHANGED <<vec, pipe, emb, embKills, computed, shared, cut, unfiled>>
    BY <1>9 DEF embVars
  <2>2. EmbTypes' /\ CallsWhole' /\ PartsHeld'
    BY <2>1 DEF EmbInv, EmbTypes, CallsWhole, PartsHeld
  <2>3. SharedNoted' /\ CountsHeld'
    BY <2>1 DEF EmbInv, SharedNoted, CountsHeld, EmbBusy, Pending
  <2> QED BY <2>2, <2>3 DEF EmbInv
<1> QED BY <1>1, <1>2, <1>3, <1>4, <1>5, <1>6, <1>7, <1>8, <1>9, <1>a DEF EmbNext

LEMMA EmbIsSound == EmbInv => VectorsWhole /\ EmbeddedOnce
<1> SUFFICES ASSUME EmbInv PROVE VectorsWhole /\ EmbeddedOnce
  OBVIOUS
<1>1. ASSUME NEW c \in Embedders, emb[c].pc = "done", NEW i \in 1..Len(emb[c].texts)
      PROVE  Filled(emb[c], i, shared \cup cut)
  <2>1. CallWhole(emb[c], shared \cup cut)
    BY DEF EmbInv, CallsWhole
  <2>2. Missed(emb[c]) = {}
    BY <1>1, <2>1 DEF CallWhole, Missed
  <2> QED BY <1>1, <2>1, <2>2 DEF CallWhole
<1>2. VectorsWhole
  BY <1>1 DEF EmbInv, CallsWhole, CallWhole, Filled, VectorsWhole
<1>3. EmbeddedOnce
  BY DEF EmbInv, CountsHeld, EmbeddedOnce
<1> QED BY <1>2, <1>3

-----------------------------------------------------------------------------
(* The write-time passes.                                                  *)

\* The tokens of a chunk are a sum that grows by each event.
LEMMA TokensComputed ==
  ASSUME NEW sizes \in Seq(Nat), NEW chunk \in Seq(1..Len(sizes))
  PROVE  \E f \in [0..Len(chunk) -> Nat] :
            f[0] = 0 /\ (\A i \in 1..Len(chunk) : f[i] = f[i - 1] + sizes[chunk[i]])
            /\ Tokens(sizes, chunk) = f[Len(chunk)]
<1> DEFINE n == Len(chunk)
           g == [i \in 1..n |-> [x \in Nat |-> x + sizes[chunk[i]]]]
<1>1. n \in Nat /\ \A i \in 1..n : chunk[i] \in 1..Len(sizes) /\ sizes[chunk[i]] \in Nat
  <2>1. \A j \in 1..Len(sizes) : sizes[j] \in Nat
    OBVIOUS
  <2>2. n \in Nat /\ \A i \in 1..n : chunk[i] \in 1..Len(sizes)
    OBVIOUS
  <2> QED BY <2>1, <2>2
<1>2. g \in [1..n -> [Nat -> Nat]]
  <2>1. ASSUME NEW i \in 1..n, NEW x \in Nat PROVE x + sizes[chunk[i]] \in Nat
    <3>1. sizes[chunk[i]] \in Nat
      BY <1>1
    <3> HIDE DEF n, g
    <3> DEFINE w == sizes[chunk[i]]
    <3> HIDE DEF w
    <3>2. w \in Nat /\ x \in Nat => x + w \in Nat
      BY SMTT(60)
    <3> QED BY <3>1, <3>2 DEF w
  <2> QED BY <2>1
<1>3. \A i \in 1..n : \A x \in Nat : g[i][x] = x + sizes[chunk[i]]
  OBVIOUS
<1> HIDE DEF g
<1>4. \E f \in [0..n -> Nat] : Follows(f, n, 0, g)
  BY <1>1, <1>2, Recursion
<1>5. PICK f \in [0..n -> Nat] : f[0] = 0 /\ \A i \in 1..n : f[i] = g[i][f[i - 1]]
  BY <1>4 DEF Follows
<1>6. \A i \in 1..n : f[i] = f[i - 1] + sizes[chunk[i]]
  <2> TAKE i \in 1..n
  <2>1. i - 1 \in 0..n
    BY <1>1
  <2>2. f[i - 1] \in Nat
    BY <1>5, <2>1
  <2> QED BY <1>3, <1>5, <2>2
<1> DEFINE Sums(h) == h = [i \in 0..n |-> IF i = 0 THEN 0 ELSE h[i - 1] + sizes[chunk[i]]]
           F == CHOOSE h : Sums(h)
<1>7. Sums(f)
  <2>1. \A i \in 0..n : i # 0 => i \in 1..n
    BY <1>1
  <2> QED BY <1>5, <1>6, <2>1
<1>8. Sums(F)
  <2> HIDE DEF Sums
  <2> QED BY <1>7, Zenon
<1>9. Tokens(sizes, chunk) = F[n]
  BY DEF Tokens
<1> HIDE DEF F
<1>10. \A i \in Nat : i \in 0..n => F[i] = f[i]
  <2> DEFINE T == {i \in Nat : i \in 0..n => F[i] = f[i]}
  <2>1. 0 \in T
    BY <1>1, <1>5, <1>8
  <2>2. ASSUME NEW i \in Nat, i \in T PROVE i + 1 \in T
    <3> SUFFICES ASSUME i + 1 \in 0..n PROVE F[i + 1] = f[i + 1]
      OBVIOUS
    <3>1. i \in 0..n /\ i + 1 \in 1..n /\ (i + 1) - 1 = i
      BY <1>1
    <3>2. F[i] = f[i]
      BY <2>2, <3>1
    <3>3. F[i + 1] = F[i] + sizes[chunk[i + 1]]
      <4>1. \A k \in 0..n : F[k] = IF k = 0 THEN 0 ELSE F[k - 1] + sizes[chunk[k]]
        BY <1>8
      <4>2. i + 1 \in 0..n /\ i + 1 # 0
        BY <3>1
      <4> QED BY <3>1, <4>1, <4>2
    <3> QED BY <1>6, <3>1, <3>2, <3>3
  <2> HIDE DEF T
  <2>3. Nat \subseteq T
    BY <2>1, <2>2, Induct
  <2> QED BY <2>3 DEF T
<1>11. n \in 0..n
  BY <1>1
<1>12. Tokens(sizes, chunk) = f[n]
  BY <1>1, <1>9, <1>10, <1>11
<1> QED BY <1>5, <1>6, <1>12

LEMMA TokensAppend ==
  ASSUME NEW sizes \in Seq(Nat), NEW chunk \in Seq(1..Len(sizes)), NEW e \in 1..Len(sizes)
  PROVE  /\ Tokens(sizes, chunk) \in Nat
         /\ Tokens(sizes, Append(chunk, e)) = Tokens(sizes, chunk) + sizes[e]
<1> DEFINE n == Len(chunk)
           c == Append(chunk, e)
<1>1. /\ n \in Nat /\ c \in Seq(1..Len(sizes)) /\ Len(c) = n + 1 /\ c[n + 1] = e
      /\ \A i \in 1..n : c[i] = chunk[i]
  BY AppendProperties
<1> HIDE DEF c
<1>2. PICK f \in [0..n -> Nat] :
         f[0] = 0 /\ (\A i \in 1..n : f[i] = f[i - 1] + sizes[chunk[i]]) /\ Tokens(sizes, chunk) = f[n]
  BY TokensComputed
<1>3. PICK h \in [0..(n + 1) -> Nat] :
         h[0] = 0 /\ (\A i \in 1..(n + 1) : h[i] = h[i - 1] + sizes[c[i]]) /\ Tokens(sizes, c) = h[n + 1]
  <2>1. \E h \in [0..Len(c) -> Nat] :
           h[0] = 0 /\ (\A i \in 1..Len(c) : h[i] = h[i - 1] + sizes[c[i]]) /\ Tokens(sizes, c) = h[Len(c)]
    BY <1>1, TokensComputed, Zenon
  <2> QED BY <1>1, <2>1
<1>4. \A i \in Nat : i \in 0..n => h[i] = f[i]
  <2> DEFINE T == {i \in Nat : i \in 0..n => h[i] = f[i]}
  <2>1. 0 \in T
    BY <1>2, <1>3
  <2>2. ASSUME NEW i \in Nat, i \in T PROVE i + 1 \in T
    <3> SUFFICES ASSUME i + 1 \in 0..n PROVE h[i + 1] = f[i + 1]
      OBVIOUS
    <3>1. i \in 0..n /\ i + 1 \in 1..n /\ i + 1 \in 1..(n + 1) /\ (i + 1) - 1 = i
      BY <1>1
    <3>2. h[i] = f[i] /\ c[i + 1] = chunk[i + 1]
      BY <1>1, <2>2, <3>1
    <3> QED BY <1>2, <1>3, <3>1, <3>2
  <2> HIDE DEF T
  <2>3. Nat \subseteq T
    BY <2>1, <2>2, Induct
  <2> QED BY <2>3 DEF T
<1>5. n \in 0..n /\ n + 1 \in 1..(n + 1) /\ (n + 1) - 1 = n
  BY <1>1
<1>6. h[n] = f[n] /\ h[n + 1] = h[n] + sizes[c[n + 1]]
  BY <1>1, <1>3, <1>4, <1>5
<1>7. f[n] \in Nat
  BY <1>2, <1>5
<1> QED BY <1>1, <1>2, <1>3, <1>6, <1>7 DEF c

\* The packing of the first i events: every event once and in order, each chunk
\* within the budget or of one event, and none left outside the open chunk.
Fits(sizes, max, chunk) == Len(chunk) <= 1 \/ Tokens(sizes, chunk) <= max
Packs(sizes) == [closed : Seq(Seq(1..Len(sizes))), open : Seq(1..Len(sizes))]
PackNext(sizes, max, so, i) ==
    IF so.open # << >> /\ Tokens(sizes, so.open) + sizes[i] > max
    THEN [closed |-> Append(so.closed, so.open), open |-> <<i>>]
    ELSE [so EXCEPT !.open = Append(@, i)]
WellPacked(sizes, max, so, i) ==
    /\ so \in Packs(sizes)
    /\ FlattenSeq(so.closed) \o so.open = [k \in 1..i |-> k]
    /\ \A j \in 1..Len(so.closed) : Fits(sizes, max, so.closed[j])
    /\ Fits(sizes, max, so.open)
    /\ so.open = << >> => i = 0

LEMMA ConcatAppend ==
  ASSUME NEW D, NEW s \in Seq(D), NEW t \in Seq(D), NEW e \in D
  PROVE  s \o Append(t, e) = Append(s \o t, e)
OBVIOUS

LEMMA PackStep ==
  ASSUME NEW sizes \in Seq(Nat), NEW max \in Nat, NEW i \in 1..Len(sizes), NEW so,
         WellPacked(sizes, max, so, i - 1)
  PROVE  WellPacked(sizes, max, PackNext(sizes, max, so, i), i)
<1> DEFINE D == 1..Len(sizes)
           to == PackNext(sizes, max, so, i)
           before == [k \in 1..(i - 1) |-> k]
<1>1. so.closed \in Seq(Seq(D)) /\ so.open \in Seq(D) /\ so = [closed |-> so.closed, open |-> so.open]
  BY DEF WellPacked, Packs
<1>2. i \in D /\ i \in Nat /\ i - 1 \in Nat /\ sizes[i] \in Nat /\ (i - 1) + 1 = i
  OBVIOUS
<1>3. before \in Seq(D) /\ Len(before) = i - 1 /\ \A k \in 1..(i - 1) : before[k] = k
  <2>1. \A k \in 1..(i - 1) : k \in D
    BY <1>2
  <2>2. before \in [1..(i - 1) -> D]
    BY <2>1
  <2> QED BY <1>2, <2>2
<1>4. FlattenSeq(so.closed) \o so.open = before
  BY DEF WellPacked
<1> HIDE DEF before
<1>5. FlattenSeq(so.closed) \in Seq(D)
      /\ FlattenSeq(Append(so.closed, so.open)) = FlattenSeq(so.closed) \o so.open
  <2> HIDE DEF D
  <2> QED BY <1>1, FlattenAppend
<1>6. Append(before, i) = [k \in 1..i |-> k]
  <2>1. /\ Append(before, i) \in Seq(D) /\ Len(Append(before, i)) = i
        /\ \A k \in 1..i : Append(before, i)[k] = k
    BY <1>2, <1>3, AppendProperties
  <2>2. [k \in 1..i |-> k] \in Seq(D) /\ Len([k \in 1..i |-> k]) = i
    <3>1. \A k \in 1..i : k \in D
      BY <1>2
    <3>2. [k \in 1..i |-> k] \in [1..i -> D]
      BY <3>1
    <3> QED BY <1>2, <3>2
  <2>3. \A k \in 1..i : [m \in 1..i |-> m][k] = k
    OBVIOUS
  <2> HIDE DEF D
  <2> QED BY <2>1, <2>2, <2>3, SeqEqual
<1>7. Tokens(sizes, so.open) \in Nat /\ Tokens(sizes, Append(so.open, i)) = Tokens(sizes, so.open) + sizes[i]
  BY <1>1, <1>2, TokensAppend
<1>8. /\ \A j \in 1..Len(so.closed) : Fits(sizes, max, so.closed[j])
      /\ Fits(sizes, max, so.open)
  BY DEF WellPacked
<1>9. CASE so.open # << >> /\ Tokens(sizes, so.open) + sizes[i] > max
  <2>1. to = [closed |-> Append(so.closed, so.open), open |-> <<i>>]
    BY <1>9 DEF PackNext
  <2>2. to.closed = Append(so.closed, so.open) /\ to.open = <<i>>
    BY <2>1
  <2>3. Append(so.closed, so.open) \in Seq(Seq(D)) /\ <<i>> \in Seq(D)
    BY <1>1, <1>2
  <2>4. to \in Packs(sizes)
    BY <2>1, <2>3 DEF Packs
  <2>5. FlattenSeq(to.closed) = before
    BY <1>4, <1>5, <2>2
  <2>6. before \o <<i>> = Append(before, i)
    <3> HIDE DEF D
    <3> QED BY <1>2, <1>3, AppendIsConcat
  <2>7. FlattenSeq(to.closed) \o to.open = [k \in 1..i |-> k]
    BY <1>6, <2>2, <2>5, <2>6
  <2>8. Fits(sizes, max, to.open) /\ to.open # << >>
    BY <2>2 DEF Fits
  <2>9. ASSUME NEW j \in 1..Len(to.closed) PROVE Fits(sizes, max, to.closed[j])
    <3>1. Len(to.closed) = Len(so.closed) + 1 /\ Len(so.closed) \in Nat
      BY <1>1, <2>2
    <3>2. CASE j = Len(so.closed) + 1
      <4>1. to.closed[j] = so.open
        BY <1>1, <2>2, <3>2, AppendProperties
      <4> QED BY <1>8, <4>1
    <3>3. CASE j \in 1..Len(so.closed)
      <4>1. to.closed[j] = so.closed[j]
        BY <1>1, <2>2, <3>3, AppendProperties
      <4> QED BY <1>8, <3>3, <4>1
    <3> QED BY <3>1, <3>2, <3>3
  <2> HIDE DEF to
  <2>10. WellPacked(sizes, max, to, i)
    BY <2>4, <2>7, <2>8, <2>9 DEF WellPacked
  <2> QED BY <2>10 DEF to
<1>10. CASE ~(so.open # << >> /\ Tokens(sizes, so.open) + sizes[i] > max)
  <2>1. to = [so EXCEPT !.open = Append(@, i)]
    BY <1>10 DEF PackNext
  <2>2. to.closed = so.closed /\ to.open = Append(so.open, i) /\ to = [closed |-> so.closed, open |-> Append(so.open, i)]
    BY <1>1, <2>1
  <2>3. Append(so.open, i) \in Seq(D) /\ Append(so.open, i) # << >> /\ Len(Append(so.open, i)) = Len(so.open) + 1
    <3> DEFINE b == so.open
    <3>1. b \in Seq(D) /\ i \in D
      BY <1>1, <1>2
    <3> HIDE DEF b, D
    <3>2. Append(b, i) \in Seq(D) /\ Append(b, i) # << >> /\ Len(Append(b, i)) = Len(b) + 1
      BY <3>1, AppendProperties
    <3> QED BY <3>2 DEF b
  <2>4. to \in Packs(sizes)
    BY <1>1, <2>2, <2>3 DEF Packs
  <2>5. FlattenSeq(so.closed) \o Append(so.open, i) = Append(before, i)
    <3> DEFINE a == FlattenSeq(so.closed)
               b == so.open
    <3>1. a \in Seq(D) /\ b \in Seq(D) /\ i \in D /\ a \o b = before
      BY <1>1, <1>2, <1>4, <1>5
    <3> HIDE DEF a, b, D
    <3>2. a \o Append(b, i) = Append(a \o b, i)
      BY <3>1, ConcatAppend, SMTT(60)
    <3> QED BY <3>1, <3>2 DEF a, b
  <2>6. Fits(sizes, max, to.open)
    <3>1. CASE so.open = << >>
      <4>1. Len(so.open) = 0
        BY <3>1
      <4> QED BY <2>2, <2>3, <4>1 DEF Fits
    <3>2. CASE Tokens(sizes, so.open) + sizes[i] <= max
      BY <1>7, <2>2, <3>2 DEF Fits
    <3>3. so.open # << >> => Tokens(sizes, so.open) + sizes[i] <= max
      BY <1>2, <1>7, <1>10
    <3> QED BY <3>1, <3>2, <3>3
  <2>7. FlattenSeq(to.closed) \o to.open = [k \in 1..i |-> k]
    BY <1>6, <2>2, <2>5
  <2>8. to.open # << >> /\ \A j \in 1..Len(to.closed) : Fits(sizes, max, to.closed[j])
    BY <1>8, <2>2, <2>3
  <2> HIDE DEF to
  <2>9. WellPacked(sizes, max, to, i)
    BY <2>4, <2>6, <2>7, <2>8 DEF WellPacked
  <2> QED BY <2>9 DEF to
<1> QED BY <1>9, <1>10

LEMMA PackedIsWell ==
  ASSUME NEW sizes \in Seq(Nat), NEW max \in Nat
  PROVE  WellPacked(sizes, max, Packed(sizes, max), Len(sizes))
<1> DEFINE n == Len(sizes)
           none == [closed |-> << >>, open |-> << >>]
           Packing(h) == h = [i \in 0..n |-> IF i = 0 THEN none ELSE PackNext(sizes, max, h[i - 1], i)]
           F == CHOOSE h : Packing(h)
<1>1. n \in Nat
  OBVIOUS
<1>2. none \in Packs(sizes) /\ WellPacked(sizes, max, none, 0)
  <2>1. none.closed = << >> /\ none.open = << >> /\ none \in Packs(sizes)
    BY DEF Packs
  <2>2. FlattenSeq(<< >>) = << >>
    BY DEF FlattenSeq
  <2>3. FlattenSeq(none.closed) \o none.open = << >>
    BY <2>1, <2>2
  <2>4. [k \in 1..0 |-> k] = << >>
    OBVIOUS
  <2>5. Len(none.open) = 0 /\ Len(none.closed) = 0
    BY <2>1
  <2> HIDE DEF none
  <2> QED BY <2>1, <2>3, <2>4, <2>5 DEF WellPacked, Fits
<1> HIDE DEF none
<1>3. \E f : Packing(f)
  <2> DEFINE P == Packs(sizes)
             st == [i \in 1..n |-> [x \in P |-> PackNext(sizes, max, x, i)]]
  <2>1. ASSUME NEW i \in 1..n, NEW x \in P PROVE PackNext(sizes, max, x, i) \in P
    <3>1. i \in 1..Len(sizes) /\ x.closed \in Seq(Seq(1..Len(sizes))) /\ x.open \in Seq(1..Len(sizes))
          /\ x = [closed |-> x.closed, open |-> x.open]
      BY <2>1 DEF Packs
    <3>2. Append(x.closed, x.open) \in Seq(Seq(1..Len(sizes))) /\ <<i>> \in Seq(1..Len(sizes))
          /\ Append(x.open, i) \in Seq(1..Len(sizes))
      BY <3>1
    <3>3. [closed |-> Append(x.closed, x.open), open |-> <<i>>] \in P
      BY <3>2 DEF Packs
    <3>4. [x EXCEPT !.open = Append(@, i)] = [closed |-> x.closed, open |-> Append(x.open, i)]
      <4> DEFINE a == Append(x.open, i)
      <4> HIDE DEF a
      <4> DEFINE A == Seq(Seq(1..Len(sizes)))
                 B == Seq(1..Len(sizes))
      <4>1. x \in [closed : A, open : B]
        BY <2>1 DEF P, Packs
      <4> HIDE DEF A, B
      <4>2. [x EXCEPT !.open = a] = [closed |-> x.closed, open |-> a]
        BY <4>1
      <4> QED BY <4>2 DEF a
    <3>5. [x EXCEPT !.open = Append(@, i)] \in P
      BY <3>1, <3>2, <3>4 DEF Packs
    <3> QED BY <3>3, <3>5 DEF PackNext
  <2> HIDE DEF P
  <2>2. st \in [1..n -> [P -> P]] /\ \A i \in 1..n : \A x \in P : st[i][x] = PackNext(sizes, max, x, i)
    BY <2>1
  <2> HIDE DEF st
  <2>3. none \in P
    BY <1>2 DEF P
  <2>4. \E f \in [0..n -> P] : Follows(f, n, none, st)
    BY <1>1, <2>2, <2>3, Recursion
  <2>5. PICK f \in [0..n -> P] : f[0] = none /\ \A i \in 1..n : f[i] = st[i][f[i - 1]]
    BY <2>4 DEF Follows
  <2>6. ASSUME NEW i \in 1..n PROVE f[i] = PackNext(sizes, max, f[i - 1], i)
    <3>1. i - 1 \in 0..n
      BY <1>1
    <3>2. f[i - 1] \in P
      BY <2>5, <3>1
    <3> QED BY <2>2, <2>5, <3>2
  <2>7. \A i \in 0..n : i # 0 => i \in 1..n
    BY <1>1
  <2>8. f = [i \in 0..n |-> IF i = 0 THEN none ELSE PackNext(sizes, max, f[i - 1], i)]
    BY <2>5, <2>6, <2>7
  <2> QED BY <2>8
<1>4. Packing(F)
  <2> HIDE DEF Packing
  <2> QED BY <1>3, Zenon
<1>5. Packed(sizes, max) = F[n]
  BY DEF Packed, PackNext, none
<1> HIDE DEF F
<1>6. \A i \in Nat : i \in 0..n => WellPacked(sizes, max, F[i], i)
  <2> DEFINE T == {i \in Nat : i \in 0..n => WellPacked(sizes, max, F[i], i)}
  <2>1. 0 \in T
    <3>1. F[0] = none
      BY <1>1, <1>4
    <3> QED BY <1>2, <3>1
  <2>2. ASSUME NEW i \in Nat, i \in T PROVE i + 1 \in T
    <3> SUFFICES ASSUME i + 1 \in 0..n PROVE WellPacked(sizes, max, F[i + 1], i + 1)
      OBVIOUS
    <3>1. i \in 0..n /\ i + 1 \in 1..Len(sizes) /\ (i + 1) - 1 = i /\ i + 1 # 0
      BY <1>1
    <3>2. WellPacked(sizes, max, F[i], i)
      BY <2>2, <3>1
    <3>3. F[i + 1] = PackNext(sizes, max, F[i], i + 1)
      BY <1>4, <3>1
    <3>4. WellPacked(sizes, max, F[i], (i + 1) - 1)
      BY <3>1, <3>2
    <3>5. WellPacked(sizes, max, PackNext(sizes, max, F[i], i + 1), i + 1)
      BY <3>1, <3>4, PackStep
    <3> QED BY <3>3, <3>5
  <2> HIDE DEF T
  <2>3. Nat \subseteq T
    BY <2>1, <2>2, Induct
  <2> QED BY <2>3 DEF T
<1>7. n \in 0..n
  BY <1>1
<1> QED BY <1>1, <1>5, <1>6, <1>7

\* chunkByTokenBudget loses, repeats and reorders nothing, and keeps the budget.
LEMMA ChunksWhole ==
  ASSUME NEW sizes \in Seq(Nat), NEW max \in Nat
  PROVE  /\ ChunkByTokenBudget(sizes, max) \in Seq(Seq(1..Len(sizes)))
         /\ FlattenSeq(ChunkByTokenBudget(sizes, max)) = Everything(sizes)
         /\ \A j \in 1..Len(ChunkByTokenBudget(sizes, max)) :
               Fits(sizes, max, ChunkByTokenBudget(sizes, max)[j])
<1> DEFINE D == 1..Len(sizes)
           so == Packed(sizes, max)
<1>1. WellPacked(sizes, max, so, Len(sizes))
  BY PackedIsWell
<1>2. so.closed \in Seq(Seq(D)) /\ so.open \in Seq(D)
  BY <1>1 DEF WellPacked, Packs
<1>3. FlattenSeq(so.closed) \o so.open = Everything(sizes)
  BY <1>1 DEF WellPacked, Everything
<1>4. /\ \A j \in 1..Len(so.closed) : Fits(sizes, max, so.closed[j])
      /\ Fits(sizes, max, so.open)
  BY <1>1 DEF WellPacked
<1>5. ChunkByTokenBudget(sizes, max) = IF so.open = << >> THEN so.closed ELSE Append(so.closed, so.open)
  BY DEF ChunkByTokenBudget
<1> HIDE DEF so
<1>6. FlattenSeq(so.closed) \in Seq(D)
      /\ FlattenSeq(Append(so.closed, so.open)) = FlattenSeq(so.closed) \o so.open
  <2> HIDE DEF D
  <2> QED BY <1>2, FlattenAppend
<1>7. CASE so.open = << >>
  <2>1. FlattenSeq(so.closed) \o so.open = FlattenSeq(so.closed)
    <3> HIDE DEF D
    <3> QED BY <1>6, <1>7, ConcatEmptySeq
  <2> QED BY <1>2, <1>3, <1>4, <1>5, <1>7, <2>1
<1>8. CASE so.open # << >>
  <2> DEFINE q == Append(so.closed, so.open)
  <2>1. q \in Seq(Seq(D)) /\ Len(q) = Len(so.closed) + 1 /\ Len(so.closed) \in Nat
        /\ q[Len(so.closed) + 1] = so.open /\ \A j \in 1..Len(so.closed) : q[j] = so.closed[j]
    BY <1>2, AppendProperties
  <2>2. ChunkByTokenBudget(sizes, max) = q
    BY <1>5, <1>8
  <2>3. FlattenSeq(q) = Everything(sizes)
    BY <1>3, <1>6
  <2> HIDE DEF q
  <2>4. ASSUME NEW j \in 1..Len(q) PROVE Fits(sizes, max, q[j])
    <3>1. j = Len(so.closed) + 1 \/ j \in 1..Len(so.closed)
      BY <2>1
    <3> QED BY <1>4, <2>1, <3>1
  <2> QED BY <2>1, <2>2, <2>3, <2>4
<1> QED BY <1>7, <1>8

PassSteps == {"idle", "mapping", "merging", "done", "failed"}
Passes == [step : PassSteps, kind : PassKinds, sizes : Seq(Nat), chunks : Seq(Seq(Nat)), text : Seq(Nat)]

\* The chunks of a pass hold its events, each once and in order, within the budget.
WellChunked(p) ==
    /\ FlattenSeq(p.chunks) = Everything(p.sizes)
    /\ \A j \in 1..Len(p.chunks) : Fits(p.sizes, ChunkTokens, p.chunks[j]) \/ Small(p.sizes)

\* Before a pass nothing has moved.
Untouched(p, hs, nx, ab, rs, cs) ==
    p = NoPass /\ hs = [h \in Hands |-> Left] /\ nx = 1 /\ ~ab /\ rs = << >> /\ cs = 0

\* While the chunks are mapped each one taken is answered or in a worker's hands,
\* a worker leaves only when none is left, and each one taken is one call.
AtWork(p, hs, nx, ab, rs, cs) ==
    /\ ~ab /\ rs \in Seq(Seq(Nat)) /\ Len(rs) = Len(p.chunks)
    /\ \A i \in 1..Len(p.chunks) : i < nx => rs[i] = p.chunks[i] \/ \E h \in Hands : hs[h] = i
    /\ \A h \in Hands : hs[h] \in {Unclaimed, Left} \union (1..Len(p.chunks))
    /\ hs[1] = Left => nx > Len(p.chunks)
    /\ cs = IF nx > Len(p.chunks) THEN Len(p.chunks) ELSE nx - 1
    /\ ~(p.kind = "memory" /\ Small(p.sizes))

\* A merge has every answer, no worker is left, and the calls are accounted for.
Gathered(p, hs, ab, rs, cs) ==
    /\ ~ab /\ rs = p.chunks /\ hs = [h \in Hands |-> Left]
    /\ cs = IF p.kind = "memory" /\ Small(p.sizes) THEN 1 ELSE Len(p.chunks) + 1

PoolGood(p, hs, nx, ab, rs, cs) ==
    /\ p \in Passes /\ hs \in [Hands -> Int] /\ nx \in Nat \ {0} /\ ab \in BOOLEAN /\ cs \in Nat
    /\ p.step = "idle" => Untouched(p, hs, nx, ab, rs, cs)
    /\ p.step # "idle" => WellChunked(p)
    /\ p.step = "mapping" => AtWork(p, hs, nx, ab, rs, cs)
    /\ p.step \in {"merging", "done"} => Gathered(p, hs, ab, rs, cs)
    /\ p.step = "done" => p.text = Everything(p.sizes)
    /\ ab => p.step = "failed" /\ \E h \in Hands : hs[h] = Threw
    /\ p.step = "failed" /\ ~ab => hs = [h \in Hands |-> Left]

PoolInv == PoolGood(pass, hands, nextItem, aborted, results, calls) /\ late = 0

LEMMA SizesAreTokens == \A sizes \in BoundedSeq(Sizes, MaxEvents) : sizes \in Seq(Nat)
<1> SUFFICES ASSUME NEW sizes \in BoundedSeq(Sizes, MaxEvents) PROVE sizes \in Seq(Nat)
  OBVIOUS
<1>1. PICK m \in 0..MaxEvents : sizes \in [1..m -> Sizes]
  BY DEF BoundedSeq, SeqOf
<1>2. m \in Nat /\ \A i \in 1..m : sizes[i] \in Nat
  <2>1. Sizes \subseteq Nat /\ MaxEvents \in Nat
    BY PoolConstants
  <2>2. m \in Nat
    BY <2>1
  <2>3. \A i \in 1..m : sizes[i] \in Sizes
    BY <1>1
  <2> QED BY <2>1, <2>2, <2>3
<1>3. sizes \in [1..m -> Nat]
  BY <1>1, <1>2
<1> QED BY <1>2, <1>3

LEMMA OneChunk ==
  ASSUME NEW sizes \in Seq(Nat)
  PROVE  /\ Everything(sizes) \in Seq(1..Len(sizes))
         /\ Everything(sizes) \in Seq(Nat)
         /\ FlattenSeq(<<Everything(sizes)>>) = Everything(sizes)
<1> DEFINE e == Everything(sizes)
           n == Len(sizes)
<1>1. n \in Nat
  OBVIOUS
<1>2. e \in [1..n -> 1..n]
  BY <1>1 DEF Everything
<1>3. e \in Seq(1..n) /\ e \in Seq(Nat)
  BY <1>1, <1>2, SMTT(60)
<1> HIDE DEF e
<1>4. FlattenSeq(<<e>>) = e
  <2> DEFINE none == << >>
  <2>1. none \in Seq(Seq(Nat)) /\ Append(none, e) = <<e>>
    BY <1>3
  <2>2. FlattenSeq(Append(none, e)) = FlattenSeq(none) \o e /\ FlattenSeq(<< >>) = << >>
    <3> HIDE DEF none
    <3> QED BY <1>3, <2>1, FlattenAppend
  <2>3. << >> \o e = e
    BY <1>3, ConcatEmptySeq
  <2> QED BY <2>1, <2>2, <2>3
<1> QED BY <1>3, <1>4 DEF e

\* What the chunks of a pass are, packed or single.
LEMMA ChunkedWell ==
  ASSUME NEW sizes \in Seq(Nat), NEW chunks,
         \/ chunks = ChunkByTokenBudget(sizes, ChunkTokens)
         \/ Small(sizes) /\ chunks = <<Everything(sizes)>>
  PROVE  /\ chunks \in Seq(Seq(Nat))
         /\ FlattenSeq(chunks) = Everything(sizes)
         /\ \A j \in 1..Len(chunks) : Fits(sizes, ChunkTokens, chunks[j]) \/ Small(sizes)
<1>1. CASE chunks = ChunkByTokenBudget(sizes, ChunkTokens)
  <2>1. ChunkTokens \in Nat
    BY PoolConstants
  <2>2. chunks \in Seq(Seq(1..Len(sizes)))
    BY <1>1, <2>1, ChunksWhole
  <2>3. \A s : s \in Seq(1..Len(sizes)) => s \in Seq(Nat)
    OBVIOUS
  <2>4. chunks \in Seq(Seq(Nat))
    <3> DEFINE A == Seq(1..Len(sizes))
               B == Seq(Nat)
    <3>1. chunks \in Seq(A) /\ \A s : s \in A => s \in B
      BY <2>2, <2>3
    <3> HIDE DEF A, B
    <3> QED BY <3>1 DEF B
  <2> QED BY <1>1, <2>1, <2>4, ChunksWhole
<1>2. CASE Small(sizes) /\ chunks = <<Everything(sizes)>>
  BY <1>2, OneChunk
<1> QED BY <1>1, <1>2

LEMMA MaxOfTwo ==
  ASSUME NEW n \in Nat
  PROVE  Max({1, n}) \in Nat /\ Max({1, n}) >= 1
<1> DEFINE top == IF n > 1 THEN n ELSE 1
<1>1. top \in {1, n} /\ \A y \in {1, n} : top >= y
  OBVIOUS
<1>2. Max({1, n}) \in {1, n} /\ \A y \in {1, n} : Max({1, n}) >= y
  <2> HIDE DEF top
  <2> QED BY <1>1 DEF Max
<1> QED BY <1>2

-----------------------------------------------------------------------------
\* The steps of a pass.
LEMMA PoolStarts == PoolInit => PoolInv
<1> SUFFICES ASSUME PoolInit PROVE PoolInv
  OBVIOUS
<1>1. NoPass \in Passes
  BY DEF NoPass, Passes, PassSteps, PassKinds
<1>2. hands \in [Hands -> Int] /\ hands = [h \in Hands |-> Left]
  BY DEF PoolInit, Left
<1>3. NoPass.step = "idle"
  BY DEF NoPass
<1>4. pass = NoPass /\ nextItem = 1 /\ aborted = FALSE /\ results = << >> /\ calls = 0 /\ late = 0
  BY DEF PoolInit
<1>5. Untouched(pass, hands, nextItem, aborted, results, calls)
  BY <1>2, <1>4 DEF Untouched
<1>6. PoolGood(pass, hands, nextItem, aborted, results, calls)
  <2> DEFINE p == pass
  <2>1. p \in Passes /\ p.step = "idle" /\ Untouched(p, hands, nextItem, aborted, results, calls)
    BY <1>1, <1>3, <1>4, <1>5
  <2>2. hands \in [Hands -> Int] /\ nextItem \in Nat \ {0} /\ aborted \in BOOLEAN /\ calls \in Nat /\ ~aborted
    <3>1. aborted \in BOOLEAN /\ ~aborted
      BY <1>4
    <3>2. nextItem \in Nat \ {0} /\ calls \in Nat
      BY <1>4
    <3> QED BY <1>2, <3>1, <3>2
  <2> HIDE DEF p
  <2>3. PoolGood(p, hands, nextItem, aborted, results, calls)
    BY <2>1, <2>2 DEF PoolGood
  <2> QED BY <2>3 DEF p
<1> QED BY <1>4, <1>6 DEF PoolInv

LEMMA MapStarts ==
  ASSUME NEW kind \in PassKinds, NEW sizes \in Seq(Nat), NEW chunks, PoolInv, pass.step = "idle",
         StartMap(kind, sizes, chunks),
         \/ chunks = ChunkByTokenBudget(sizes, ChunkTokens)
         \/ Small(sizes) /\ chunks = <<Everything(sizes)>>,
         ~(kind = "memory" /\ Small(sizes))
  PROVE  PoolInv'
<1>1. Untouched(pass, hands, nextItem, aborted, results, calls) /\ late = 0
  BY DEF PoolInv, PoolGood
<1> DEFINE p == pass'
           n == Len(chunks)
<1>2. /\ chunks \in Seq(Seq(Nat)) /\ n \in Nat
      /\ FlattenSeq(chunks) = Everything(sizes)
      /\ \A j \in 1..n : Fits(sizes, ChunkTokens, chunks[j]) \/ Small(sizes)
  BY ChunkedWell
<1>3. p = [step |-> "mapping", kind |-> kind, sizes |-> sizes, chunks |-> chunks, text |-> << >>]
  BY DEF StartMap, NoPass
<1>4. p \in Passes /\ p.step = "mapping" /\ p.kind = kind /\ p.sizes = sizes /\ p.chunks = chunks
  BY <1>2, <1>3 DEF Passes, PassSteps
<1>5. /\ hands' = [h \in Hands |-> IF h <= Max({1, n}) THEN Unclaimed ELSE Left]
      /\ results' = [i \in 1..n |-> Missing]
      /\ nextItem' = 1 /\ ~aborted' /\ calls' = 0 /\ late' = 0 /\ aborted' \in BOOLEAN
  BY <1>1 DEF StartMap, Untouched, PoolInv, PoolGood
<1> HIDE DEF p
<1>6. WellChunked(p)
  BY <1>2, <1>4 DEF WellChunked
<1>7. 1 \in Hands /\ Hands \subseteq Nat
  BY PoolConstants DEF Hands
<1>8. Max({1, n}) \in Nat /\ Max({1, n}) >= 1
  BY <1>2, MaxOfTwo
<1>9. hands' \in [Hands -> Int] /\ (\A h \in Hands : hands'[h] \in {Unclaimed, Left}) /\ hands'[1] # Left
  BY <1>5, <1>7, <1>8 DEF Unclaimed, Left
<1>10. results' \in Seq(Seq(Nat)) /\ Len(results') = n
  BY <1>2, <1>5 DEF Missing
<1>11. AtWork(p, hands', nextItem', aborted', results', calls')
  BY <1>2, <1>4, <1>5, <1>9, <1>10 DEF AtWork
<1>12. PoolGood(p, hands', nextItem', aborted', results', calls')
  <2>1. nextItem' \in Nat \ {0} /\ calls' \in Nat
    BY <1>5
  <2> QED BY <1>4, <1>5, <1>6, <1>9, <1>11, <2>1 DEF PoolGood
<1> QED BY <1>5, <1>12 DEF PoolInv, p

LEMMA PassStarts ==
  ASSUME NEW sizes \in Seq(Nat), PoolInv,
         OrganizeMemory(sizes) \/ OrganizeFacts(sizes) \/ OrganizePreferences(sizes)
  PROVE  PoolInv'
<1>1. CASE OrganizeMemory(sizes) /\ Small(sizes)
  <2>1. Untouched(pass, hands, nextItem, aborted, results, calls) /\ late = 0
    BY <1>1 DEF PoolInv, PoolGood, OrganizeMemory
  <2> DEFINE p == pass'
             e == <<Everything(sizes)>>
  <2>2. p = [step |-> "merging", kind |-> "memory", sizes |-> sizes, chunks |-> e, text |-> << >>]
        /\ results' = e /\ calls' = 1 /\ hands' = hands /\ nextItem' = nextItem /\ aborted' = aborted /\ late' = late
    BY <1>1 DEF OrganizeMemory, NoPass
  <2>3. /\ e \in Seq(Seq(Nat)) /\ FlattenSeq(e) = Everything(sizes)
        /\ \A j \in 1..Len(e) : Fits(sizes, ChunkTokens, e[j]) \/ Small(sizes)
    BY <1>1, ChunkedWell
  <2> HIDE DEF e
  <2>4. p \in Passes /\ p.step = "merging" /\ p.kind = "memory" /\ p.sizes = sizes /\ p.chunks = e
    BY <2>2, <2>3 DEF Passes, PassSteps, PassKinds
  <2>5. results' = p.chunks /\ calls' = 1 /\ ~aborted' /\ aborted' \in BOOLEAN /\ late' = 0 /\ nextItem' = 1
        /\ hands' = [h \in Hands |-> Left] /\ hands' \in [Hands -> Int]
    BY <2>1, <2>2, <2>4 DEF Untouched, PoolInv, PoolGood
  <2> HIDE DEF p
  <2>6. WellChunked(p) /\ Gathered(p, hands', aborted', results', calls')
    BY <1>1, <2>3, <2>4, <2>5 DEF WellChunked, Gathered
  <2>7. PoolGood(p, hands', nextItem', aborted', results', calls')
    BY <2>4, <2>5, <2>6 DEF PoolGood
  <2> QED BY <2>5, <2>7 DEF PoolInv, p
<1>2. CASE OrganizeMemory(sizes) /\ ~Small(sizes)
  <2>1. StartMap("memory", sizes, ChunkByTokenBudget(sizes, ChunkTokens)) /\ pass.step = "idle"
    BY <1>2 DEF OrganizeMemory
  <2>2. "memory" \in PassKinds
    BY DEF PassKinds
  <2> QED BY <1>2, <2>1, <2>2, MapStarts
<1>3. CASE OrganizeFacts(sizes) \/ OrganizePreferences(sizes)
  <2> DEFINE chunks == IF Small(sizes) THEN <<Everything(sizes)>> ELSE ChunkByTokenBudget(sizes, ChunkTokens)
  <2>1. PICK kind \in {"facts", "preferences"} : StartMap(kind, sizes, chunks) /\ pass.step = "idle"
    BY <1>3 DEF OrganizeFacts, OrganizePreferences
  <2>2. kind \in PassKinds /\ kind # "memory"
    BY DEF PassKinds
  <2>3. \/ chunks = ChunkByTokenBudget(sizes, ChunkTokens)
        \/ Small(sizes) /\ chunks = <<Everything(sizes)>>
    OBVIOUS
  <2> HIDE DEF chunks
  <2> QED BY <2>1, <2>2, <2>3, MapStarts
<1> QED BY <1>1, <1>2, <1>3

LEMMA ItemClaimed ==
  ASSUME NEW h \in Hands, PoolInv, ClaimItem(h)
  PROVE  PoolInv'
<1>1. /\ pass \in Passes /\ hands \in [Hands -> Int] /\ nextItem \in Nat \ {0} /\ aborted \in BOOLEAN
      /\ calls \in Nat /\ late = 0 /\ (pass.step # "idle" => WellChunked(pass))
      /\ 1 \in Hands /\ Hands \subseteq Nat
  BY PoolConstants DEF PoolInv, PoolGood, Hands
<1>2. pass' = pass /\ aborted' = aborted /\ results' = results /\ hands[h] = Unclaimed
      /\ pass.step \in {"mapping", "failed"}
  BY DEF ClaimItem
<1>3. CASE aborted
  <2>1. hands' = [hands EXCEPT ![h] = Left] /\ nextItem' = nextItem /\ calls' = calls /\ late' = late
    BY <1>3 DEF ClaimItem
  <2>2. PICK t \in Hands : hands[t] = Threw
    BY <1>3 DEF PoolInv, PoolGood
  <2>3. t # h
    BY <1>2, <2>2 DEF Unclaimed, Threw
  <2>4. hands'[t] = Threw /\ hands' \in [Hands -> Int]
    BY <1>1, <2>1, <2>2, <2>3 DEF Left
  <2>5. pass.step = "failed"
    BY <1>3 DEF PoolInv, PoolGood
  <2>6. PoolGood(pass, hands', nextItem, aborted, results, calls)
    BY <1>1, <1>3, <2>4, <2>5 DEF PoolGood
  <2> QED BY <1>1, <1>2, <2>1, <2>6 DEF PoolInv
<1>4. CASE ~aborted
  <2>1. pass.step = "mapping"
    <3>1. pass.step = "failed" => hands = [g \in Hands |-> Left]
      BY <1>4 DEF PoolInv, PoolGood
    <3>2. pass.step = "failed" => hands[h] = Left
      BY <3>1
    <3> QED BY <1>2, <3>2 DEF Left, Unclaimed
  <2>2. AtWork(pass, hands, nextItem, aborted, results, calls)
    BY <2>1 DEF PoolInv, PoolGood
  <2> DEFINE n == Len(pass.chunks)
  <2>3. n \in Nat
    BY <1>1 DEF Passes
  <2> HIDE DEF n
  <2>4. CASE nextItem > n
    <3>1. hands' = [hands EXCEPT ![h] = Left] /\ nextItem' = nextItem + 1 /\ calls' = calls /\ late' = late
      BY <1>4, <2>4 DEF ClaimItem, n
    <3>2. hands' \in [Hands -> Int] /\ (\A g \in Hands : hands'[g] = hands[g] \/ hands'[g] = Left)
          /\ \A g \in Hands : hands[g] # Unclaimed => hands'[g] = hands[g]
      BY <1>1, <1>2, <3>1 DEF Left
    <3>3. nextItem' \in Nat \ {0} /\ nextItem' > n
      BY <1>1, <2>3, <2>4, <3>1
    <3>4. \A i \in 1..n : results[i] = pass.chunks[i] \/ \E g \in Hands : hands'[g] = i
      <4> TAKE i \in 1..n
      <4>1. i < nextItem
        BY <1>1, <2>3, <2>4
      <4>2. results[i] = pass.chunks[i] \/ \E g \in Hands : hands[g] = i
        BY <2>2, <4>1 DEF AtWork, n
      <4> QED BY <2>3, <3>2, <4>2 DEF Unclaimed
    <3>5. \A g \in Hands : hands'[g] \in {Unclaimed, Left} \union (1..n)
      BY <2>2, <3>2 DEF AtWork, n
    <3>6. calls = n
      BY <2>2, <2>4 DEF AtWork, n
    <3>7. AtWork(pass, hands', nextItem', aborted, results, calls)
      BY <2>2, <3>3, <3>4, <3>5, <3>6 DEF AtWork, n
    <3>8. PoolGood(pass, hands', nextItem', aborted, results, calls)
      BY <1>1, <1>4, <2>1, <3>2, <3>3, <3>7 DEF PoolGood
    <3> QED BY <1>1, <1>2, <3>1, <3>8 DEF PoolInv
  <2>5. CASE ~(nextItem > n)
    <3>1. hands' = [hands EXCEPT ![h] = nextItem] /\ nextItem' = nextItem + 1 /\ calls' = calls + 1 /\ late' = late
      BY <1>4, <2>5 DEF ClaimItem, n
    <3>2. hands' \in [Hands -> Int] /\ hands'[h] = nextItem /\ \A g \in Hands : g # h => hands'[g] = hands[g]
      BY <1>1, <3>1
    <3>3. nextItem' \in Nat \ {0} /\ nextItem \in 1..n /\ calls' \in Nat /\ calls = nextItem - 1
          /\ calls' = IF nextItem' > n THEN n ELSE nextItem' - 1
      BY <1>1, <2>2, <2>3, <2>5, <3>1 DEF AtWork, n
    <3>4. \A i \in 1..n : i < nextItem' => results[i] = pass.chunks[i] \/ \E g \in Hands : hands'[g] = i
      <4> SUFFICES ASSUME NEW i \in 1..n, i < nextItem'
                   PROVE  results[i] = pass.chunks[i] \/ \E g \in Hands : hands'[g] = i
        OBVIOUS
      <4>1. CASE i = nextItem
        BY <3>2, <4>1
      <4>2. CASE i < nextItem
        <5>1. results[i] = pass.chunks[i] \/ \E g \in Hands : hands[g] = i
          BY <2>2, <4>2 DEF AtWork, n
        <5>2. \A g \in Hands : hands[g] = i => g # h
          BY <1>2, <2>3 DEF Unclaimed
        <5> QED BY <3>2, <5>1, <5>2
      <4> QED BY <1>1, <2>3, <3>1, <4>1, <4>2
    <3>5. \A g \in Hands : hands'[g] \in {Unclaimed, Left} \union (1..n)
      BY <2>2, <3>2, <3>3 DEF AtWork, n
    <3>6. hands'[1] = Left => nextItem' > n
      <4>1. hands'[1] = Left => hands[1] = Left
        BY <1>1, <3>2, <3>3 DEF Left
      <4>2. hands[1] = Left => nextItem > n
        BY <2>2 DEF AtWork, n
      <4> QED BY <2>5, <4>1, <4>2
    <3>7. AtWork(pass, hands', nextItem', aborted, results, calls')
      BY <2>2, <3>3, <3>4, <3>5, <3>6 DEF AtWork, n
    <3>8. PoolGood(pass, hands', nextItem', aborted, results, calls')
      BY <1>1, <1>4, <2>1, <3>2, <3>3, <3>7 DEF PoolGood
    <3> QED BY <1>1, <1>2, <3>1, <3>8 DEF PoolInv
  <2> QED BY <2>4, <2>5
<1> QED BY <1>1, <1>3, <1>4

\* Hands that hold a chunk exist only while it is mapped, or after a failure.
LEMMA InHand ==
  ASSUME NEW h \in Hands, PoolInv, hands[h] > 0
  PROVE  pass.step = "mapping" \/ (pass.step = "failed" /\ aborted)
<1>1. pass \in Passes /\ 1 \in Hands
  BY PoolConstants DEF PoolInv, PoolGood, Hands
<1>2. pass.step \in PassSteps
  BY <1>1 DEF Passes
<1>3. hands # [g \in Hands |-> Left]
  BY DEF Left
<1>4. pass.step \notin {"idle", "merging", "done"}
  BY <1>3 DEF PoolInv, PoolGood, Untouched, Gathered
<1> QED BY <1>2, <1>3, <1>4 DEF PoolInv, PoolGood, PassSteps

LEMMA Answered ==
  ASSUME NEW h \in Hands, PoolInv, SegmentAnswered(h)
  PROVE  PoolInv'
<1>1. /\ pass \in Passes /\ hands \in [Hands -> Int] /\ nextItem \in Nat \ {0} /\ aborted \in BOOLEAN
      /\ calls \in Nat /\ late = 0 /\ (pass.step # "idle" => WellChunked(pass))
      /\ 1 \in Hands /\ Hands \subseteq Nat
  BY PoolConstants DEF PoolInv, PoolGood, Hands
<1>2. /\ hands[h] > 0 /\ results' = [results EXCEPT ![hands[h]] = pass.chunks[hands[h]]]
      /\ hands' = [hands EXCEPT ![h] = Unclaimed]
      /\ pass' = pass /\ nextItem' = nextItem /\ aborted' = aborted /\ calls' = calls /\ late' = late
  BY DEF SegmentAnswered
<1>3. hands' \in [Hands -> Int] /\ hands'[h] = Unclaimed /\ \A g \in Hands : g # h => hands'[g] = hands[g]
  BY <1>1, <1>2 DEF Unclaimed
<1>4. CASE pass.step = "mapping"
  <2>1. AtWork(pass, hands, nextItem, aborted, results, calls)
    BY <1>4 DEF PoolInv, PoolGood
  <2> DEFINE n == Len(pass.chunks)
             k == hands[h]
  <2>2. n \in Nat /\ pass.chunks \in Seq(Seq(Nat)) /\ k \in 1..n
    <3>1. n \in Nat /\ pass.chunks \in Seq(Seq(Nat))
      BY <1>1 DEF Passes
    <3>2. k \in {Unclaimed, Left} \union (1..n) /\ k > 0
      BY <1>2, <2>1 DEF AtWork
    <3> QED BY <3>1, <3>2 DEF Unclaimed, Left
  <2>3. results \in Seq(Seq(Nat)) /\ Len(results) = n
    BY <2>1 DEF AtWork
  <2>4. results' = [results EXCEPT ![k] = pass.chunks[k]]
    BY <1>2
  <2> HIDE DEF n, k
  <2>5. pass.chunks[k] \in Seq(Nat)
    BY <2>2 DEF n
  <2>6. results' \in Seq(Seq(Nat)) /\ Len(results') = n /\ results'[k] = pass.chunks[k]
        /\ \A i \in 1..n : i # k => results'[i] = results[i]
    <3> DEFINE S == Seq(Nat)
               c == pass.chunks[k]
    <3>1. results \in Seq(S) /\ c \in S /\ results' = [results EXCEPT ![k] = c]
      BY <2>3, <2>4, <2>5
    <3> HIDE DEF S, c
    <3>2. results' \in Seq(S) /\ Len(results') = n /\ results'[k] = c /\ \A i \in 1..n : i # k => results'[i] = results[i]
      BY <2>2, <2>3, <3>1
    <3> QED BY <3>2 DEF S, c
  <2>7. \A i \in 1..n : i < nextItem => results'[i] = pass.chunks[i] \/ \E g \in Hands : hands'[g] = i
    <3> SUFFICES ASSUME NEW i \in 1..n, i < nextItem
                 PROVE  results'[i] = pass.chunks[i] \/ \E g \in Hands : hands'[g] = i
      OBVIOUS
    <3>1. results[i] = pass.chunks[i] \/ \E g \in Hands : hands[g] = i
      BY <2>1 DEF AtWork, n
    <3> QED BY <1>3, <2>6, <3>1 DEF k
  <2>8. \A g \in Hands : hands'[g] \in {Unclaimed, Left} \union (1..n)
    BY <1>3, <2>1 DEF AtWork, n
  <2>9. hands'[1] = Left => nextItem > n
    <3>1. hands'[1] = Left => hands[1] = Left
      BY <1>1, <1>3 DEF Left, Unclaimed
    <3> QED BY <2>1, <3>1 DEF AtWork, n
  <2>10. AtWork(pass, hands', nextItem, aborted, results', calls)
    BY <2>1, <2>6, <2>7, <2>8, <2>9 DEF AtWork, n
  <2>11. PoolGood(pass, hands', nextItem, aborted, results', calls)
    BY <1>1, <1>3, <1>4, <2>1, <2>10 DEF PoolGood, AtWork
  <2> QED BY <1>1, <1>2, <2>11 DEF PoolInv
<1>5. CASE pass.step = "failed" /\ aborted
  <2>1. PICK t \in Hands : hands[t] = Threw
    BY <1>5 DEF PoolInv, PoolGood
  <2>2. t # h
    BY <1>2, <2>1 DEF Threw
  <2>3. hands'[t] = Threw
    BY <1>3, <2>1, <2>2
  <2>4. PoolGood(pass, hands', nextItem, aborted, results', calls)
    BY <1>1, <1>3, <1>5, <2>3 DEF PoolGood
  <2> QED BY <1>1, <1>2, <2>4 DEF PoolInv
<1> QED BY <1>2, <1>4, <1>5, InHand

LEMMA Failed ==
  ASSUME NEW h \in Hands, PoolInv, SegmentFails(h)
  PROVE  PoolInv'
<1>1. /\ pass \in Passes /\ hands \in [Hands -> Int] /\ nextItem \in Nat \ {0} /\ aborted \in BOOLEAN
      /\ calls \in Nat /\ late = 0 /\ (pass.step # "idle" => WellChunked(pass))
  BY DEF PoolInv, PoolGood
<1>2. /\ aborted' /\ aborted' \in BOOLEAN /\ hands' = [hands EXCEPT ![h] = Threw]
      /\ pass' = [pass EXCEPT !.step = "failed"]
      /\ nextItem' = nextItem /\ results' = results /\ calls' = calls /\ late' = late /\ hands[h] > 0
  BY DEF SegmentFails
<1>3. hands' \in [Hands -> Int] /\ hands'[h] = Threw
  BY <1>1, <1>2 DEF Threw
<1>4. WellChunked(pass)
  BY <1>1, <1>2, InHand
<1> DEFINE p == pass'
<1>5. p \in Passes /\ p.step = "failed" /\ p.sizes = pass.sizes /\ p.chunks = pass.chunks
  BY <1>1, <1>2 DEF Passes, PassSteps
<1> HIDE DEF p
<1>6. WellChunked(p)
  BY <1>4, <1>5 DEF WellChunked
<1>7. PoolGood(p, hands', nextItem, aborted', results, calls)
  BY <1>1, <1>2, <1>3, <1>5, <1>6 DEF PoolGood
<1> QED BY <1>1, <1>2, <1>7 DEF PoolInv, p

LEMMA MergeStarts ==
  ASSUME PoolInv, StartMerge
  PROVE  PoolInv'
<1>1. /\ pass \in Passes /\ hands \in [Hands -> Int] /\ nextItem \in Nat \ {0} /\ aborted \in BOOLEAN
      /\ calls \in Nat /\ late = 0 /\ WellChunked(pass) /\ pass.step = "mapping" /\ 1 \in Hands
      /\ AtWork(pass, hands, nextItem, aborted, results, calls)
  BY PoolConstants DEF PoolInv, PoolGood, Hands, StartMerge
<1>2. /\ \A h \in Hands : hands[h] = Left
      /\ pass' = [pass EXCEPT !.step = "merging"] /\ calls' = calls + 1
      /\ hands' = hands /\ nextItem' = nextItem /\ aborted' = aborted /\ results' = results /\ late' = late
  BY DEF StartMerge
<1> DEFINE p == pass'
           n == Len(pass.chunks)
<1>3. p \in Passes /\ p.step = "merging" /\ p.sizes = pass.sizes /\ p.chunks = pass.chunks /\ p.kind = pass.kind
  BY <1>1, <1>2 DEF Passes, PassSteps
<1> HIDE DEF p
<1>4. n \in Nat /\ pass.chunks \in Seq(Seq(Nat)) /\ results \in Seq(Seq(Nat)) /\ Len(results) = n
  BY <1>1 DEF Passes, AtWork
<1>5. nextItem > n /\ calls = n
  BY <1>1, <1>2 DEF AtWork
<1>6. \A i \in 1..n : results[i] = pass.chunks[i]
  <2> TAKE i \in 1..n
  <2>1. i < nextItem
    BY <1>1, <1>4, <1>5
  <2>2. results[i] = pass.chunks[i] \/ \E h \in Hands : hands[h] = i
    BY <1>1, <2>1 DEF AtWork
  <2> QED BY <1>2, <1>4, <2>2 DEF Left
<1>7. results = pass.chunks
  <2> DEFINE S == Seq(Nat)
             c == pass.chunks
  <2>1. c \in Seq(S) /\ results \in Seq(S) /\ Len(results) = Len(c) /\ \A i \in 1..Len(results) : results[i] = c[i]
    BY <1>4, <1>6
  <2> HIDE DEF S, c
  <2>2. results = c
    BY <2>1, SeqEqual
  <2> QED BY <2>2 DEF c
<1>8. hands = [h \in Hands |-> Left]
  BY <1>1, <1>2
<1>9. Gathered(p, hands', aborted', results', calls') /\ WellChunked(p) /\ calls' \in Nat
  BY <1>1, <1>2, <1>3, <1>4, <1>5, <1>7, <1>8 DEF Gathered, WellChunked, AtWork
<1>10. PoolGood(p, hands', nextItem', aborted', results', calls')
  BY <1>1, <1>2, <1>3, <1>9 DEF PoolGood, Gathered
<1> QED BY <1>1, <1>2, <1>10 DEF PoolInv, p

LEMMA MergeEnds ==
  ASSUME PoolInv, Merged
  PROVE  PoolInv'
<1>1. /\ pass \in Passes /\ hands \in [Hands -> Int] /\ nextItem \in Nat \ {0} /\ aborted \in BOOLEAN
      /\ calls \in Nat /\ late = 0 /\ WellChunked(pass) /\ pass.step = "merging"
      /\ Gathered(pass, hands, aborted, results, calls)
  BY DEF PoolInv, PoolGood, Merged
<1>2. hands' = hands /\ nextItem' = nextItem /\ aborted' = aborted /\ results' = results /\ calls' = calls /\ late' = late
  BY DEF Merged
<1> DEFINE p == pass'
<1>3. CASE pass' = [pass EXCEPT !.step = "failed"]
  <2>1. p \in Passes /\ p.step = "failed" /\ p.sizes = pass.sizes /\ p.chunks = pass.chunks
    BY <1>1, <1>3 DEF Passes, PassSteps
  <2> HIDE DEF p
  <2>2. WellChunked(p) /\ ~aborted /\ hands = [h \in Hands |-> Left]
    BY <1>1, <2>1 DEF WellChunked, Gathered
  <2>3. PoolGood(p, hands, nextItem, aborted, results, calls)
    BY <1>1, <2>1, <2>2 DEF PoolGood
  <2> QED BY <1>1, <1>2, <2>3 DEF PoolInv, p
<1>4. CASE pass' = [pass EXCEPT !.step = "done", !.text = FlattenSeq(results)]
  <2> DEFINE text == FlattenSeq(results)
  <2>1. text = Everything(pass.sizes) /\ pass.sizes \in Seq(Nat)
    BY <1>1 DEF Gathered, WellChunked, Passes
  <2>2. text \in Seq(Nat)
    BY <2>1, OneChunk
  <2>3. pass' = [pass EXCEPT !.step = "done", !.text = text]
    BY <1>4
  <2> HIDE DEF text
  <2>4. p \in Passes /\ p.step = "done" /\ p.sizes = pass.sizes /\ p.chunks = pass.chunks /\ p.kind = pass.kind
        /\ p.text = text
    BY <1>1, <2>2, <2>3 DEF Passes, PassSteps
  <2> HIDE DEF p
  <2>5. WellChunked(p) /\ Gathered(p, hands, aborted, results, calls) /\ p.text = Everything(p.sizes)
    BY <1>1, <2>1, <2>4 DEF WellChunked, Gathered
  <2>6. PoolGood(p, hands, nextItem, aborted, results, calls)
    BY <1>1, <2>4, <2>5 DEF PoolGood, Gathered
  <2> QED BY <1>1, <1>2, <2>6 DEF PoolInv, p
<1> QED BY <1>3, <1>4 DEF Merged

LEMMA PoolSteps == PoolInv /\ [PoolNext]_poolVars => PoolInv'
<1> SUFFICES ASSUME PoolInv, [PoolNext]_poolVars PROVE PoolInv'
  OBVIOUS
<1>1. CASE \E sizes \in BoundedSeq(Sizes, MaxEvents) :
              OrganizeMemory(sizes) \/ OrganizeFacts(sizes) \/ OrganizePreferences(sizes)
  BY <1>1, SizesAreTokens, PassStarts
<1>2. CASE \E h \in Hands : ClaimItem(h)
  BY <1>2, ItemClaimed
<1>3. CASE \E h \in Hands : SegmentAnswered(h)
  BY <1>3, Answered
<1>4. CASE \E h \in Hands : SegmentFails(h)
  BY <1>4, Failed
<1>5. CASE StartMerge
  BY <1>5, MergeStarts
<1>6. CASE Merged
  BY <1>6, MergeEnds
<1>7. CASE UNCHANGED poolVars
  BY <1>7 DEF poolVars, PoolInv
<1> QED BY <1>1, <1>2, <1>3, <1>4, <1>5, <1>6, <1>7 DEF PoolNext

LEMMA PoolIsSound == PoolInv => MergedWhole /\ FailsFast
<1> SUFFICES ASSUME PoolInv PROVE MergedWhole /\ FailsFast
  OBVIOUS
<1>1. MergedWhole
  <2> SUFFICES ASSUME pass.step = "done" PROVE MergedWhole
    BY DEF MergedWhole
  <2>1. WellChunked(pass) /\ Gathered(pass, hands, aborted, results, calls) /\ pass.text = Everything(pass.sizes)
    BY DEF PoolInv, PoolGood
  <2> QED BY <2>1 DEF MergedWhole, WellChunked, Gathered, Fits
<1>2. FailsFast
  <2> SUFFICES ASSUME aborted PROVE FailsFast
    BY DEF FailsFast
  <2>1. PICK t \in Hands : hands[t] = Threw
    BY DEF PoolInv, PoolGood
  <2> DEFINE busy == {h \in Hands : hands[h] > 0}
  <2>2. IsFiniteSet(Hands) /\ Cardinality(Hands) = MapConcurrency
    <3>1. MapConcurrency \in Nat \ {0}
      BY PoolConstants
    <3> QED BY <3>1, FS_Interval DEF Hands
  <2>3. IsFiniteSet(Hands \ {t}) /\ Cardinality(Hands \ {t}) = MapConcurrency - 1
    BY <2>1, <2>2, FS_RemoveElement
  <2>4. busy \subseteq Hands \ {t}
    BY <2>1 DEF Threw
  <2>5. Cardinality(busy) <= Cardinality(Hands \ {t})
    <3> HIDE DEF busy
    <3> QED BY <2>3, <2>4, FS_Subset
  <2>6. late = 0 /\ pass.step = "failed"
    BY DEF PoolInv, PoolGood
  <2> QED BY <2>3, <2>5, <2>6 DEF FailsFast
<1> QED BY <1>1, <1>2

-----------------------------------------------------------------------------
(* A call through an OpenAI-compatible endpoint.                           *)

\* The marks of one more line.
LEMMA MarksGrow ==
  ASSUME NEW lines, NEW channel, NEW k \in Nat
  PROVE  /\ Marks(lines, 0, channel) = << >>
         /\ Marks(lines, k, channel) \in Seq(Nat)
         /\ Marks(lines, k + 1, channel) =
              IF Carries(lines[k + 1])[channel] THEN Append(Marks(lines, k, channel), k + 1)
              ELSE Marks(lines, k, channel)
<1> DEFINE Told(i) == Carries(lines[i])[channel]
           Marking(n, h) == h = [i \in 0..n |-> IF i = 0 THEN << >>
                                               ELSE IF Told(i) THEN Append(h[i - 1], i) ELSE h[i - 1]]
           F(n) == CHOOSE h : Marking(n, h)
<1>1. ASSUME NEW n \in Nat PROVE \E f \in [0..n -> Seq(Nat)] : Marking(n, f)
  <2> DEFINE S == Seq(Nat)
             g == [i \in 1..n |-> [x \in S |-> IF Told(i) THEN Append(x, i) ELSE x]]
  <2> HIDE DEF Told
  <2>1. \A i \in 1..n : \A x \in S : (IF Told(i) THEN Append(x, i) ELSE x) \in S
    OBVIOUS
  <2>2. << >> \in S
    OBVIOUS
  <2> HIDE DEF S
  <2>3. g \in [1..n -> [S -> S]] /\ \A i \in 1..n : \A x \in S : g[i][x] = IF Told(i) THEN Append(x, i) ELSE x
    BY <2>1
  <2> HIDE DEF g
  <2>4. \E f \in [0..n -> S] : Follows(f, n, << >>, g)
    BY <2>2, <2>3, Recursion
  <2>5. PICK f \in [0..n -> S] : f[0] = << >> /\ \A i \in 1..n : f[i] = g[i][f[i - 1]]
    BY <2>4 DEF Follows
  <2>6. ASSUME NEW i \in 1..n PROVE f[i] = IF Told(i) THEN Append(f[i - 1], i) ELSE f[i - 1]
    <3>1. i - 1 \in 0..n
      OBVIOUS
    <3>2. f[i - 1] \in S
      BY <2>5, <3>1
    <3> QED BY <2>3, <2>5, <3>2
  <2>7. \A i \in 0..n : i # 0 => i \in 1..n
    OBVIOUS
  <2>8. Marking(n, f)
    BY <2>5, <2>6, <2>7
  <2> QED BY <2>8 DEF S
<1>2. ASSUME NEW n \in Nat PROVE Marking(n, F(n))
  <2> HIDE DEF Marking
  <2>1. \E f : Marking(n, f)
    BY <1>1
  <2> QED BY <2>1, Zenon
<1>3. ASSUME NEW n \in Nat PROVE Marks(lines, n, channel) = F(n)[n]
  BY DEF Marks
<1> HIDE DEF F, Told
<1>4. ASSUME NEW n \in Nat, NEW m \in Nat, NEW f, NEW h, Marking(n, f), Marking(m, h), n <= m
      PROVE  \A i \in 0..n : f[i] = h[i]
  <2> DEFINE T == {i \in Nat : i \in 0..n => f[i] = h[i]}
  <2>1. 0 \in T
    <3>1. f[0] = << >> /\ h[0] = << >>
      BY <1>4
    <3> QED BY <3>1
  <2>2. ASSUME NEW i \in Nat, i \in T PROVE i + 1 \in T
    <3> SUFFICES ASSUME i + 1 \in 0..n PROVE f[i + 1] = h[i + 1]
      OBVIOUS
    <3>1. i \in 0..n /\ i + 1 \in 0..m /\ (i + 1) - 1 = i /\ i + 1 # 0
      BY <1>4
    <3>2. f[i] = h[i]
      BY <2>2, <3>1
    <3>3. f[i + 1] = IF Told(i + 1) THEN Append(f[i], i + 1) ELSE f[i]
      BY <1>4, <3>1
    <3>4. h[i + 1] = IF Told(i + 1) THEN Append(h[i], i + 1) ELSE h[i]
      BY <1>4, <3>1
    <3> QED BY <3>2, <3>3, <3>4
  <2> HIDE DEF T
  <2>3. Nat \subseteq T
    BY <2>1, <2>2, Induct
  <2> QED BY <2>3 DEF T
<1>5. F(k)[k] \in Seq(Nat)
  <2>1. PICK f \in [0..k -> Seq(Nat)] : Marking(k, f)
    BY <1>1
  <2>2. F(k)[k] = f[k]
    <3> HIDE DEF Marking
    <3> QED BY <1>2, <1>4, <2>1
  <2> QED BY <2>1, <2>2
<1>6. F(k + 1)[k + 1] = IF Told(k + 1) THEN Append(F(k + 1)[k], k + 1) ELSE F(k + 1)[k]
  <2> DEFINE h == F(k + 1)
  <2>1. Marking(k + 1, h)
    <3> HIDE DEF Marking
    <3>1. k + 1 \in Nat
      OBVIOUS
    <3> QED BY <1>2, <3>1
  <2> HIDE DEF h
  <2>2. k + 1 \in 0..(k + 1) /\ k + 1 # 0 /\ (k + 1) - 1 = k
    OBVIOUS
  <2>3. h[k + 1] = IF Told(k + 1) THEN Append(h[k], k + 1) ELSE h[k]
    BY <2>1, <2>2
  <2> QED BY <2>3 DEF h
<1>7. F(k + 1)[k] = F(k)[k]
  <2> HIDE DEF Marking
  <2>1. k + 1 \in Nat /\ k \in 0..k /\ k <= k + 1
    OBVIOUS
  <2>2. Marking(k + 1, F(k + 1)) /\ Marking(k, F(k))
    BY <1>2, <2>1
  <2> QED BY <1>4, <2>1, <2>2
<1>8. F(0)[0] = << >>
  <2> DEFINE h == F(0)
  <2>1. Marking(0, h)
    <3> HIDE DEF Marking
    <3> QED BY <1>2
  <2> HIDE DEF h
  <2>2. 0 \in 0..0
    OBVIOUS
  <2>3. h[0] = << >>
    BY <2>1, <2>2
  <2> QED BY <2>3 DEF h
<1>9. k + 1 \in Nat
  OBVIOUS
<1>10. Marks(lines, 0, channel) = << >> /\ Marks(lines, k, channel) = F(k)[k]
       /\ Marks(lines, k + 1, channel) = F(k + 1)[k + 1]
  BY <1>3, <1>8, <1>9
<1> QED BY <1>5, <1>6, <1>7, <1>10 DEF Told

\* The pieces of a stream, place by place: a line is three of them, the last line
\* perhaps two.
Piece == Nat \X {"head", "tail", "nl"}
PieceAt(i, j) == IF j = 0 THEN <<i, "head">> ELSE IF j = 1 THEN <<i, "tail">> ELSE <<0, "nl">>

LEMMA PiecesPlaced ==
  ASSUME NEW lines, NEW n \in Nat, Len(lines) = n, NEW ended \in BOOLEAN
  PROVE  /\ Pieces(lines, ended) \in Seq(Piece)
         /\ Len(Pieces(lines, ended)) = IF ended \/ n = 0 THEN 3 * n ELSE 3 * n - 1
         /\ \A i \in 1..n, j \in 0..2 :
               3 * i + j - 2 <= Len(Pieces(lines, ended)) => Pieces(lines, ended)[3 * i + j - 2] = PieceAt(i, j)
<1> DEFINE S == Piece
           Line(i) == <<<<i, "head">>, <<i, "tail">>, <<0, "nl">>>>
           q == [i \in 1..n |-> Line(i)]
           all == FlattenSeq(q)
<1>1. ASSUME NEW i \in Nat
      PROVE  Line(i) \in Seq(S) /\ Len(Line(i)) = 3 /\ \A j \in 0..2 : Line(i)[j + 1] = PieceAt(i, j)
  <2>1. <<i, "head">> \in S /\ <<i, "tail">> \in S /\ <<0, "nl">> \in S
    BY DEF Piece
  <2> HIDE DEF S
  <2>2. Line(i) \in Seq(S) /\ Len(Line(i)) = 3
    BY <2>1
  <2>3. Line(i)[1] = PieceAt(i, 0) /\ Line(i)[2] = PieceAt(i, 1) /\ Line(i)[3] = PieceAt(i, 2)
    BY DEF PieceAt
  <2>4. \A j \in 0..2 : j = 0 \/ j = 1 \/ j = 2
    OBVIOUS
  <2> QED BY <2>2, <2>3, <2>4
<1> HIDE DEF Line, S
<1>2. q \in Seq(Seq(S)) /\ Len(q) = n /\ \A i \in 1..n : q[i] = Line(i)
  BY <1>1
<1>3. all \in Seq(S) /\ Len(all) = 3 * n
      /\ \A i \in 1..n, j \in 0..2 : all[3 * i + j - 2] = PieceAt(i, j)
  <2> HIDE DEF q
  <2>1. CASE n = 0
    <3>1. q = << >>
      BY <1>2, <2>1
    <3>2. all = << >>
      BY <3>1 DEF FlattenSeq
    <3> QED BY <2>1, <3>2
  <2>2. CASE n # 0
    <3>1. q # << >> /\ n \in 1..n
      BY <1>2, <2>2
    <3>2. \E f \in [1..Len(q) -> Seq(S)] :
             f[1] = q[1] /\ (\A i \in 2..Len(q) : f[i] = f[i - 1] \o q[i]) /\ FlattenSeq(q) = f[Len(q)]
      <4>1. q \in Seq(Seq(S)) /\ q # << >>
        BY <1>2, <3>1
      <4> QED BY <4>1, Flattens, Zenon
    <3>3. PICK f \in [1..n -> Seq(S)] :
             f[1] = q[1] /\ (\A i \in 2..n : f[i] = f[i - 1] \o q[i]) /\ all = f[n]
      BY <1>2, <3>2
    <3> HIDE DEF all
    <3> DEFINE Placed(m) == Len(f[m]) = 3 * m /\ \A i \in 1..m, j \in 0..2 : f[m][3 * i + j - 2] = PieceAt(i, j)
               T == {m \in Nat : m + 1 \in 1..n => Placed(m + 1)}
    <3>4. 0 \in T
      <4>1. Len(f[1]) = 3 /\ \A j \in 0..2 : f[1][j + 1] = PieceAt(1, j)
        BY <1>1, <1>2, <3>1, <3>3
      <4>2. \A i \in 1..1 : i = 1
        OBVIOUS
      <4>3. \A j \in 0..2 : 3 * 1 + j - 2 = j + 1
        OBVIOUS
      <4>4. \A i \in 1..1, j \in 0..2 : f[1][3 * i + j - 2] = PieceAt(i, j)
        BY <4>1, <4>2, <4>3
      <4> QED BY <4>1, <4>4
    <3>5. ASSUME NEW m \in Nat, m \in T PROVE m + 1 \in T
      <4> SUFFICES ASSUME (m + 1) + 1 \in 1..n PROVE Placed((m + 1) + 1)
        OBVIOUS
      <4> DEFINE k == m + 1
      <4>1. k \in 1..n /\ k + 1 \in 2..n /\ (k + 1) - 1 = k /\ k \in Nat /\ k + 1 \in 1..n /\ k + 1 \in Nat
        OBVIOUS
      <4>2. Placed(k)
        BY <3>5, <4>1
      <4>0. Len(f[k]) = 3 * k /\ \A i \in 1..k, j \in 0..2 : f[k][3 * i + j - 2] = PieceAt(i, j)
        BY <4>2
      <4> HIDE DEF Placed
      <4> HIDE DEF k
      <4>3. f[k + 1] = f[k] \o Line(k + 1) /\ f[k] \in Seq(S) /\ Line(k + 1) \in Seq(S) /\ Len(Line(k + 1)) = 3
        BY <1>1, <1>2, <3>3, <4>1
      <4>c. /\ Len(f[k + 1]) = 3 * k + 3
            /\ \A i \in 1..(3 * k) : f[k + 1][i] = f[k][i]
            /\ \A i \in 1..3 : f[k + 1][3 * k + i] = Line(k + 1)[i]
        <5> DEFINE a == f[k]
                   b == Line(k + 1)
                   c == f[k + 1]
        <5>1. a \in Seq(S) /\ b \in Seq(S) /\ c = a \o b /\ Len(a) = 3 * k /\ Len(b) = 3 /\ k \in Nat
          BY <4>0, <4>1, <4>3
        <5> HIDE DEF a, b, c
        <5>2. /\ Len(a \o b) = Len(a) + Len(b)
              /\ \A i \in 1..Len(a) : (a \o b)[i] = a[i]
              /\ \A i \in 1..Len(b) : (a \o b)[Len(a) + i] = b[i]
          <6>1. a \in Seq(S) /\ b \in Seq(S)
            BY <5>1
          <6>2. Len(a \o b) = Len(a) + Len(b)
            BY <6>1
          <6>3. \A i \in 1..Len(a) : (a \o b)[i] = a[i]
            BY <6>1
          <6>4. \A i \in 1..Len(b) : (a \o b)[Len(a) + i] = b[i]
            BY <6>1
          <6> QED BY <6>2, <6>3, <6>4
        <5>3. Len(c) = 3 * k + 3
          BY <5>1, <5>2
        <5> QED BY <5>1, <5>2, <5>3 DEF a, b, c
      <4>4. Len(f[k + 1]) = 3 * (k + 1)
        BY <4>1, <4>c
      <4>5. ASSUME NEW i \in 1..(k + 1), NEW j \in 0..2 PROVE f[k + 1][3 * i + j - 2] = PieceAt(i, j)
        <5> DEFINE at == 3 * i + j - 2
        <5>1. at \in 1..(3 * (k + 1)) /\ at \in Nat
          BY <4>1
        <5>2. CASE i \in 1..k
          <6>1. at \in 1..(3 * k)
            BY <4>1, <5>2
          <6>2. f[k + 1][at] = f[k][at]
            BY <4>c, <6>1
          <6> QED BY <4>0, <5>2, <6>2
        <5>3. CASE i = k + 1
          <6>1. at = 3 * k + (j + 1) /\ j + 1 \in 1..3
            BY <4>1, <5>3
          <6>2. f[k + 1][3 * k + (j + 1)] = Line(k + 1)[j + 1]
            BY <4>c, <6>1
          <6>3. Line(k + 1)[j + 1] = PieceAt(k + 1, j)
            BY <1>1, <4>1
          <6> QED BY <5>3, <6>1, <6>2, <6>3
        <5> QED BY <4>1, <5>2, <5>3
      <4> QED BY <4>4, <4>5 DEF k, Placed
    <3> HIDE DEF T
    <3>6. Nat \subseteq T
      BY <3>4, <3>5, Induct
    <3>7. n - 1 \in Nat /\ (n - 1) + 1 = n
      BY <2>2
    <3>8. Placed(n)
      BY <3>1, <3>6, <3>7 DEF T
    <3> QED BY <3>1, <3>3, <3>8
  <2> QED BY <2>1, <2>2
<1>4. Pieces(lines, ended) = IF ended \/ all = << >> THEN all ELSE SubSeq(all, 1, Len(all) - 1)
  BY DEF Pieces, Line
<1> HIDE DEF q, all
<1>5. all = << >> <=> n = 0
  BY <1>3
<1>6. CASE ended \/ n = 0
  <2>1. Pieces(lines, ended) = all
    BY <1>4, <1>5, <1>6
  <2> QED BY <1>3, <1>6, <2>1 DEF S
<1>7. CASE ~(ended \/ n = 0)
  <2> DEFINE p == SubSeq(all, 1, 3 * n - 1)
  <2>1. Pieces(lines, ended) = p
    BY <1>3, <1>4, <1>5, <1>7
  <2>2. p \in Seq(S) /\ Len(p) = 3 * n - 1 /\ \A i \in 1..(3 * n - 1) : p[i] = all[i]
    BY <1>3, <1>7
  <2> HIDE DEF p
  <2>3. ASSUME NEW i \in 1..n, NEW j \in 0..2, 3 * i + j - 2 <= Len(p) PROVE p[3 * i + j - 2] = PieceAt(i, j)
    <3>1. 3 * i + j - 2 \in 1..(3 * n - 1)
      BY <2>2, <2>3
    <3> QED BY <1>3, <2>2, <3>1
  <2> QED BY <1>7, <2>1, <2>2, <2>3 DEF S
<1> QED BY <1>6, <1>7

ChatSteps == {"idle", "sent", "waiting", "reading", "done", "failed"}
ChatRecords ==
    [pc : ChatSteps, streamed : BOOLEAN, json : BOOLEAN, terminated : BOOLEAN,
     requests : Nat, attempt : Nat, wait : Int, cause : {"none", "thrown"} \union Statuses, busy : Nat,
     left : Seq(Piece), buffer : Seq(Piece), content : Seq(Nat), reasoning : Seq(Nat)]

\* Two records of one call that differ at most in what has been read.
SameCall(r, s) ==
    /\ r.pc = s.pc /\ r.streamed = s.streamed /\ r.json = s.json /\ r.terminated = s.terminated
    /\ r.requests = s.requests /\ r.attempt = s.attempt /\ r.wait = s.wait /\ r.cause = s.cause
    /\ r.busy = s.busy /\ r.left = s.left

\* What has been read is k whole lines and j pieces of the next.
AtPiece(r, lines, k, j) ==
    /\ r.content = Marks(lines, k, "content") /\ r.reasoning = Marks(lines, k, "reasoning")
    /\ r.buffer = IF j = 0 THEN << >> ELSE IF j = 1 THEN <<PieceAt(k + 1, 0)>>
                  ELSE <<PieceAt(k + 1, 0), PieceAt(k + 1, 1)>>

FeedPiece(so, piece) ==
    IF piece[2] = "nl" THEN [Heard(so, LineRead(so.buffer)) EXCEPT !.buffer = << >>]
    ELSE [so EXCEPT !.buffer = Append(@, piece)]

\* A record of a call with other text or another buffer.
WithBuffer(r, b) == [r EXCEPT !.buffer = b]
WithText(r, c, d) == [r EXCEPT !.content = c, !.reasoning = d]

LEMMA EditBuffer ==
  ASSUME NEW r \in ChatRecords, NEW b \in Seq(Piece)
  PROVE  LET x == WithBuffer(r, b)
         IN  x \in ChatRecords /\ SameCall(x, r) /\ x.buffer = b /\ x.content = r.content /\ x.reasoning = r.reasoning
<1> DEFINE P == Seq(Piece)
           N == Seq(Nat)
           C == {"none", "thrown"} \union Statuses
           R == [pc : ChatSteps, streamed : BOOLEAN, json : BOOLEAN, terminated : BOOLEAN,
                 requests : Nat, attempt : Nat, wait : Int, cause : C, busy : Nat,
                 left : P, buffer : P, content : N, reasoning : N]
<1>1. ChatRecords = R /\ b \in P
  BY DEF ChatRecords
<1> HIDE DEF P, N, C
<1> QED BY <1>1 DEF SameCall, WithBuffer, WithText

LEMMA EditText ==
  ASSUME NEW r \in ChatRecords, NEW c \in Seq(Nat), NEW d \in Seq(Nat)
  PROVE  LET x == WithText(r, c, d)
         IN  x \in ChatRecords /\ SameCall(x, r) /\ x.buffer = r.buffer /\ x.content = c /\ x.reasoning = d
<1> DEFINE P == Seq(Piece)
           N == Seq(Nat)
           C == {"none", "thrown"} \union Statuses
           R == [pc : ChatSteps, streamed : BOOLEAN, json : BOOLEAN, terminated : BOOLEAN,
                 requests : Nat, attempt : Nat, wait : Int, cause : C, busy : Nat,
                 left : P, buffer : P, content : N, reasoning : N]
<1>1. ChatRecords = R /\ c \in N /\ d \in N
  BY DEF ChatRecords
<1> HIDE DEF P, N, C
<1> QED BY <1>1 DEF SameCall, WithBuffer, WithText

LEMMA HeardOne ==
  ASSUME NEW r \in ChatRecords, NEW i \in Nat
  PROVE  /\ Heard(r, i) \in ChatRecords /\ SameCall(Heard(r, i), r)
         /\ i # 0 => /\ Heard(r, i).content = IF Carries(spoken[i])["content"] THEN Append(r.content, i) ELSE r.content
                     /\ Heard(r, i).reasoning = IF Carries(spoken[i])["reasoning"] THEN Append(r.reasoning, i) ELSE r.reasoning
<1>1. CASE i = 0
  BY <1>1 DEF Heard, SameCall
<1>2. CASE i # 0
  <2> DEFINE c == IF Carries(spoken[i]).content THEN Append(r.content, i) ELSE r.content
             d == IF Carries(spoken[i]).reasoning THEN Append(r.reasoning, i) ELSE r.reasoning
  <2>1. Heard(r, i) = WithText(r, c, d)
    BY <1>2 DEF Heard, WithText
  <2>2. r.content \in Seq(Nat) /\ r.reasoning \in Seq(Nat)
    BY DEF ChatRecords
  <2>3. c \in Seq(Nat) /\ d \in Seq(Nat)
    <3> HIDE DEF ChatRecords
    <3>1. Append(r.content, i) \in Seq(Nat) /\ Append(r.reasoning, i) \in Seq(Nat)
      BY <2>2
    <3> QED BY <2>2, <3>1
  <2> HIDE DEF c, d
  <2>5. LET x == WithText(r, c, d)
        IN  x \in ChatRecords /\ SameCall(x, r) /\ x.content = c /\ x.reasoning = d
    BY <2>3, EditText
  <2> DEFINE x == WithText(r, c, d)
  <2>6. Heard(r, i) = x /\ x \in ChatRecords /\ SameCall(x, r) /\ x.content = c /\ x.reasoning = d
    BY <2>1, <2>5
  <2> HIDE DEF x
  <2> QED BY <1>2, <2>6 DEF c, d
<1> QED BY <1>1, <1>2

LEMMA FeedTyped ==
  ASSUME NEW so \in ChatRecords, NEW piece \in Piece
  PROVE  FeedPiece(so, piece) \in ChatRecords /\ SameCall(FeedPiece(so, piece), so)
<1>1. so.buffer \in Seq(Piece)
  BY DEF ChatRecords
<1>2. CASE piece[2] = "nl"
  <2> DEFINE i == LineRead(so.buffer)
             h == Heard(so, i)
  <2>1. i \in Nat
    <3> DEFINE b == so.buffer
    <3>1. b \in Seq(Piece)
      BY <1>1
    <3>2. i = IF Len(b) = 2 /\ b[1][1] = b[2][1] THEN b[1][1] ELSE 0
      BY DEF LineRead
    <3> HIDE DEF b
    <3>3. Len(b) = 2 => b[1] \in Piece
      BY <3>1
    <3>4. \A p \in Piece : p[1] \in Nat
      BY DEF Piece
    <3> HIDE DEF i
    <3> QED BY <3>2, <3>3, <3>4
  <2> HIDE DEF i
  <2>2. h \in ChatRecords /\ SameCall(h, so)
    BY <2>1, HeardOne
  <2>3. << >> \in Seq(Piece)
    OBVIOUS
  <2>4. FeedPiece(so, piece) = WithBuffer(h, << >>)
    BY <1>2 DEF FeedPiece, i, WithBuffer
  <2> HIDE DEF h
  <2> DEFINE x == WithBuffer(h, << >>)
  <2>5. x \in ChatRecords /\ SameCall(x, h)
    BY <2>2, <2>3, EditBuffer
  <2> HIDE DEF x
  <2>6. SameCall(x, so)
    BY <2>2, <2>5 DEF SameCall
  <2> QED BY <2>4, <2>5, <2>6 DEF x
<1>3. CASE piece[2] # "nl"
  <2> DEFINE b == Append(so.buffer, piece)
             x == WithBuffer(so, b)
  <2>1. b \in Seq(Piece)
    BY <1>1
  <2>2. FeedPiece(so, piece) = x
    BY <1>3 DEF FeedPiece, WithBuffer
  <2> HIDE DEF b
  <2>3. x \in ChatRecords /\ SameCall(x, so)
    BY <2>1, EditBuffer
  <2> QED BY <2>2, <2>3
<1> QED BY <1>2, <1>3

\* A piece that is fed moves the reading by one.
LEMMA FeedMoves ==
  ASSUME NEW so \in ChatRecords, NEW k \in Nat, NEW j \in 0..2, AtPiece(so, spoken, k, j)
  PROVE  AtPiece(FeedPiece(so, PieceAt(k + 1, j)), spoken, IF j = 2 THEN k + 1 ELSE k, IF j = 2 THEN 0 ELSE j + 1)
<1> DEFINE p == PieceAt(k + 1, j)
           to == FeedPiece(so, p)
<1>1. k + 1 \in Nat /\ k + 1 # 0
  OBVIOUS
<1>2. PieceAt(k + 1, 0) = <<k + 1, "head">> /\ PieceAt(k + 1, 1) = <<k + 1, "tail">> /\ PieceAt(k + 1, 2) = <<0, "nl">>
  BY DEF PieceAt
<1>3. PieceAt(k + 1, 0) \in Piece /\ PieceAt(k + 1, 1) \in Piece
  BY <1>1, <1>2 DEF Piece
<1>4. CASE j = 2
  <2> DEFINE b == <<PieceAt(k + 1, 0), PieceAt(k + 1, 1)>>
             h == Heard(so, k + 1)
             x == WithBuffer(h, << >>)
  <2>1. so.buffer = b /\ p[2] = "nl"
    BY <1>2, <1>4 DEF AtPiece
  <2>2. LineRead(b) = k + 1
    BY <1>2 DEF LineRead
  <2>3. to = x
    BY <2>1, <2>2 DEF FeedPiece, WithBuffer
  <2>4. /\ h \in ChatRecords
        /\ h.content = IF Carries(spoken[k + 1])["content"] THEN Append(so.content, k + 1) ELSE so.content
        /\ h.reasoning = IF Carries(spoken[k + 1])["reasoning"] THEN Append(so.reasoning, k + 1) ELSE so.reasoning
    BY <1>1, HeardOne
  <2>5. << >> \in Seq(Piece)
    OBVIOUS
  <2> HIDE DEF h
  <2>6. x.buffer = << >> /\ x.content = h.content /\ x.reasoning = h.reasoning
    BY <2>4, <2>5, EditBuffer
  <2> HIDE DEF x, to
  <2>7. so.content = Marks(spoken, k, "content") /\ so.reasoning = Marks(spoken, k, "reasoning")
    BY DEF AtPiece
  <2>8. /\ Marks(spoken, k + 1, "content") = IF Carries(spoken[k + 1])["content"]
             THEN Append(Marks(spoken, k, "content"), k + 1) ELSE Marks(spoken, k, "content")
        /\ Marks(spoken, k + 1, "reasoning") = IF Carries(spoken[k + 1])["reasoning"]
             THEN Append(Marks(spoken, k, "reasoning"), k + 1) ELSE Marks(spoken, k, "reasoning")
    BY MarksGrow
  <2>9. to.content = Marks(spoken, k + 1, "content") /\ to.reasoning = Marks(spoken, k + 1, "reasoning")
        /\ to.buffer = << >>
    BY <2>3, <2>4, <2>6, <2>7, <2>8
  <2>10. AtPiece(to, spoken, k + 1, 0)
    BY <2>9 DEF AtPiece
  <2> QED BY <1>4, <2>10 DEF to
<1>5. CASE j # 2
  <2>1. j = 0 \/ j = 1
    BY <1>5
  <2>2. p[2] # "nl" /\ p \in Piece
    BY <1>2, <1>3, <2>1
  <2> DEFINE b == Append(so.buffer, p)
             x == WithBuffer(so, b)
  <2>3. so.buffer \in Seq(Piece)
    BY DEF ChatRecords
  <2>4. b \in Seq(Piece)
    BY <2>2, <2>3
  <2>5. to = x
    BY <2>2 DEF FeedPiece, WithBuffer
  <2> HIDE DEF b
  <2>6. x.buffer = b /\ x.content = so.content /\ x.reasoning = so.reasoning
    BY <2>3, <2>4, EditBuffer
  <2>7. b = IF j = 0 THEN <<PieceAt(k + 1, 0)>> ELSE <<PieceAt(k + 1, 0), PieceAt(k + 1, 1)>>
    <3>1. so.buffer = IF j = 0 THEN << >> ELSE <<PieceAt(k + 1, 0)>>
      BY <2>1 DEF AtPiece
    <3>2. \A u, v \in Piece : Append(<< >>, v) = <<v>> /\ Append(<<u>>, v) = <<u, v>>
      <4> TAKE u, v \in Piece
      <4>1. Append(<< >>, v) = <<v>>
        OBVIOUS
      <4>2. Append(<<u>>, v) = <<u, v>>
        <5>1. <<u>> \in Seq(Piece) /\ Len(<<u>>) = 1 /\ <<u>>[1] = u
          OBVIOUS
        <5>2. <<u, v>> \in Seq(Piece) /\ Len(<<u, v>>) = 2 /\ <<u, v>>[1] = u /\ <<u, v>>[2] = v
          OBVIOUS
        <5> DEFINE a == Append(<<u>>, v)
                   b_ == <<u, v>>
        <5>3. a \in Seq(Piece) /\ Len(a) = 2 /\ a[1] = u /\ a[2] = v
          BY <5>1, AppendProperties
        <5>4. b_ \in Seq(Piece) /\ Len(b_) = 2 /\ b_[1] = u /\ b_[2] = v
          BY <5>2
        <5> HIDE DEF a, b_
        <5>5. \A i \in 1..2 : a[i] = b_[i]
          <6> TAKE i \in 1..2
          <6>1. i = 1 \/ i = 2
            OBVIOUS
          <6> QED BY <5>3, <5>4, <6>1
        <5>6. a = b_
          BY <5>3, <5>4, <5>5, SeqEqual
        <5> QED BY <5>6 DEF a, b_
      <4> QED BY <4>1, <4>2
    <3>3. b = Append(so.buffer, p)
      BY DEF b
    <3> QED BY <1>3, <2>1, <3>1, <3>2, <3>3
  <2> HIDE DEF x, to
  <2>8. AtPiece(to, spoken, k, j + 1)
    BY <2>1, <2>5, <2>6, <2>7 DEF AtPiece
  <2> QED BY <1>5, <2>8 DEF to
<1> QED BY <1>4, <1>5

\* A read of m pieces moves the reading by m, wherever it is cut.
LEMMA FeedReads ==
  ASSUME NEW r \in ChatRecords, NEW m \in Nat, NEW pieces \in Seq(Piece), Len(pieces) = m,
         NEW at \in [0..m -> Nat \X (0..2)], AtPiece(r, spoken, at[0][1], at[0][2]),
         \A i \in 1..m : /\ pieces[i] = PieceAt(at[i - 1][1] + 1, at[i - 1][2])
                         /\ at[i][1] = IF at[i - 1][2] = 2 THEN at[i - 1][1] + 1 ELSE at[i - 1][1]
                         /\ at[i][2] = IF at[i - 1][2] = 2 THEN 0 ELSE at[i - 1][2] + 1
  PROVE  /\ Feed(r, pieces) \in ChatRecords /\ SameCall(Feed(r, pieces), r)
         /\ AtPiece(Feed(r, pieces), spoken, at[m][1], at[m][2])
<1> DEFINE S == ChatRecords
           g == [i \in 1..m |-> [x \in S |-> FeedPiece(x, pieces[i])]]
           Feeding(h) == h = [i \in 0..m |-> IF i = 0 THEN r ELSE FeedPiece(h[i - 1], pieces[i])]
           F == CHOOSE h : Feeding(h)
<1>1. \A i \in 1..m : pieces[i] \in Piece
  OBVIOUS
<1>2. \A i \in 1..m : \A x \in S : FeedPiece(x, pieces[i]) \in S
  BY <1>1, FeedTyped
<1>3. Feed(r, pieces) = F[m]
  BY DEF Feed, FeedPiece
<1> HIDE DEF S
<1>4. r \in S
  BY DEF S
<1>5. \E f : Feeding(f)
  <2>1. g \in [1..m -> [S -> S]] /\ \A i \in 1..m : \A x \in S : g[i][x] = FeedPiece(x, pieces[i])
    BY <1>2
  <2> HIDE DEF g
  <2>2. \E f \in [0..m -> S] : Follows(f, m, r, g)
    BY <1>4, <2>1, Recursion
  <2>3. PICK f \in [0..m -> S] : f[0] = r /\ \A i \in 1..m : f[i] = g[i][f[i - 1]]
    BY <2>2 DEF Follows
  <2>4. ASSUME NEW i \in 1..m PROVE f[i] = FeedPiece(f[i - 1], pieces[i])
    <3>1. i - 1 \in 0..m
      OBVIOUS
    <3>2. f[i - 1] \in S
      BY <2>3, <3>1
    <3> QED BY <2>1, <2>3, <3>2
  <2>5. \A i \in 0..m : i # 0 => i \in 1..m
    OBVIOUS
  <2>6. Feeding(f)
    BY <2>3, <2>4, <2>5
  <2> QED BY <2>6
<1>6. Feeding(F)
  <2> HIDE DEF Feeding
  <2> QED BY <1>5, Zenon
<1> HIDE DEF F, g
<1>7. F[0] = r /\ \A i \in 1..m : F[i] = FeedPiece(F[i - 1], pieces[i])
  <2>1. \A i \in 0..m : F[i] = IF i = 0 THEN r ELSE FeedPiece(F[i - 1], pieces[i])
    BY <1>6
  <2> QED BY <2>1
<1> HIDE DEF Feeding
<1> DEFINE Good(i) == F[i] \in S /\ SameCall(F[i], r) /\ AtPiece(F[i], spoken, at[i][1], at[i][2])
           T == {i \in Nat : i \in 0..m => Good(i)}
<1>8. 0 \in T
  BY <1>4, <1>7 DEF SameCall
<1>9. ASSUME NEW i \in Nat, i \in T PROVE i + 1 \in T
  <2> SUFFICES ASSUME i + 1 \in 0..m PROVE Good(i + 1)
    OBVIOUS
  <2>1. i \in 0..m /\ i + 1 \in 1..m /\ (i + 1) - 1 = i
    OBVIOUS
  <2>2. Good(i)
    BY <1>9, <2>1
  <2> DEFINE k == at[i][1]
             j == at[i][2]
             so == F[i]
             p == pieces[i + 1]
  <2>3. k \in Nat /\ j \in 0..2
    BY <2>1
  <2>4. /\ p = PieceAt(k + 1, j)
        /\ at[i + 1][1] = IF j = 2 THEN k + 1 ELSE k
        /\ at[i + 1][2] = IF j = 2 THEN 0 ELSE j + 1
    BY <2>1
  <2>5. so \in ChatRecords /\ SameCall(so, r) /\ AtPiece(so, spoken, k, j)
    BY <2>2 DEF S
  <2>6. F[i + 1] = FeedPiece(so, p) /\ p \in Piece
    BY <1>1, <1>7, <2>1
  <2> HIDE DEF k, j, so, p
  <2>7. FeedPiece(so, p) \in ChatRecords /\ SameCall(FeedPiece(so, p), so)
    BY <2>5, <2>6, FeedTyped
  <2>8. AtPiece(FeedPiece(so, p), spoken, IF j = 2 THEN k + 1 ELSE k, IF j = 2 THEN 0 ELSE j + 1)
    BY <2>3, <2>4, <2>5, FeedMoves
  <2>9. SameCall(FeedPiece(so, p), r)
    BY <2>5, <2>7 DEF SameCall
  <2> QED BY <2>4, <2>6, <2>7, <2>8, <2>9 DEF S
<1> HIDE DEF T
<1>10. Nat \subseteq T
  BY <1>8, <1>9, Induct
<1>11. m \in 0..m
  OBVIOUS
<1>12. Good(m)
  BY <1>10, <1>11 DEF T
<1> QED BY <1>3, <1>12 DEF S

LEMMA Thirds ==
  ASSUME NEW x \in Nat
  PROVE  /\ x \div 3 \in Nat /\ x % 3 \in 0..2 /\ x = 3 * (x \div 3) + (x % 3)
         /\ (x + 1) \div 3 = IF x % 3 = 2 THEN (x \div 3) + 1 ELSE x \div 3
         /\ (x + 1) % 3 = IF x % 3 = 2 THEN 0 ELSE (x % 3) + 1
<1>1. x \div 3 \in Nat /\ x % 3 \in 0..2
  OBVIOUS
<1>2. x = 3 * (x \div 3) + (x % 3)
  OBVIOUS
<1>3. (x + 1) \div 3 = IF x % 3 = 2 THEN (x \div 3) + 1 ELSE x \div 3
  OBVIOUS
<1>4. (x + 1) % 3 = IF x % 3 = 2 THEN 0 ELSE (x % 3) + 1
  OBVIOUS
<1> QED BY <1>1, <1>2, <1>3, <1>4

\* Where the reading of a stream stands: q pieces are read, the rest is left.
ReadSoFar(c, lines) ==
    \E q \in Nat :
        /\ q + Len(c.left) = Len(Pieces(lines, c.terminated))
        /\ \A i \in 1..Len(c.left) : c.left[i] = Pieces(lines, c.terminated)[q + i]
        /\ AtPiece(c, lines, q \div 3, q % 3)

Asking(c) ==
    /\ c.buffer = << >> /\ c.content = << >> /\ c.reasoning = << >>
    /\ c.requests = c.attempt + 1
    /\ c.busy = IF c.pc = "waiting" THEN c.attempt + 1 ELSE c.attempt
    /\ c.pc = "waiting" => c.attempt < ChatRetries /\ c.cause \in {"throttled", "unavailable"}

AsTold(c, lines) ==
    LET whole == IF c.terminated \/ lines = << >> THEN Len(lines) ELSE Len(lines) - 1
    IN  c.content = ChatText(Marks(lines, whole, "content"), Marks(lines, whole, "reasoning"), ~c.json)

ChatGood(c, lines) ==
    /\ c \in ChatRecords
    /\ c.attempt <= ChatRetries /\ c.requests <= ChatRetries + 1 /\ c.wait <= WaitCap
    /\ c.pc \in {"sent", "waiting"} => Asking(c)
    /\ c.pc = "failed" /\ c.cause \in {"throttled", "unavailable"} => c.busy = ChatRetries + 1
    /\ c.pc = "reading" => c.streamed /\ lines \in Streams /\ ReadSoFar(c, lines)
    /\ c.pc = "done" /\ c.streamed => AsTold(c, lines)

ChatInv == ChatGood(chat, spoken)

LEMMA StreamLength == \A lines \in Streams : Len(lines) \in Nat /\ (lines = << >> <=> Len(lines) = 0)
<1> SUFFICES ASSUME NEW lines \in Streams PROVE Len(lines) \in Nat /\ (lines = << >> <=> Len(lines) = 0)
  OBVIOUS
<1>1. PICK n \in 0..MaxLines : lines \in [1..n -> LineKinds]
  BY DEF Streams
<1>2. n \in Nat
  BY ChatConstants
<1>3. lines \in Seq(LineKinds)
  BY <1>1, <1>2
<1> QED BY <1>3

LEMMA ChatStarts == ChatInit => ChatInv
<1> SUFFICES ASSUME ChatInit PROVE ChatInv
  OBVIOUS
<1>1. NoChat \in ChatRecords
  <2>1. << >> \in Seq(Piece) /\ << >> \in Seq(Nat)
    OBVIOUS
  <2> QED BY <2>1 DEF NoChat, ChatRecords, ChatSteps
<1>2. NoChat.pc = "idle" /\ NoChat.attempt = 0 /\ NoChat.requests = 0 /\ NoChat.wait = 0
  BY DEF NoChat
<1>3. ChatRetries \in Nat
  BY ChatConstants
<1>4. ChatGood(NoChat, spoken)
  BY <1>1, <1>2, <1>3 DEF ChatGood, WaitCap
<1> QED BY <1>4 DEF ChatInv, ChatInit

LEMMA CallAsked ==
  ASSUME NEW streamed \in BOOLEAN, NEW json \in BOOLEAN, ChatInv, ChatAsk(streamed, json)
  PROVE  ChatInv'
<1> DEFINE c == chat'
<1>1. c = [pc |-> "sent", streamed |-> streamed, json |-> json, terminated |-> TRUE,
           requests |-> 1, attempt |-> 0, wait |-> 0, cause |-> "none", busy |-> 0,
           left |-> << >>, buffer |-> << >>, content |-> << >>, reasoning |-> << >>]
  BY DEF ChatAsk, NoChat
<1>2. << >> \in Seq(Piece) /\ << >> \in Seq(Nat) /\ ChatRetries \in Nat
  BY ChatConstants
<1>3. c \in ChatRecords /\ c.pc = "sent" /\ c.attempt = 0 /\ c.requests = 1 /\ c.wait = 0 /\ c.busy = 0
      /\ c.buffer = << >> /\ c.content = << >> /\ c.reasoning = << >>
  BY <1>1, <1>2 DEF ChatRecords, ChatSteps
<1> HIDE DEF c
<1>4. ChatGood(c, spoken')
  BY <1>2, <1>3 DEF ChatGood, Asking, WaitCap
<1> QED BY <1>4 DEF ChatInv, c

LEMMA CallRefused ==
  ASSUME NEW status \in Statuses, NEW header \in Hints, NEW body \in Hints, ChatInv,
         ChatRefused(status, header, body)
  PROVE  ChatInv'
<1> DEFINE c == chat'
           w == Wait(header, body, chat.attempt)
<1>1. chat \in ChatRecords /\ chat.pc = "sent" /\ Asking(chat) /\ chat.attempt <= ChatRetries
      /\ chat.requests <= ChatRetries + 1 /\ chat.wait <= WaitCap
  BY DEF ChatInv, ChatGood, ChatRefused
<1>2. chat.attempt \in Nat /\ header \in Nat /\ body \in Nat /\ ChatRetries \in Nat /\ chat.busy \in Nat
  BY <1>1, ChatConstants DEF ChatRecords
<1>3. w \in Int /\ w <= WaitCap
  BY <1>2 DEF Wait, WaitCap
<1> HIDE DEF w
<1>4. chat.busy = chat.attempt /\ chat.requests = chat.attempt + 1
      /\ chat.buffer = << >> /\ chat.content = << >> /\ chat.reasoning = << >>
  BY <1>1 DEF Asking
<1>5. CASE Retryable(status) /\ chat.attempt < ChatRetries
  <2> DEFINE b == chat.busy + 1
  <2>1. c = [chat EXCEPT !.pc = "waiting", !.cause = status, !.busy = b, !.wait = w] /\ b \in Nat
    BY <1>2, <1>5 DEF ChatRefused, w
  <2> HIDE DEF b
  <2>2. c \in ChatRecords /\ c.pc = "waiting" /\ c.cause = status /\ c.busy = b /\ c.wait = w
        /\ c.attempt = chat.attempt /\ c.requests = chat.requests /\ c.buffer = chat.buffer
        /\ c.content = chat.content /\ c.reasoning = chat.reasoning
    BY <1>1, <1>2, <1>3, <2>1 DEF ChatRecords, ChatSteps
  <2>3. status \in {"throttled", "unavailable"}
    BY <1>5 DEF Retryable
  <2> HIDE DEF c
  <2>4. Asking(c)
    BY <1>2, <1>4, <1>5, <2>2, <2>3 DEF Asking, b
  <2>5. ChatGood(c, spoken')
    BY <1>1, <1>3, <2>2, <2>4 DEF ChatGood
  <2> QED BY <2>5 DEF ChatInv, c
<1>6. CASE ~(Retryable(status) /\ chat.attempt < ChatRetries)
  <2> DEFINE b == chat.busy + 1
  <2>1. c = [chat EXCEPT !.pc = "failed", !.cause = status, !.busy = b] /\ b \in Nat
    BY <1>2, <1>6 DEF ChatRefused
  <2> HIDE DEF b
  <2>2. c \in ChatRecords /\ c.pc = "failed" /\ c.cause = status /\ c.busy = b /\ c.wait = chat.wait
        /\ c.attempt = chat.attempt /\ c.requests = chat.requests
    BY <1>1, <1>2, <2>1 DEF ChatRecords, ChatSteps
  <2>3. status \in {"throttled", "unavailable"} => c.busy = ChatRetries + 1
    BY <1>1, <1>2, <1>4, <1>6, <2>2 DEF Retryable, b
  <2> HIDE DEF c
  <2>4. ChatGood(c, spoken')
    BY <1>1, <2>2, <2>3 DEF ChatGood
  <2> QED BY <2>4 DEF ChatInv, c
<1> QED BY <1>5, <1>6

\* fetch throws, or the connection breaks.
LEMMA CallThrows ==
  ASSUME ChatInv, ChatThrows \/ ChatBroken
  PROVE  ChatInv'
<1> DEFINE c == chat'
<1>1. chat \in ChatRecords /\ chat.attempt <= ChatRetries
      /\ chat.requests <= ChatRetries + 1 /\ chat.wait <= WaitCap
  BY DEF ChatInv, ChatGood
<1>2. c = [chat EXCEPT !.pc = "failed", !.cause = "thrown"]
  BY DEF ChatThrows, ChatBroken
<1>3. c \in ChatRecords /\ c.pc = "failed" /\ c.cause = "thrown" /\ c.wait = chat.wait
      /\ c.attempt = chat.attempt /\ c.requests = chat.requests
  BY <1>1, <1>2 DEF ChatRecords, ChatSteps
<1> HIDE DEF c
<1>4. ChatGood(c, spoken')
  BY <1>1, <1>3 DEF ChatGood
<1> QED BY <1>4 DEF ChatInv, c

LEMMA CallRetried ==
  ASSUME ChatInv, ChatRetry
  PROVE  ChatInv'
<1> DEFINE c == chat'
<1>1. chat \in ChatRecords /\ chat.pc = "waiting" /\ Asking(chat)
  BY DEF ChatInv, ChatGood, ChatRetry
<1>2. chat.attempt \in Nat /\ chat.requests \in Nat /\ ChatRetries \in Nat /\ chat.busy \in Nat
  BY <1>1, ChatConstants DEF ChatRecords
<1> DEFINE a == chat.attempt + 1
           m == chat.requests + 1
<1>3. c = [chat EXCEPT !.pc = "sent", !.attempt = a, !.requests = m, !.wait = 0] /\ a \in Nat /\ m \in Nat
  BY <1>2 DEF ChatRetry
<1> HIDE DEF a, m
<1>4. c \in ChatRecords /\ c.pc = "sent" /\ c.attempt = a /\ c.requests = m
      /\ c.wait = 0 /\ c.busy = chat.busy /\ c.buffer = chat.buffer
      /\ c.content = chat.content /\ c.reasoning = chat.reasoning
  <2>1. c \in ChatRecords
    <3> DEFINE P == Seq(Piece)
               N == Seq(Nat)
               C == {"none", "thrown"} \union Statuses
               R == [pc : ChatSteps, streamed : BOOLEAN, json : BOOLEAN, terminated : BOOLEAN,
                     requests : Nat, attempt : Nat, wait : Int, cause : C, busy : Nat,
                     left : P, buffer : P, content : N, reasoning : N]
    <3>1. ChatRecords = R /\ chat \in R
      BY <1>1 DEF ChatRecords
    <3>2. "sent" \in ChatSteps /\ 0 \in Int
      BY DEF ChatSteps
    <3> HIDE DEF P, N, C
    <3>3. [chat EXCEPT !.pc = "sent", !.attempt = a, !.requests = m, !.wait = 0] \in R
      BY <1>3, <3>1, <3>2
    <3> QED BY <1>3, <3>1, <3>3
  <2>2. c.pc = "sent" /\ c.attempt = a /\ c.requests = m /\ c.wait = 0
    BY <1>1, <1>3 DEF ChatRecords
  <2>3. c.busy = chat.busy /\ c.buffer = chat.buffer /\ c.content = chat.content /\ c.reasoning = chat.reasoning
    BY <1>1, <1>3 DEF ChatRecords
  <2> QED BY <2>1, <2>2, <2>3
<1> HIDE DEF c
<1>5. Asking(c) /\ c.attempt <= ChatRetries /\ c.requests <= ChatRetries + 1
  BY <1>1, <1>2, <1>4 DEF Asking, a, m
<1>6. ChatGood(c, spoken')
  BY <1>4, <1>5 DEF ChatGood, WaitCap
<1> QED BY <1>6 DEF ChatInv, c

LEMMA CallAnswered ==
  ASSUME NEW lines \in Streams, ChatInv, ChatWhole(lines)
  PROVE  ChatInv'
<1> DEFINE c == chat'
           text == ChatText(Marks(lines, Len(lines), "content"), Marks(lines, Len(lines), "reasoning"), TRUE)
<1>1. chat \in ChatRecords /\ chat.attempt <= ChatRetries /\ ~chat.streamed
      /\ chat.requests <= ChatRetries + 1 /\ chat.wait <= WaitCap
  BY DEF ChatInv, ChatGood, ChatWhole
<1>2. text \in Seq(Nat)
  <2>1. Len(lines) \in Nat
    BY StreamLength
  <2>2. Marks(lines, Len(lines), "content") \in Seq(Nat) /\ Marks(lines, Len(lines), "reasoning") \in Seq(Nat)
    BY <2>1, MarksGrow
  <2> QED BY <2>2 DEF ChatText
<1>3. c = [chat EXCEPT !.pc = "done", !.content = text]
  BY DEF ChatWhole
<1> HIDE DEF text
<1>4. c \in ChatRecords /\ c.pc = "done" /\ c.streamed = chat.streamed /\ c.wait = chat.wait
      /\ c.attempt = chat.attempt /\ c.requests = chat.requests
  BY <1>1, <1>2, <1>3 DEF ChatRecords, ChatSteps
<1> HIDE DEF c
<1>5. ChatGood(c, spoken')
  BY <1>1, <1>4 DEF ChatGood
<1> QED BY <1>5 DEF ChatInv, c

LEMMA StreamStarts ==
  ASSUME NEW lines \in Streams, NEW ended \in BOOLEAN, ChatInv, ChatStream(lines, ended)
  PROVE  ChatInv'
<1> DEFINE c == chat'
           p == Pieces(lines, ended)
<1>1. chat \in ChatRecords /\ chat.attempt <= ChatRetries /\ chat.streamed /\ Asking(chat)
      /\ chat.requests <= ChatRetries + 1 /\ chat.wait <= WaitCap
  BY DEF ChatInv, ChatGood, ChatStream
<1>2. p \in Seq(Piece) /\ Len(p) \in Nat
  <2>1. Len(lines) \in Nat
    BY StreamLength
  <2>2. p \in Seq(Piece)
    BY <2>1, PiecesPlaced
  <2> HIDE DEF p
  <2> QED BY <2>2
<1>3. c = [chat EXCEPT !.pc = "reading", !.left = p, !.terminated = ended] /\ spoken' = lines
  BY DEF ChatStream
<1> HIDE DEF p
<1>4. c \in ChatRecords /\ c.pc = "reading" /\ c.streamed = chat.streamed /\ c.wait = chat.wait
      /\ c.attempt = chat.attempt /\ c.requests = chat.requests /\ c.left = p /\ c.terminated = ended
      /\ c.buffer = chat.buffer /\ c.content = chat.content /\ c.reasoning = chat.reasoning
  BY <1>1, <1>2, <1>3 DEF ChatRecords, ChatSteps
<1> HIDE DEF c
<1>5. AtPiece(c, lines, 0, 0)
  <2>1. Marks(lines, 0, "content") = << >> /\ Marks(lines, 0, "reasoning") = << >>
    <3>1. 0 \in Nat
      BY SMTT(60)
    <3> QED BY <3>1, MarksGrow
  <2> QED BY <1>1, <1>4, <2>1 DEF AtPiece, Asking
<1>6. ReadSoFar(c, lines)
  <2>1. 0 \div 3 = 0 /\ 0 % 3 = 0 /\ 0 \in Nat
    OBVIOUS
  <2>2. 0 + Len(c.left) = Len(p) /\ \A i \in 1..Len(c.left) : c.left[i] = p[0 + i]
    BY <1>2, <1>4
  <2> QED BY <1>4, <1>5, <2>1, <2>2 DEF ReadSoFar, p
<1>7. ChatGood(c, spoken')
  BY <1>1, <1>3, <1>4, <1>6 DEF ChatGood
<1> QED BY <1>7 DEF ChatInv, c

\* A read of n pieces, wherever it is cut.
LEMMA StreamRead ==
  ASSUME NEW n \in Nat, ChatInv, ChatRead(n)
  PROVE  ChatInv'
<1> DEFINE c == chat'
           left == chat.left
           p == Pieces(spoken, chat.terminated)
           pieces == SubSeq(left, 1, n)
           fed == Feed(chat, pieces)
           rest == SubSeq(left, n + 1, Len(left))
<1>1. chat \in ChatRecords /\ chat.pc = "reading" /\ chat.attempt <= ChatRetries /\ chat.streamed
      /\ chat.requests <= ChatRetries + 1 /\ chat.wait <= WaitCap /\ spoken \in Streams
      /\ ReadSoFar(chat, spoken) /\ n \in 1..Len(left)
  BY DEF ChatInv, ChatGood, ChatRead
<1>2. left \in Seq(Piece) /\ chat.terminated \in BOOLEAN /\ Len(left) \in Nat
  BY <1>1 DEF ChatRecords
<1>3. PICK q \in Nat : /\ q + Len(left) = Len(p)
                       /\ \A i \in 1..Len(left) : left[i] = p[q + i]
                       /\ AtPiece(chat, spoken, q \div 3, q % 3)
  BY <1>1 DEF ReadSoFar
<1> DEFINE lines == Len(spoken)
<1>4. /\ lines \in Nat
      /\ Len(p) <= 3 * lines
      /\ \A i \in 1..lines, j \in 0..2 : 3 * i + j - 2 <= Len(p) => p[3 * i + j - 2] = PieceAt(i, j)
  <2>1. lines \in Nat
    BY <1>1, StreamLength
  <2>2. Len(p) = IF chat.terminated \/ lines = 0 THEN 3 * lines ELSE 3 * lines - 1
    BY <1>2, <2>1, PiecesPlaced
  <2>3. \A i \in 1..lines, j \in 0..2 : 3 * i + j - 2 <= Len(p) => p[3 * i + j - 2] = PieceAt(i, j)
    BY <1>2, <2>1, PiecesPlaced
  <2> QED BY <2>1, <2>2, <2>3
<1>5. pieces \in Seq(Piece) /\ Len(pieces) = n /\ \A i \in 1..n : pieces[i] = left[i]
  BY <1>1, <1>2
<1>6. rest \in Seq(Piece) /\ Len(rest) = Len(left) - n /\ \A i \in 1..(Len(left) - n) : rest[i] = left[n + i]
  BY <1>1, <1>2
<1> HIDE DEF p, pieces, rest, lines, left
<1> DEFINE at == [i \in 0..n |-> <<(q + i) \div 3, (q + i) % 3>>]
<1>7. at \in [0..n -> Nat \X (0..2)]
  <2>1. \A i \in 0..n : q + i \in Nat
    OBVIOUS
  <2>2. \A i \in 0..n : (q + i) \div 3 \in Nat /\ (q + i) % 3 \in 0..2
    BY <2>1, Thirds
  <2> QED BY <2>2
<1>8. at[0][1] = q \div 3 /\ at[0][2] = q % 3 /\ at[n][1] = (q + n) \div 3 /\ at[n][2] = (q + n) % 3
  OBVIOUS
<1>9. ASSUME NEW i \in 1..n
      PROVE  /\ pieces[i] = PieceAt(at[i - 1][1] + 1, at[i - 1][2])
             /\ at[i][1] = IF at[i - 1][2] = 2 THEN at[i - 1][1] + 1 ELSE at[i - 1][1]
             /\ at[i][2] = IF at[i - 1][2] = 2 THEN 0 ELSE at[i - 1][2] + 1
  <2> DEFINE x == q + (i - 1)
             k == x \div 3
             j == x % 3
  <2>1. x \in Nat /\ x + 1 = q + i /\ i - 1 \in 0..n /\ i \in 0..n /\ i \in 1..Len(left)
    BY <1>1
  <2>2. k \in Nat /\ j \in 0..2 /\ x = 3 * k + j
        /\ (x + 1) \div 3 = (IF j = 2 THEN k + 1 ELSE k)
        /\ (x + 1) % 3 = (IF j = 2 THEN 0 ELSE j + 1)
    BY <2>1, Thirds
  <2>3. at[i - 1][1] = k /\ at[i - 1][2] = j /\ at[i][1] = (x + 1) \div 3 /\ at[i][2] = (x + 1) % 3
    BY <2>1
  <2>4. pieces[i] = p[x + 1]
    BY <1>3, <1>5, <2>1
  <2> HIDE DEF at, k, j
  <2>5. 3 * (k + 1) + j - 2 = x + 1 /\ x + 1 <= Len(p) /\ k + 1 \in 1..lines
    <3>1. x + 1 <= Len(p)
      BY <1>1, <1>2, <1>3, <2>1, SMTT(60)
    <3> QED BY <1>4, <2>1, <2>2, <3>1
  <2>6. p[x + 1] = PieceAt(k + 1, j)
    BY <1>4, <2>2, <2>5
  <2> QED BY <2>2, <2>3, <2>4, <2>6
<1> HIDE DEF at
<1>10. fed \in ChatRecords /\ SameCall(fed, chat) /\ AtPiece(fed, spoken, at[n][1], at[n][2])
  <2>1. AtPiece(chat, spoken, at[0][1], at[0][2])
    BY <1>3, <1>8
  <2> QED BY <1>1, <1>5, <1>7, <1>9, <2>1, FeedReads
<1>11. c = [fed EXCEPT !.left = rest] /\ spoken' = spoken
  BY DEF ChatRead, pieces, rest, left
<1> HIDE DEF fed
<1>12. c \in ChatRecords /\ c.left = rest /\ c.pc = fed.pc /\ c.streamed = fed.streamed /\ c.wait = fed.wait
       /\ c.attempt = fed.attempt /\ c.requests = fed.requests /\ c.terminated = fed.terminated
       /\ c.buffer = fed.buffer /\ c.content = fed.content /\ c.reasoning = fed.reasoning
  BY <1>6, <1>10, <1>11 DEF ChatRecords
<1> HIDE DEF c
<1>13. AtPiece(c, spoken, (q + n) \div 3, (q + n) % 3)
  BY <1>8, <1>10, <1>12 DEF AtPiece
<1>14. c.terminated = chat.terminated /\ c.pc = "reading" /\ c.streamed /\ c.wait <= WaitCap
       /\ c.attempt <= ChatRetries /\ c.requests <= ChatRetries + 1
  BY <1>1, <1>10, <1>12 DEF SameCall
<1>15. ReadSoFar(c, spoken)
  <2>1. q + n \in Nat /\ (q + n) + Len(c.left) = Len(p)
    <3>1. q + Len(left) = Len(p)
      BY <1>3
    <3>2. Len(c.left) = Len(left) - n /\ n \in 1..Len(left) /\ Len(left) \in Nat
      BY <1>1, <1>2, <1>6, <1>12
    <3> QED BY <3>1, <3>2
  <2>2. ASSUME NEW i \in 1..Len(c.left) PROVE c.left[i] = p[(q + n) + i]
    <3>1. i \in 1..(Len(left) - n) /\ n + i \in 1..Len(left) /\ q + (n + i) = (q + n) + i
      BY <1>1, <1>2, <1>6, <1>12
    <3> QED BY <1>3, <1>6, <1>12, <3>1
  <2> QED BY <1>13, <1>14, <2>1, <2>2 DEF ReadSoFar, p
<1>16. ChatGood(c, spoken)
  BY <1>1, <1>12, <1>14, <1>15 DEF ChatGood
<1> QED BY <1>11, <1>16 DEF ChatInv, c

LEMMA StreamCloses ==
  ASSUME ChatInv, ChatClosed
  PROVE  ChatInv'
<1> DEFINE c == chat'
           n == Len(spoken)
           p == Pieces(spoken, chat.terminated)
           text == ChatText(chat.content, chat.reasoning, ~chat.json)
<1>1. chat \in ChatRecords /\ chat.pc = "reading" /\ chat.attempt <= ChatRetries /\ chat.streamed
      /\ chat.requests <= ChatRetries + 1 /\ chat.wait <= WaitCap /\ spoken \in Streams
      /\ ReadSoFar(chat, spoken) /\ chat.left = << >>
  BY DEF ChatInv, ChatGood, ChatClosed
<1>2. chat.terminated \in BOOLEAN /\ n \in Nat /\ (spoken = << >> <=> n = 0) /\ Len(chat.left) = 0
  BY <1>1, StreamLength DEF ChatRecords
<1>3. PICK q \in Nat : q + Len(chat.left) = Len(p) /\ AtPiece(chat, spoken, q \div 3, q % 3)
  BY <1>1 DEF ReadSoFar
<1>4. Len(p) = IF chat.terminated \/ n = 0 THEN 3 * n ELSE 3 * n - 1
  BY <1>2, PiecesPlaced
<1> DEFINE whole == IF chat.terminated \/ spoken = << >> THEN Len(spoken) ELSE Len(spoken) - 1
<1>5. q \div 3 = whole
  <2>1. q = Len(p)
    BY <1>2, <1>3
  <2>2. (3 * n) \div 3 = n /\ (n # 0 => (3 * n - 1) \div 3 = n - 1)
    BY <1>2
  <2> QED BY <1>2, <1>4, <2>1, <2>2
<1>6. chat.content = Marks(spoken, whole, "content") /\ chat.reasoning = Marks(spoken, whole, "reasoning")
  BY <1>3, <1>5 DEF AtPiece
<1>7. text \in Seq(Nat)
  BY <1>1 DEF ChatText, ChatRecords
<1>8. c = [chat EXCEPT !.pc = "done", !.content = text] /\ spoken' = spoken
  BY DEF ChatClosed
<1>9. text = ChatText(Marks(spoken, whole, "content"), Marks(spoken, whole, "reasoning"), ~chat.json)
  BY <1>6
<1> HIDE DEF text
<1>10. c \in ChatRecords /\ c.pc = "done" /\ c.streamed = chat.streamed /\ c.wait = chat.wait
       /\ c.attempt = chat.attempt /\ c.requests = chat.requests /\ c.content = text
       /\ c.terminated = chat.terminated /\ c.json = chat.json
  BY <1>1, <1>7, <1>8 DEF ChatRecords, ChatSteps
<1> HIDE DEF c
<1>11. AsTold(c, spoken)
  BY <1>9, <1>10 DEF AsTold
<1>12. ChatGood(c, spoken)
  BY <1>1, <1>10, <1>11 DEF ChatGood
<1> QED BY <1>8, <1>12 DEF ChatInv, c

LEMMA ChatStepsKeep == ChatInv /\ [ChatNext]_chatVars => ChatInv'
<1> SUFFICES ASSUME ChatInv, [ChatNext]_chatVars PROVE ChatInv'
  OBVIOUS
<1>1. CASE \E streamed, json \in BOOLEAN : ChatAsk(streamed, json)
  BY <1>1, CallAsked
<1>2. CASE \E s \in Statuses, h \in Hints, b \in Hints : ChatRefused(s, h, b)
  BY <1>2, CallRefused
<1>3. CASE ChatThrows \/ ChatBroken
  BY <1>3, CallThrows
<1>4. CASE ChatRetry
  BY <1>4, CallRetried
<1>5. CASE \E lines \in Streams : ChatWhole(lines)
  BY <1>5, CallAnswered
<1>6. CASE \E lines \in Streams, t \in BOOLEAN : ChatStream(lines, t)
  BY <1>6, StreamStarts
<1>7. CASE \E n \in 1..(3 * MaxLines) : ChatRead(n)
  <2>1. \A n \in 1..(3 * MaxLines) : n \in Nat
    OBVIOUS
  <2> QED BY <1>7, <2>1, StreamRead
<1>8. CASE ChatClosed
  BY <1>8, StreamCloses
<1>9. CASE UNCHANGED chatVars
  BY <1>9 DEF chatVars, ChatInv
<1> QED BY <1>1, <1>2, <1>3, <1>4, <1>5, <1>6, <1>7, <1>8, <1>9 DEF ChatNext

LEMMA ChatIsSound == ChatInv => ChatSound
<1> SUFFICES ASSUME ChatInv PROVE ChatSound
  OBVIOUS
<1>1. ChatBudget
  BY DEF ChatInv, ChatGood, ChatBudget, Asking
<1>2. CutsInvisible
  BY DEF ChatInv, ChatGood, CutsInvisible, AsTold
<1> QED BY <1>1, <1>2 DEF ChatSound

-----------------------------------------------------------------------------
(* The settings of a retrieval.                                            *)

\* What a variable may hold: nothing, or a text it may be given.
Envs == {env \in [Vars -> (UNION {SomeRaw[v] : v \in Vars}) \cup {Unset}] :
            \A v \in Vars : env[v] = Unset \/ env[v] \in SomeRaw[v]}
\* The value an arm reads.
Reads(t, a, s) == Value(s, t.asked, t.env[a])

\* An arm has run with what its environment says, for every setting of the stages
\* behind it, and has stopped only at a setting that cannot be read.
ArmGood(t, a, stage, had) ==
    /\ t.env[a] \in Envs
    /\ stage \in 0..6
    /\ \A s \in Settings : had[s] = {} \/ had[s] = Reads(t, a, s)
    /\ \A i \in 1..5 : i < stage => \A s \in Read(Stages[i]) : had[s] = Reads(t, a, s) /\ had[s] # {}
    /\ stage = Stopped => \E s \in Settings : Reads(t, a, s) = {}

SettingsInv ==
    /\ DOMAIN arm = Arms /\ DOMAIN ran = Arms
    /\ \A a \in Arms : ArmGood(trial, a, arm[a], ran[a])

LEMMA StagesRead ==
  /\ DOMAIN Stages = 1..5 /\ RanThrough = 6
  /\ \A i \in 1..5 : Read(Stages[i]) \subseteq Settings
  /\ \A s \in Settings : \E i \in 1..5 : s \in Read(Stages[i])
<1>1. /\ Stages[1] = "index" /\ Stages[2] = "ask" /\ Stages[3] = "calls" /\ Stages[4] = "attach"
      /\ Stages[5] = "bridges" /\ DOMAIN Stages = 1..5 /\ Len(Stages) = 5
  BY DEF Stages
<1>2. /\ Read("index") = {"descriptors", "hybrid"} /\ Read("ask") = {"parallel", "coverage", "tokens"}
      /\ Read("calls") = {"thinking"} /\ Read("attach") = {"entries"}
      /\ Read("bridges") = {"bridgeK", "bridgeMax"}
  BY DEF Read
<1>3. ASSUME NEW i \in 1..5 PROVE i = 1 \/ i = 2 \/ i = 3 \/ i = 4 \/ i = 5
  OBVIOUS
<1>4. \A i \in 1..5 : Read(Stages[i]) \subseteq Settings
  BY <1>1, <1>2, <1>3 DEF Settings
<1>5. \A s \in Settings : \E i \in 1..5 : s \in Read(Stages[i])
  <2>1. 1 \in 1..5 /\ 2 \in 1..5 /\ 3 \in 1..5 /\ 4 \in 1..5 /\ 5 \in 1..5
    OBVIOUS
  <2>2. \A s \in Settings : s \in Read(Stages[1]) \/ s \in Read(Stages[2]) \/ s \in Read(Stages[3])
                            \/ s \in Read(Stages[4]) \/ s \in Read(Stages[5])
    BY <1>1, <1>2 DEF Settings
  <2> QED BY <2>1, <2>2
<1> QED BY <1>1, <1>4, <1>5 DEF RanThrough

\* The value of each setting.
LEMMA ValueIs ==
  ASSUME NEW q, NEW env
  PROVE  /\ Value("descriptors", q, env) = EnvFlag(env.descriptors, TRUE)
         /\ Value("hybrid", q, env) = EnvFlag(env.hybrid, TRUE)
         /\ Value("parallel", q, env) = EnvFlag(env.parallel, ~q.local)
         /\ Value("coverage", q, env) = EnvFlag(env.coverage, TRUE)
         /\ Value("tokens", q, env) = IF CoverageMode(q, env) = {FALSE} THEN {1200}
                                      ELSE CoverageRecallTokens(q, env)
         /\ Value("thinking", q, env) = ThinkingConfig(q, env)
         /\ Value("entries", q, env) = TimelineEntries(q, env)
         /\ Value("bridgeK", q, env) = EnvInt(env.bridgeK, 0, 6)
         /\ Value("bridgeMax", q, env) = EnvInt(env.bridgeMax, 0, 24)
<1>1. Value("descriptors", q, env) = EnvFlag(env.descriptors, TRUE)
  BY DEF Value, Descriptors
<1>2. Value("hybrid", q, env) = EnvFlag(env.hybrid, TRUE)
  BY DEF Value, RouterHybrid
<1>3. Value("parallel", q, env) = EnvFlag(env.parallel, ~q.local)
  BY DEF Value, ParallelProbes
<1>4. Value("coverage", q, env) = EnvFlag(env.coverage, TRUE)
  BY DEF Value, CoverageMode
<1>5. Value("tokens", q, env) = IF CoverageMode(q, env) = {FALSE} THEN {1200} ELSE CoverageRecallTokens(q, env)
  BY DEF Value
<1>6. Value("thinking", q, env) = ThinkingConfig(q, env)
  BY DEF Value
<1>7. Value("entries", q, env) = TimelineEntries(q, env)
  BY DEF Value
<1>8. Value("bridgeK", q, env) = EnvInt(env.bridgeK, 0, 6)
  BY DEF Value, BridgeK
<1>9. Value("bridgeMax", q, env) = EnvInt(env.bridgeMax, 0, 24)
  BY DEF Value, BridgeMax
<1> QED BY <1>1, <1>2, <1>3, <1>4, <1>5, <1>6, <1>7, <1>8, <1>9

\* A setting depends on its levers alone.
LEMMA SameLevers ==
  ASSUME NEW q, NEW env, NEW other, NEW s \in Settings, \A v \in Levers(s) : env[v] = other[v]
  PROVE  Value(s, q, env) = Value(s, q, other)
<1>1. CASE s \in {"descriptors", "hybrid", "parallel", "coverage", "bridgeK", "bridgeMax"}
  <2>1. Levers(s) = {s}
    BY <1>1 DEF Levers
  <2>2. env[s] = other[s]
    BY <2>1
  <2>3. CASE s = "descriptors"
    BY <2>2, <2>3 DEF Value, Descriptors
  <2>4. CASE s = "hybrid"
    BY <2>2, <2>4 DEF Value, RouterHybrid
  <2>5. CASE s = "parallel"
    BY <2>2, <2>5 DEF Value, ParallelProbes
  <2>6. CASE s = "coverage"
    BY <2>2, <2>6 DEF Value, CoverageMode
  <2>7. CASE s = "bridgeK"
    BY <2>2, <2>7 DEF Value, BridgeK
  <2>8. CASE s = "bridgeMax"
    BY <2>2, <2>8 DEF Value, BridgeMax
  <2> QED BY <1>1, <2>3, <2>4, <2>5, <2>6, <2>7, <2>8
<1>2. CASE s = "tokens"
  <2>1. Levers(s) = {"tokens", "coverage"}
    BY <1>2 DEF Levers
  <2>2. env.tokens = other.tokens /\ env.coverage = other.coverage
    BY <2>1
  <2>3. CoverageMode(q, env) = CoverageMode(q, other) /\ CoverageRecallTokens(q, env) = CoverageRecallTokens(q, other)
    BY <2>2 DEF CoverageMode, CoverageRecallTokens
  <2> QED BY <1>2, <2>3 DEF Value
<1>3. CASE s = "entries"
  <2>1. Levers(s) = {"entries", "floor", "coverage"}
    BY <1>3 DEF Levers
  <2>2. env.entries = other.entries /\ env.floor = other.floor /\ env.coverage = other.coverage
    BY <2>1
  <2>3. CoverageMode(q, env) = CoverageMode(q, other) /\ StarvationFloor(q, env) = StarvationFloor(q, other)
    BY <2>2 DEF CoverageMode, StarvationFloor
  <2>4. TimelineEntries(q, env) = TimelineEntries(q, other)
    BY <2>2, <2>3 DEF TimelineEntries
  <2> QED BY <1>3, <2>4 DEF Value
<1>4. CASE s = "thinking"
  <2>1. Levers(s) = {"thinking", "thinkingMin"}
    BY <1>4 DEF Levers, Levels
  <2>2. env.thinking = other.thinking /\ env.thinkingMin = other.thinkingMin
    BY <2>1
  <2>3. Thinking(env) = Thinking(other) /\ ThinkingMin(env) = ThinkingMin(other)
    BY <2>2 DEF Thinking, ThinkingMin
  <2>4. ThinkingConfig(q, env) = ThinkingConfig(q, other)
    BY <2>3 DEF ThinkingConfig
  <2> QED BY <1>4, <2>4 DEF Value
<1> QED BY <1>1, <1>2, <1>3, <1>4 DEF Settings

\* The readers refuse a text exactly when its variable does not allow it.
LEMMA FlagRead ==
  ASSUME NEW raw, NEW fallback
  PROVE  /\ raw.kind = "no" => EnvFlag(raw, fallback) \subseteq {FALSE}
         /\ raw.kind = "yes" => EnvFlag(raw, fallback) \subseteq {TRUE}
         /\ EnvFlag(raw, fallback) = {} <=>
               /\ raw.kind # "blank"
               /\ ~(raw.kind \in {"yes", "no"} \/ (raw.kind = "number" /\ raw.n \in {0, 1}))
<1>1. CASE raw.kind = "blank"
  BY <1>1 DEF EnvFlag
<1>2. CASE raw.kind # "blank"
  <2>1. EnvFlag(raw, fallback) = {said \in BOOLEAN : \/ raw.kind = IF said THEN "yes" ELSE "no"
                                                     \/ raw.kind = "number" /\ raw.n = IF said THEN 1 ELSE 0}
    BY <1>2 DEF EnvFlag
  <2>2. TRUE \in EnvFlag(raw, fallback) <=> (raw.kind = "yes" \/ (raw.kind = "number" /\ raw.n = 1))
    BY <2>1
  <2>3. FALSE \in EnvFlag(raw, fallback) <=> (raw.kind = "no" \/ (raw.kind = "number" /\ raw.n = 0))
    BY <2>1
  <2>4. EnvFlag(raw, fallback) \subseteq BOOLEAN
    BY <2>1
  <2> HIDE DEF EnvFlag
  <2> QED BY <1>2, <2>2, <2>3, <2>4
<1> QED BY <1>1, <1>2

LEMMA IntRead ==
  ASSUME NEW raw, raw.n \in Int, NEW min \in Int, NEW fallback
  PROVE  EnvInt(raw, min, fallback) = {} <=>
            /\ raw.kind # "blank"
            /\ ~(raw.kind = "number" /\ raw.n >= min)
BY DEF EnvInt

LEMMA EnumRead ==
  ASSUME NEW raw, NEW allowed, NEW fallback
  PROVE  /\ EnvEnum(raw, allowed, fallback) = {} <=>
               /\ raw.kind # "blank"
               /\ ~(raw.kind = "level" /\ raw.word \in allowed)
         /\ \A m \in EnvEnum(raw, allowed, fallback) : m = fallback \/ (m \in allowed /\ m = raw.word)
BY DEF EnvEnum

LEMMA TextsKnown ==
  ASSUME NEW env \in Envs, NEW v \in Vars
  PROVE  /\ env[v].n \in Int
         /\ env[v].kind = "blank" => env[v] = Unset
         /\ env[v].kind = "level" => env[v].word \in Modes
         /\ env[v] = Unset \/ env[v] \in SomeRaw[v]
         /\ Unset.kind = "blank"
<1>1. Unset.kind = "blank" /\ Unset.n = 0
  BY DEF Unset, Text
<1>2. env[v] = Unset \/ env[v] \in SomeRaw[v]
  BY DEF Envs
<1>3. CASE env[v] = Unset
  BY <1>1, <1>3
<1>4. CASE env[v] \in SomeRaw[v]
  BY <1>1, <1>4, SettingsConstants DEF Vars
<1> QED BY <1>1, <1>2, <1>3, <1>4

\* A text that is not allowed, and what may be said of it.
LEMMA LegalIs ==
  ASSUME NEW env \in Envs, NEW v \in Vars
  PROVE  /\ v \in Flags =>
              (env[v] \notin Legal(v) <=>
                 /\ env[v].kind # "blank"
                 /\ ~(env[v].kind \in {"yes", "no"} \/ (env[v].kind = "number" /\ env[v].n \in {0, 1})))
         /\ v \in {"bridgeK", "bridgeMax", "floor"} =>
              (env[v] \notin Legal(v) <=> env[v].kind # "blank" /\ ~(env[v].kind = "number" /\ env[v].n >= 0))
         /\ v \in {"tokens", "entries"} =>
              (env[v] \notin Legal(v) <=> env[v].kind # "blank" /\ ~(env[v].kind = "number" /\ env[v].n >= 1))
         /\ v = "thinking" =>
              (env[v] \notin Legal(v) <=> env[v].kind # "blank" /\ ~(env[v].kind = "level" /\ env[v].word \in Modes))
         /\ v = "thinkingMin" =>
              (env[v] \notin Legal(v) <=> env[v].kind # "blank" /\ ~(env[v].kind = "level" /\ env[v].word \in RealLevels))
<1> DEFINE raw == env[v]
<1>1. /\ raw.n \in Int /\ (raw.kind = "blank" <=> raw = Unset)
      /\ (raw.kind = "level" => raw.word \in Modes) /\ (raw = Unset \/ raw \in SomeRaw[v])
  BY TextsKnown
<1> HIDE DEF raw
<1> DEFINE Allowed == CASE v \in Flags -> raw.kind \in {"yes", "no"} \/ (raw.kind = "number" /\ raw.n \in {0, 1})
                        [] v = "thinkingMin" -> raw.kind = "level" /\ raw.word \in RealLevels
                        [] v = "thinking" -> raw.kind = "level"
                        [] v \in {"tokens", "entries"} -> raw.kind = "number" /\ raw.n > 0
                        [] OTHER -> raw.kind = "number" /\ raw.n >= 0
<1>2. raw \in Legal(v) <=> raw = Unset \/ (raw \in SomeRaw[v] /\ Allowed)
  BY DEF Legal
<1>3. /\ v \in Flags => (Allowed <=> raw.kind \in {"yes", "no"} \/ (raw.kind = "number" /\ raw.n \in {0, 1}))
      /\ v \in {"bridgeK", "bridgeMax", "floor"} => (Allowed <=> raw.kind = "number" /\ raw.n >= 0)
      /\ v \in {"tokens", "entries"} => (Allowed <=> raw.kind = "number" /\ raw.n > 0)
      /\ v = "thinking" => (Allowed <=> raw.kind = "level")
      /\ v = "thinkingMin" => (Allowed <=> raw.kind = "level" /\ raw.word \in RealLevels)
  BY DEF Flags
<1> HIDE DEF Allowed
<1>4. raw \notin Legal(v) <=> raw.kind # "blank" /\ ~Allowed
  BY <1>1, <1>2
<1>5. raw.n > 0 <=> raw.n >= 1
  BY <1>1
<1> QED BY <1>1, <1>3, <1>4, <1>5 DEF raw

-----------------------------------------------------------------------------
(* Every step keeps the invariant.                                         *)

\* An environment that differs from one of variables' texts in one of them.
LEMMA BesideKeeps ==
  ASSUME NEW env \in Envs, NEW other \in Beside(env)
  PROVE  other \in Envs
<1>0. PICK v \in Vars : \E raw \in SomeRaw[v] \cup {env[v]} : other = [env EXCEPT ![v] = raw]
  BY DEF Beside
<1>1. PICK raw \in SomeRaw[v] \cup {env[v]} : other = [env EXCEPT ![v] = raw]
  BY <1>0
<1>2. env \in [Vars -> (UNION {SomeRaw[w] : w \in Vars}) \cup {Unset}]
      /\ \A w \in Vars : env[w] = Unset \/ env[w] \in SomeRaw[w]
  BY DEF Envs
<1>3. raw = Unset \/ raw \in SomeRaw[v]
  BY <1>1, <1>2
<1>4. raw \in (UNION {SomeRaw[w] : w \in Vars}) \cup {Unset}
  BY <1>1, <1>3
<1>5. other \in [Vars -> (UNION {SomeRaw[w] : w \in Vars}) \cup {Unset}]
  BY <1>1, <1>2, <1>4
<1>6. \A w \in Vars : other[w] = Unset \/ other[w] \in SomeRaw[w]
  BY <1>1, <1>2, <1>3
<1> QED BY <1>5, <1>6 DEF Envs

LEMMA BareIsOne == Bare \in Envs
BY DEF Bare, Envs

LEMMA NothingHad ==
  /\ DOMAIN NothingRead = Arms
  /\ \A a \in Arms, s \in Settings : NothingRead[a][s] = {}
BY DEF NothingRead

\* A retrieval that has read nothing.
LEMMA FreshIsGood ==
  ASSUME NEW t, NEW a \in Arms, t.env[a] \in Envs
  PROVE  ArmGood(t, a, 1, NothingRead[a])
<1>1. \A s \in Settings : NothingRead[a][s] = {}
  BY NothingHad
<1>2. \A i \in 1..5 : ~(i < 1)
  OBVIOUS
<1>3. 1 \in 0..6 /\ 1 # Stopped
  BY DEF Stopped
<1> QED BY <1>1, <1>2, <1>3 DEF ArmGood

LEMMA SettingsStarts ==
  ASSUME SettingsIdle \/ SettingsInit
  PROVE  SettingsInv
<1>1. \A a \in Arms : trial.env[a] \in Envs
  <2>1. CASE SettingsIdle
    BY <2>1, BareIsOne DEF SettingsIdle
  <2>2. CASE SettingsInit
    <3>1. PICK q \in SomeAsked, control \in Beside(Bare) : \E treatment \in Beside(control) :
             trial = [asked |-> q, env |-> [a \in Arms |-> IF a = "control" THEN control ELSE treatment]]
      BY <2>2 DEF SettingsInit
    <3>2. PICK treatment \in Beside(control) :
             trial = [asked |-> q, env |-> [a \in Arms |-> IF a = "control" THEN control ELSE treatment]]
      BY <3>1
    <3>3. control \in Envs
      BY <3>1, BareIsOne, BesideKeeps
    <3>4. treatment \in Envs
      BY <3>2, <3>3, BesideKeeps
    <3> QED BY <3>2, <3>3, <3>4
  <2> QED BY <2>1, <2>2
<1>2. arm = [a \in Arms |-> 1] /\ ran = NothingRead
  BY DEF SettingsIdle, SettingsInit
<1>3. \A a \in Arms : ArmGood(trial, a, 1, NothingRead[a])
  BY <1>1, FreshIsGood
<1>4. DOMAIN arm = Arms /\ DOMAIN ran = Arms
  BY <1>2, NothingHad
<1>5. ASSUME NEW a \in Arms PROVE ArmGood(trial, a, arm[a], ran[a])
  BY <1>2, <1>3
<1> QED BY <1>4, <1>5 DEF SettingsInv

\* What a stage reads.
LEMMA StageKeeps ==
  ASSUME NEW t, NEW a, NEW stage \in 1..5, NEW had, ArmGood(t, a, stage, had),
         \A s \in Read(Stages[stage]) : Reads(t, a, s) # {}
  PROVE  ArmGood(t, a, stage + 1,
                 [s \in Settings |-> IF s \in Read(Stages[stage]) THEN Reads(t, a, s) ELSE had[s]])
<1> DEFINE new == [s \in Settings |-> IF s \in Read(Stages[stage]) THEN Reads(t, a, s) ELSE had[s]]
<1>1. \A s \in Settings : new[s] = IF s \in Read(Stages[stage]) THEN Reads(t, a, s) ELSE had[s]
  OBVIOUS
<1> HIDE DEF new
<1>2. /\ t.env[a] \in Envs
      /\ \A s \in Settings : had[s] = {} \/ had[s] = Reads(t, a, s)
      /\ \A i \in 1..5 : i < stage => \A s \in Read(Stages[i]) : had[s] = Reads(t, a, s) /\ had[s] # {}
  BY DEF ArmGood
<1>3. \A s \in Settings : new[s] = {} \/ new[s] = Reads(t, a, s)
  BY <1>1, <1>2
<1>4. ASSUME NEW i \in 1..5, i < stage + 1, NEW s \in Read(Stages[i])
      PROVE  new[s] = Reads(t, a, s) /\ new[s] # {}
  <2>1. s \in Settings
    BY StagesRead
  <2>2. CASE i = stage
    BY <1>1, <2>1, <2>2
  <2>3. CASE i < stage
    BY <1>1, <1>2, <2>1, <2>3
  <2> QED BY <1>4, <2>2, <2>3
<1>5. stage + 1 \in 0..6 /\ stage + 1 # Stopped
  BY DEF Stopped
<1> QED BY <1>2, <1>3, <1>4, <1>5 DEF ArmGood, new

\* A stage that reads a setting that cannot be read.
LEMMA StageStops ==
  ASSUME NEW t, NEW a, NEW stage \in 1..5, NEW had, ArmGood(t, a, stage, had),
         \E s \in Read(Stages[stage]) : Reads(t, a, s) = {}
  PROVE  ArmGood(t, a, Stopped, had)
<1>1. \E s \in Settings : Reads(t, a, s) = {}
  BY StagesRead
<1>2. Stopped \in 0..6 /\ \A i \in 1..5 : ~(i < Stopped)
  BY DEF Stopped
<1> QED BY <1>1, <1>2 DEF ArmGood

LEMMA ReadKeeps ==
  ASSUME SettingsInv, NEW a \in Arms, ReadStage(a)
  PROVE  SettingsInv'
<1> DEFINE stage == arm[a]
           read == [s \in Read(Stages[stage]) |-> Value(s, trial.asked, trial.env[a])]
<1>1. stage \in 1..5 /\ trial' = trial
  BY StagesRead DEF ReadStage
<1>2. ArmGood(trial, a, stage, ran[a])
  BY DEF SettingsInv
<1>3. DOMAIN arm = Arms /\ DOMAIN ran = Arms /\ \A b \in Arms : ArmGood(trial, b, arm[b], ran[b])
  BY DEF SettingsInv
<1>4. \A s \in Read(Stages[stage]) : read[s] = Reads(trial, a, s)
  BY DEF Reads
<1>5. CASE \E s \in DOMAIN read : read[s] = {}
  <2>1. arm' = [arm EXCEPT ![a] = Stopped] /\ ran' = ran
    BY <1>5 DEF ReadStage
  <2>2. ArmGood(trial, a, Stopped, ran[a])
    <3>1. \E s \in Read(Stages[stage]) : Reads(trial, a, s) = {}
      BY <1>4, <1>5
    <3> HIDE DEF stage
    <3> QED BY <1>1, <1>2, <3>1, StageStops
  <2>3. ASSUME NEW b \in Arms PROVE ArmGood(trial', b, arm'[b], ran'[b])
    <3>1. CASE b = a
      BY <1>1, <1>3, <2>1, <2>2, <3>1
    <3>2. CASE b # a
      BY <1>1, <1>3, <2>1, <3>2
    <3> QED BY <3>1, <3>2
  <2>4. DOMAIN arm' = Arms /\ DOMAIN ran' = Arms
    BY <1>3, <2>1
  <2> QED BY <2>3, <2>4 DEF SettingsInv
<1>6. CASE ~(\E s \in DOMAIN read : read[s] = {})
  <2> DEFINE new == [s \in Settings |-> IF s \in Read(Stages[stage]) THEN Reads(trial, a, s) ELSE ran[a][s]]
  <2>1. arm' = [arm EXCEPT ![a] = @ + 1]
        /\ ran' = [ran EXCEPT ![a] = [s \in Settings |-> IF s \in DOMAIN read THEN read[s] ELSE @[s]]]
    BY <1>6 DEF ReadStage
  <2>2. [s \in Settings |-> IF s \in DOMAIN read THEN read[s] ELSE ran[a][s]] = new
    BY <1>4
  <2>3. ran' = [ran EXCEPT ![a] = new]
    BY <2>1, <2>2, <1>3
  <2>4. \A s \in Read(Stages[stage]) : Reads(trial, a, s) # {}
    BY <1>4, <1>6
  <2>5. ArmGood(trial, a, stage + 1, new)
    <3> HIDE DEF stage
    <3> QED BY <1>1, <1>2, <2>4, StageKeeps
  <2> HIDE DEF new, read
  <2>6. ASSUME NEW b \in Arms PROVE ArmGood(trial', b, arm'[b], ran'[b])
    <3>1. CASE b = a
      BY <1>1, <1>3, <2>1, <2>3, <2>5, <3>1
    <3>2. CASE b # a
      BY <1>1, <1>3, <2>1, <2>3, <3>2
    <3> QED BY <3>1, <3>2
  <2>7. DOMAIN arm' = Arms /\ DOMAIN ran' = Arms
    BY <1>3, <2>1, <2>3
  <2> QED BY <2>6, <2>7 DEF SettingsInv
<1> QED BY <1>5, <1>6

LEMMA SettingsSteps ==
  ASSUME SettingsInv, [SettingsNext]_settingVars
  PROVE  SettingsInv'
<1>1. CASE SettingsNext
  BY <1>1, ReadKeeps DEF SettingsNext, Arms
<1>2. CASE UNCHANGED settingVars
  BY <1>2 DEF SettingsInv, settingVars
<1> QED BY <1>1, <1>2

-----------------------------------------------------------------------------
(* What the invariant says of an arm.                                      *)

LEMMA VarsAre ==
  Vars = {"descriptors", "hybrid", "parallel", "coverage", "tokens", "floor", "entries",
          "bridgeK", "bridgeMax", "thinkingMin", "thinking"}
BY SettingsConstants DEF Vars

\* A flag of the retrieval is a reading of its variable.
LEMMA FlagIs ==
  ASSUME NEW q, NEW env, NEW v \in Flags
  PROVE  \E fallback : Value(v, q, env) = EnvFlag(env[v], fallback)
<1>1. CASE v = "descriptors"
  BY <1>1 DEF Value, Descriptors
<1>2. CASE v = "hybrid"
  BY <1>2 DEF Value, RouterHybrid
<1>3. CASE v = "parallel"
  BY <1>3 DEF Value, ParallelProbes
<1>4. CASE v = "coverage"
  BY <1>4 DEF Value, CoverageMode
<1> QED BY <1>1, <1>2, <1>3, <1>4 DEF Flags

\* A setting that cannot be read has a variable whose text is not allowed.
LEMMA UnreadIsTypo ==
  ASSUME NEW q, NEW env \in Envs, NEW s \in Settings, Value(s, q, env) = {}
  PROVE  \E v \in Vars : env[v] \notin Legal(v)
<1>1. CASE s \in Flags
  <2>1. s \in Vars
    BY <1>1, VarsAre DEF Flags
  <2>2. PICK fallback : Value(s, q, env) = EnvFlag(env[s], fallback)
    BY <1>1, FlagIs
  <2>3. EnvFlag(env[s], fallback) = {}
    BY <2>2
  <2>4. env[s] \notin Legal(s)
    BY <1>1, <2>1, <2>3, FlagRead, LegalIs
  <2> QED BY <2>1, <2>4
<1>2. CASE s \in {"bridgeK", "bridgeMax"}
  <2>1. s \in Vars /\ env[s].n \in Int
    BY <1>2, VarsAre, TextsKnown
  <2>2. \E fallback : EnvInt(env[s], 0, fallback) = {}
    BY <1>2, ValueIs
  <2>3. env[s] \notin Legal(s)
    BY <1>2, <2>1, <2>2, IntRead, LegalIs
  <2> QED BY <2>1, <2>3
<1>3. CASE s = "tokens"
  <2>1. "tokens" \in Vars /\ env["tokens"].n \in Int
    BY VarsAre, TextsKnown
  <2>2. CoverageRecallTokens(q, env) = {}
    <3>1. Value("tokens", q, env) = IF CoverageMode(q, env) = {FALSE} THEN {1200} ELSE CoverageRecallTokens(q, env)
      BY ValueIs
    <3>2. Value("tokens", q, env) = {}
      BY <1>3
    <3>3. ASSUME CoverageMode(q, env) = {FALSE} PROVE FALSE
      <4>1. Value("tokens", q, env) = {1200}
        BY <3>1, <3>3
      <4> QED BY <3>2, <4>1
    <3> QED BY <3>1, <3>2, <3>3
  <2>3. EnvInt(env["tokens"], 1, 3200) = {}
    BY <2>2 DEF CoverageRecallTokens, EnvPositiveInt
  <2>4. env["tokens"] \notin Legal("tokens")
    BY <2>1, <2>3, IntRead, LegalIs
  <2> QED BY <2>1, <2>4
<1>4. CASE s = "thinking"
  <2>1. "thinking" \in Vars /\ "thinkingMin" \in Vars
    BY VarsAre
  <2>2. ThinkingConfig(q, env) = {}
    BY <1>4 DEF Value
  <2>3. ThinkingMin(env) = {} \/ Thinking(env) = {}
    BY <2>2 DEF ThinkingConfig
  <2>4. CASE ThinkingMin(env) = {}
    <3>1. EnvEnum(env["thinkingMin"], RealLevels, "minimal") = {}
      BY <2>4 DEF ThinkingMin
    <3>2. env["thinkingMin"] \notin Legal("thinkingMin")
      BY <2>1, <3>1, EnumRead, LegalIs
    <3> QED BY <2>1, <3>2
  <2>5. CASE Thinking(env) = {}
    <3>1. EnvEnum(env["thinking"], Modes, "low") = {}
      BY <2>5 DEF Thinking
    <3>2. env["thinking"] \notin Legal("thinking")
      BY <2>1, <3>1, EnumRead, LegalIs
    <3> QED BY <2>1, <3>2
  <2> QED BY <2>3, <2>4, <2>5
<1>5. CASE s = "entries"
  <2> DEFINE size == EnvPositiveInt(env.entries, IF ~q.coverage \/ q.wide THEN 32 ELSE 24)
  <2>1. "entries" \in Vars /\ "floor" \in Vars /\ env["entries"].n \in Int /\ env["floor"].n \in Int
    BY VarsAre, TextsKnown
  <2>2. TimelineEntries(q, env) = {}
    BY <1>5 DEF Value
  <2>3. size = {} \/ StarvationFloor(q, env) = {}
    BY <2>2 DEF TimelineEntries
  <2>4. CASE size = {}
    <3>1. \E fallback : EnvInt(env["entries"], 1, fallback) = {}
      BY <2>4 DEF EnvPositiveInt
    <3>2. env["entries"] \notin Legal("entries")
      BY <2>1, <3>1, IntRead, LegalIs
    <3> QED BY <2>1, <3>2
  <2>5. CASE StarvationFloor(q, env) = {}
    <3>1. EnvInt(env["floor"], 0, 4) = {}
      BY <2>5 DEF StarvationFloor
    <3>2. env["floor"].kind # "blank" /\ ~(env["floor"].kind = "number" /\ env["floor"].n >= 0)
      BY <2>1, <3>1, IntRead
    <3>3. env["floor"] \notin Legal("floor")
      BY <2>1, <3>2, LegalIs
    <3> QED BY <2>1, <3>3
  <2> QED BY <2>3, <2>4, <2>5
<1> QED BY <1>1, <1>2, <1>3, <1>4, <1>5 DEF Settings, Flags

\* A flag or a bound of the bridges that could be read has a text its variable allows.
LEMMA ReadIsLegal ==
  ASSUME NEW q, NEW env \in Envs, NEW v \in Flags \cup {"bridgeK", "bridgeMax"}, Value(v, q, env) # {}
  PROVE  env[v] \in Legal(v)
<1>1. v \in Vars /\ env[v].n \in Int
  BY VarsAre, TextsKnown DEF Flags
<1>2. CASE v \in Flags
  <2>1. PICK fallback : Value(v, q, env) = EnvFlag(env[v], fallback)
    BY <1>2, FlagIs
  <2>2. EnvFlag(env[v], fallback) # {}
    BY <2>1
  <2> QED BY <1>1, <1>2, <2>2, FlagRead, LegalIs
<1>3. CASE v \in {"bridgeK", "bridgeMax"}
  <2>1. \E fallback : EnvInt(env[v], 0, fallback) # {}
    BY <1>3, ValueIs
  <2> QED BY <1>1, <1>3, <2>1, IntRead, LegalIs
<1> QED BY <1>2, <1>3

\* An arm that ran through has run with every value its environment gives.
LEMMA RanAll ==
  ASSUME NEW t, NEW a, NEW had, ArmGood(t, a, RanThrough, had), NEW s \in Settings
  PROVE  had[s] = Reads(t, a, s) /\ had[s] # {}
<1>1. PICK i \in 1..5 : s \in Read(Stages[i])
  BY StagesRead
<1>2. i < RanThrough
  BY StagesRead
<1> QED BY <1>1, <1>2 DEF ArmGood

LEMMA ThinkingIs ==
  ASSUME NEW q, NEW env \in Envs, Value("thinking", q, env) = {"omitted"}
  PROVE  ~q.gemini3 \/ (env.thinking.word = "default" /\ ~q.classify)
<1>1. ThinkingConfig(q, env) = {"omitted"}
  BY DEF Value
<1>2. "omitted" \notin Modes
  BY DEF Modes, RealLevels
<1>3. \A m \in ThinkingMin(env) : m = "minimal" \/ m \in RealLevels
  BY EnumRead DEF ThinkingMin
<1>4. \A m \in ThinkingMin(env) : m # "omitted"
  BY <1>3 DEF RealLevels
<1>5. CASE q.gemini3 /\ q.classify
  BY <1>1, <1>4, <1>5 DEF ThinkingConfig
<1>6. CASE q.gemini3 /\ ~q.classify
  <2>1. "omitted" \in UNION {{ThinkingMode(mode, min) : mode \in Thinking(env)} : min \in ThinkingMin(env)}
    BY <1>1, <1>6 DEF ThinkingConfig
  <2>2. PICK min \in ThinkingMin(env), mode \in Thinking(env) : ThinkingMode(mode, min) = "omitted"
    BY <2>1
  <2>3. mode = "low" \/ (mode \in Modes /\ mode = env.thinking.word)
    BY <2>2, EnumRead DEF Thinking
  <2>4. mode # "omitted"
    BY <1>2, <2>3
  <2>5. mode = "default"
    BY <1>4, <2>2, <2>4 DEF ThinkingMode
  <2> QED BY <1>6, <2>3, <2>5
<1> QED BY <1>5, <1>6

LEMMA SettingsIsSound ==
  ASSUME SettingsInv
  PROVE  SettingsSound
<1>1. \A a \in Arms : ArmGood(trial, a, arm[a], ran[a])
  BY DEF SettingsInv
<1>2. ASSUME NEW a \in Arms
      PROVE  /\ trial.env[a] \in Envs
             /\ \A s \in Settings : ran[a][s] = {} \/ ran[a][s] = Value(s, trial.asked, trial.env[a])
             /\ arm[a] = Stopped => \E s \in Settings : Value(s, trial.asked, trial.env[a]) = {}
  BY <1>1 DEF ArmGood, Reads
<1>3. ASSUME NEW a \in Arms, arm[a] = RanThrough, NEW s \in Settings
      PROVE  ran[a][s] = Value(s, trial.asked, trial.env[a]) /\ ran[a][s] # {}
  BY <1>1, <1>3, RanAll DEF Reads
<1>4. FlagsAsSaid
  <2> SUFFICES ASSUME NEW a \in Arms, NEW v \in Flags
               PROVE  /\ trial.env[a][v].kind = "no" => ran[a][v] \subseteq {FALSE}
                      /\ trial.env[a][v].kind = "yes" => ran[a][v] \subseteq {TRUE}
    BY DEF FlagsAsSaid
  <2>1. v \in Settings
    BY DEF Flags, Settings
  <2>2. PICK fallback : Value(v, trial.asked, trial.env[a]) = EnvFlag(trial.env[a][v], fallback)
    BY FlagIs
  <2>3. ran[a][v] = {} \/ ran[a][v] = EnvFlag(trial.env[a][v], fallback)
    BY <1>2, <2>1, <2>2
  <2> DEFINE raw == trial.env[a][v]
  <2> HIDE DEF raw
  <2>4. /\ raw.kind = "no" => EnvFlag(raw, fallback) \subseteq {FALSE}
        /\ raw.kind = "yes" => EnvFlag(raw, fallback) \subseteq {TRUE}
    BY FlagRead
  <2>5. ran[a][v] = {} \/ ran[a][v] = EnvFlag(raw, fallback)
    BY <2>3 DEF raw
  <2>6. /\ raw.kind = "no" => ran[a][v] \subseteq {FALSE}
        /\ raw.kind = "yes" => ran[a][v] \subseteq {TRUE}
    BY <2>4, <2>5
  <2> QED BY <2>6 DEF raw
<1>5. OneLever
  <2> SUFFICES ASSUME \A a \in Arms : arm[a] = RanThrough, NEW s \in Settings,
                      ran["control"][s] # ran["treatment"][s]
               PROVE  \E v \in Levers(s) : trial.env["control"][v] # trial.env["treatment"][v]
    BY DEF OneLever
  <2>1. "control" \in Arms /\ "treatment" \in Arms
    BY DEF Arms
  <2>2. Value(s, trial.asked, trial.env["control"]) # Value(s, trial.asked, trial.env["treatment"])
    BY <1>3, <2>1
  <2> QED BY <2>2, SameLevers
<1>6. NoTypoRuns
  <2> SUFFICES ASSUME NEW a \in Arms
               PROVE  /\ arm[a] = Stopped => \E v \in Vars : trial.env[a][v] \notin Legal(v)
                      /\ arm[a] = RanThrough =>
                           \A v \in Flags \cup {"bridgeK", "bridgeMax"} : trial.env[a][v] \in Legal(v)
    BY DEF NoTypoRuns
  <2>1. ASSUME arm[a] = Stopped PROVE \E v \in Vars : trial.env[a][v] \notin Legal(v)
    BY <1>2, <2>1, UnreadIsTypo
  <2>2. ASSUME arm[a] = RanThrough, NEW v \in Flags \cup {"bridgeK", "bridgeMax"}
        PROVE  trial.env[a][v] \in Legal(v)
    <3>1. v \in Settings
      BY DEF Flags, Settings
    <3>2. Value(v, trial.asked, trial.env[a]) # {}
      BY <1>3, <2>2, <3>1
    <3> QED BY <1>2, <3>2, ReadIsLegal
  <2> QED BY <2>1, <2>2
<1>7. ThinkingBounded
  <2> SUFFICES ASSUME NEW a \in Arms, ran[a]["thinking"] = {"omitted"}
               PROVE  \/ ~trial.asked.gemini3
                      \/ trial.env[a].thinking.word = "default" /\ ~trial.asked.classify
    BY DEF ThinkingBounded
  <2>1. Value("thinking", trial.asked, trial.env[a]) = {"omitted"}
    BY <1>2 DEF Settings
  <2> QED BY <1>2, <2>1, ThinkingIs
<1> QED BY <1>4, <1>5, <1>6, <1>7 DEF SettingsSound

-----------------------------------------------------------------------------
(* The excerpt of an event.                                                 *)

\* What is kept takes more places when more is kept, and none when nothing is.
LEMMA SpentGrows ==
  ASSUME NEW frags \in Seq(CtFragment), NEW S, NEW T, S \subseteq T
  PROVE  Spent(frags, S) \in Nat /\ Spent(frags, T) \in Nat /\ Spent(frags, S) <= Spent(frags, T)
<1> DEFINE n == Len(frags)
           cost == [i \in DOMAIN frags |-> IF i \in S THEN frags[i].len + 1 ELSE 0]
           more == [i \in DOMAIN frags |-> IF i \in T THEN frags[i].len + 1 ELSE 0]
<1>1. n \in Nat /\ DOMAIN frags = 1..n /\ \A i \in 1..n : frags[i] \in CtFragment
  OBVIOUS
<1>2. \A i \in 1..n : frags[i].len \in Nat
  BY <1>1 DEF CtFragment
<1>3. \A i \in 1..n : cost[i] \in Nat /\ more[i] \in Nat /\ cost[i] <= more[i]
  <2> TAKE i \in 1..n
  <2> DEFINE l == frags[i].len
  <2>1. l \in Nat /\ l + 1 \in Nat
    BY <1>2
  <2>2. cost[i] = (IF i \in S THEN l + 1 ELSE 0) /\ more[i] = (IF i \in T THEN l + 1 ELSE 0)
    BY <1>1
  <2> HIDE DEF l, cost, more
  <2> QED BY <2>1, <2>2
<1>4. cost = [i \in 1..n |-> cost[i]] /\ more = [i \in 1..n |-> more[i]]
  BY <1>1
<1>5. Spent(frags, S) = SumTo(cost, n) /\ Spent(frags, T) = SumTo(more, n)
  BY DEF Spent
<1> HIDE DEF cost, more
<1>6. cost \in [1..n -> Nat] /\ more \in [1..n -> Nat]
  BY <1>3, <1>4
<1> QED BY <1>1, <1>3, <1>5, <1>6, SumGrows

LEMMA NothingSpent ==
  ASSUME NEW frags \in Seq(CtFragment)
  PROVE  Spent(frags, {}) = 0
<1> DEFINE n == Len(frags)
           cost == [i \in DOMAIN frags |-> IF i \in {} THEN frags[i].len + 1 ELSE 0]
<1>1. n \in Nat /\ DOMAIN frags = 1..n
  OBVIOUS
<1>2. cost \in [1..n -> Nat] /\ \A i \in 1..n : cost[i] = 0
  BY <1>1
<1>3. Spent(frags, {}) = SumTo(cost, n)
  BY DEF Spent
<1> HIDE DEF cost
<1>4. PICK f \in [0..n -> Nat] : f[0] = 0 /\ (\A i \in 1..n : f[i] = f[i - 1] + cost[i]) /\ SumTo(cost, n) = f[n]
  BY <1>1, <1>2, SumComputed
<1>5. \A i \in Nat : i \in 0..n => f[i] = 0
  <2> DEFINE T == {i \in Nat : i \in 0..n => f[i] = 0}
  <2>1. 0 \in T
    BY <1>4
  <2>2. ASSUME NEW i \in Nat, i \in T PROVE i + 1 \in T
    <3> SUFFICES ASSUME i + 1 \in 0..n PROVE f[i + 1] = 0
      OBVIOUS
    <3>1. i \in 0..n /\ i + 1 \in 1..n /\ (i + 1) - 1 = i
      BY <1>1
    <3>2. f[i] = 0
      BY <2>2, <3>1
    <3> QED BY <1>2, <1>4, <3>1, <3>2
  <2> HIDE DEF T
  <2>3. Nat \subseteq T
    BY <2>1, <2>2, Induct
  <2> QED BY <2>3 DEF T
<1>6. n \in 0..n
  BY <1>1
<1> QED BY <1>1, <1>3, <1>4, <1>5, <1>6

\* The order in which fragments are tried.
FragOrder(frags) == Ranked(DOMAIN frags, [i \in DOMAIN frags |-> frags[i].score], [i \in DOMAIN frags |-> i])

\* What is kept after each fragment tried.
KeepsUpTo(k, frags, max) ==
    /\ k \in [0..Len(frags) -> SUBSET (1..Len(frags))] /\ k[0] = {}
    /\ \A i \in 1..Len(frags) :
         k[i] = IF Spent(frags, k[i - 1] \cup {FragOrder(frags)[i]}) > max THEN k[i - 1]
                ELSE k[i - 1] \cup {FragOrder(frags)[i]}
    /\ KeptFragments(frags, max) = k[Len(frags)]

LEMMA FragsRanked ==
  ASSUME NEW frags \in Seq(CtFragment)
  PROVE  /\ Len(frags) \in Nat /\ DOMAIN frags = 1..Len(frags)
         /\ \A i \in 1..Len(frags) : FragOrder(frags)[i] \in 1..Len(frags)
         /\ \A j \in 1..Len(frags) : \E i \in 1..Len(frags) : FragOrder(frags)[i] = j
         /\ \A i, j \in 1..Len(frags) : i <= j => frags[FragOrder(frags)[i]].score >= frags[FragOrder(frags)[j]].score
<1> DEFINE n == Len(frags)
           D == DOMAIN frags
           sc == [i \in D |-> frags[i].score]
           key == [i \in D |-> i]
           r == Ranked(D, sc, key)
<1>1. n \in Nat /\ D = 1..n /\ \A i \in D : frags[i] \in CtFragment
  OBVIOUS
<1>2. \A i \in D : sc[i] = frags[i].score /\ key[i] = i
  OBVIOUS
<1>3. \A i \in D : frags[i].score \in 0..AnchorScore
  BY <1>1 DEF CtFragment
<1>4. AnchorScore \in Nat
  BY CitationConstants
<1>5. \A i \in D : sc[i] \in Int /\ key[i] \in Int
  BY <1>1, <1>2, <1>3, <1>4
<1>6. IsFiniteSet(D) /\ Cardinality(D) = n
  BY <1>1, FS_Interval
<1> HIDE DEF sc, key
<1>7. Comparable(D, sc, key)
  BY <1>2, <1>5, <1>6 DEF Comparable
<1>8. FragOrder(frags) = r
  BY DEF FragOrder, sc, key, r
<1> HIDE DEF r
<1>9. /\ r \in Seq(D) /\ Len(r) = n
      /\ \A e \in D : \E i \in 1..n : r[i] = e
      /\ \A i, j \in 1..n : i <= j => sc[r[i]] >= sc[r[j]]
  BY <1>6, <1>7, RankedAll DEF r
<1>10. \A i \in 1..n : r[i] \in D
  BY <1>1, <1>9
<1> QED BY <1>1, <1>2, <1>8, <1>9, <1>10

LEMMA KeepsComputed ==
  ASSUME NEW frags \in Seq(CtFragment), NEW max \in Nat
  PROVE  \E k : KeepsUpTo(k, frags, max)
<1> DEFINE n == Len(frags)
           S == SUBSET (1..n)
           r == FragOrder(frags)
           Keep(K, i) == IF Spent(frags, K \cup {r[i]}) > max THEN K ELSE K \cup {r[i]}
           g == [i \in 1..n |-> [K \in S |-> Keep(K, i)]]
<1>1. n \in Nat /\ \A i \in 1..n : r[i] \in 1..n
  BY FragsRanked
<1>2. g \in [1..n -> [S -> S]] /\ {} \in S
  <2>1. ASSUME NEW i \in 1..n, NEW K \in S PROVE Keep(K, i) \in S
    BY <1>1
  <2> HIDE DEF Keep, S
  <2>2. g \in [1..n -> [S -> S]]
    BY <2>1
  <2> QED BY <2>2 DEF S
<1>3. \A i \in 1..n : \A K \in S : g[i][K] = Keep(K, i)
  OBVIOUS
<1> HIDE DEF g
<1>4. \E f \in [0..n -> S] : Follows(f, n, {}, g)
  BY <1>1, <1>2, Recursion
<1>5. PICK f \in [0..n -> S] : f[0] = {} /\ \A i \in 1..n : f[i] = g[i][f[i - 1]]
  BY <1>4 DEF Follows
<1> HIDE DEF S
<1>6. \A i \in 1..n : f[i] = Keep(f[i - 1], i)
  <2> TAKE i \in 1..n
  <2>1. i - 1 \in 0..n
    BY <1>1
  <2>2. f[i - 1] \in S
    BY <1>5, <2>1
  <2> HIDE DEF Keep
  <2> QED BY <1>3, <1>5, <2>2
<1> DEFINE Runs(h) == h = [i \in 0..n |-> IF i = 0 THEN {} ELSE IF Spent(frags, h[i - 1] \cup {r[i]}) > max THEN h[i - 1]
                                          ELSE h[i - 1] \cup {r[i]}]
           F == CHOOSE h : Runs(h)
<1>7. Runs(f)
  <2>1. \A i \in 0..n : i # 0 => i \in 1..n
    BY <1>1
  <2>2. f = [i \in 0..n |-> f[i]]
    BY <1>5
  <2>3. \A i \in 0..n : f[i] = IF i = 0 THEN {} ELSE IF Spent(frags, f[i - 1] \cup {r[i]}) > max THEN f[i - 1]
                                          ELSE f[i - 1] \cup {r[i]}
    BY <1>5, <1>6, <2>1
  <2> QED BY <2>2, <2>3
<1>8. Runs(F)
  <2> HIDE DEF Runs
  <2> QED BY <1>7, Zenon
<1>9. KeptFragments(frags, max) = F[n]
  BY DEF KeptFragments, r, FragOrder
<1> HIDE DEF F
<1>10. \A i \in 0..n : F[i] = IF i = 0 THEN {} ELSE Keep(F[i - 1], i)
  BY <1>8
<1> HIDE DEF Runs, Keep
<1>11. \A i \in Nat : i \in 0..n => F[i] = f[i]
  <2> DEFINE T == {i \in Nat : i \in 0..n => F[i] = f[i]}
  <2>1. 0 \in T
    <3>1. 0 \in 0..n
      BY <1>1
    <3> QED BY <1>5, <1>10, <3>1
  <2>2. ASSUME NEW i \in Nat, i \in T PROVE i + 1 \in T
    <3> SUFFICES ASSUME i + 1 \in 0..n PROVE F[i + 1] = f[i + 1]
      OBVIOUS
    <3>1. i \in 0..n /\ i + 1 \in 1..n /\ i + 1 # 0 /\ (i + 1) - 1 = i
      BY <1>1
    <3>2. F[i] = f[i]
      BY <2>2, <3>1
    <3>3. F[i + 1] = Keep(F[(i + 1) - 1], i + 1)
      BY <1>10, <3>1
    <3>4. f[i + 1] = Keep(f[(i + 1) - 1], i + 1)
      BY <1>6, <3>1
    <3> QED BY <3>1, <3>2, <3>3, <3>4
  <2> HIDE DEF T
  <2>3. Nat \subseteq T
    BY <2>1, <2>2, Induct
  <2> QED BY <2>3 DEF T
<1>12. KeptFragments(frags, max) = f[n]
  <2>1. n \in 0..n
    BY <1>1
  <2> QED BY <1>1, <1>9, <1>11, <2>1
<1>13. KeepsUpTo(f, frags, max)
  BY <1>5, <1>6, <1>12 DEF KeepsUpTo, Keep, S, r
<1> QED BY <1>13

\* What is kept fits, what is left out does not fit beside it, and only what scores at
\* least as well stood in its way.
LEMMA KeptIsWhole ==
  ASSUME NEW frags \in Seq(CtFragment), NEW max \in Nat
  PROVE  LET kept == KeptFragments(frags, max)
         IN /\ kept \subseteq DOMAIN frags /\ Spent(frags, kept) <= max
            /\ \A j \in (DOMAIN frags) \ kept :
                 \E before \in SUBSET kept :
                    /\ Spent(frags, before \cup {j}) > max
                    /\ \A b \in before : frags[b].score >= frags[j].score
<1> DEFINE n == Len(frags)
           r == FragOrder(frags)
<1>1. PICK k : KeepsUpTo(k, frags, max)
  BY KeepsComputed
<1>2. /\ n \in Nat /\ DOMAIN frags = 1..n
      /\ \A i \in 1..n : r[i] \in 1..n
      /\ \A j \in 1..n : \E i \in 1..n : r[i] = j
      /\ \A i, j \in 1..n : i <= j => frags[r[i]].score >= frags[r[j]].score
  BY FragsRanked
<1>3. /\ k \in [0..n -> SUBSET (1..n)] /\ k[0] = {} /\ KeptFragments(frags, max) = k[n]
      /\ \A i \in 1..n : k[i] = IF Spent(frags, k[i - 1] \cup {r[i]}) > max THEN k[i - 1] ELSE k[i - 1] \cup {r[i]}
  BY <1>1 DEF KeepsUpTo
<1> HIDE DEF r
<1> DEFINE Good(i) == /\ Spent(frags, k[i]) <= max
                      /\ \A b \in k[i] : \E m \in 1..i : r[m] = b
                      /\ \A m \in 0..i : k[m] \subseteq k[i]
<1>4. \A i \in Nat : i \in 0..n => Good(i)
  <2> DEFINE T == {i \in Nat : i \in 0..n => Good(i)}
  <2>1. 0 \in T
    <3>1. Spent(frags, k[0]) <= max
      BY <1>3, NothingSpent
    <3>2. \A m \in 0..0 : m = 0
      OBVIOUS
    <3>3. \A m \in 0..0 : k[m] \subseteq k[0]
      BY <3>2
    <3>4. \A b \in k[0] : \E m \in 1..0 : r[m] = b
      BY <1>3
    <3> QED BY <3>1, <3>3, <3>4
  <2>2. ASSUME NEW i \in Nat, i \in T PROVE i + 1 \in T
    <3> SUFFICES ASSUME i + 1 \in 0..n PROVE Good(i + 1)
      OBVIOUS
    <3>1. i \in 0..n /\ i + 1 \in 1..n /\ (i + 1) - 1 = i
      BY <1>2
    <3>2. Good(i)
      BY <2>2, <3>1
    <3>3. k[i + 1] = IF Spent(frags, k[i] \cup {r[i + 1]}) > max THEN k[i] ELSE k[i] \cup {r[i + 1]}
      BY <1>3, <3>1
    <3> DEFINE c == Spent(frags, k[i] \cup {r[i + 1]})
    <3>4. c \in Nat
      BY SpentGrows
    <3>5. Spent(frags, k[i + 1]) <= max
      <4>1. CASE c > max
        BY <3>2, <3>3, <4>1
      <4>2. CASE ~(c > max)
        <5>1. c <= max
          BY <3>4, <4>2
        <5> QED BY <3>3, <4>2, <5>1
      <4> QED BY <4>1, <4>2
    <3>6. \A m \in 1..(i + 1) : m \in 1..i \/ m = i + 1
      OBVIOUS
    <3>7. \A m \in 0..(i + 1) : m \in 0..i \/ m = i + 1
      OBVIOUS
    <3>8. 1..i \subseteq 1..(i + 1) /\ i + 1 \in 1..(i + 1)
      OBVIOUS
    <3> HIDE DEF c
    <3>9. k[i + 1] \subseteq k[i] \cup {r[i + 1]} /\ k[i] \subseteq k[i + 1]
      BY <3>3
    <3>10. \A b \in k[i + 1] : \E m \in 1..(i + 1) : r[m] = b
      BY <3>2, <3>8, <3>9
    <3>11. \A m \in 0..(i + 1) : k[m] \subseteq k[i + 1]
      BY <3>2, <3>7, <3>9
    <3> QED BY <3>5, <3>10, <3>11
  <2> HIDE DEF T, Good
  <2>3. Nat \subseteq T
    BY <2>1, <2>2, Induct
  <2> QED BY <2>3 DEF T
<1>5. n \in Nat /\ n \in 0..n /\ Good(n)
  <2>1. n \in Nat /\ n \in 0..n
    BY <1>2
  <2> HIDE DEF Good, n
  <2> QED BY <1>4, <2>1
<1>6. k[n] \subseteq DOMAIN frags
  BY <1>2, <1>3, <1>5
<1>7. ASSUME NEW j \in (DOMAIN frags) \ k[n]
      PROVE  \E before \in SUBSET k[n] :
                    /\ Spent(frags, before \cup {j}) > max
                    /\ \A b \in before : frags[b].score >= frags[j].score
  <2>1. PICK i \in 1..n : r[i] = j
    BY <1>2
  <2>2. i - 1 \in 0..n /\ i \in 0..n /\ i - 1 \in Nat /\ \A m \in 1..(i - 1) : m \in 1..n /\ m <= i
    BY <1>2
  <2>3. Good(i - 1)
    BY <1>4, <2>2
  <2>4. k[i] \subseteq k[n] /\ k[i - 1] \subseteq k[n]
    BY <1>5, <2>2
  <2>5. j \notin k[i]
    BY <2>4
  <2>6. Spent(frags, k[i - 1] \cup {j}) > max
    BY <1>3, <2>1, <2>5
  <2>7. \A b \in k[i - 1] : frags[b].score >= frags[j].score
    BY <1>2, <2>1, <2>2, <2>3
  <2>8. k[i - 1] \in SUBSET k[n]
    BY <2>4
  <2> QED BY <2>6, <2>7, <2>8
<1> HIDE DEF Good
<1>8. Spent(frags, k[n]) <= max
  BY <1>5 DEF Good
<1> QED BY <1>3, <1>6, <1>7, <1>8

-----------------------------------------------------------------------------
(* What a probe, a recall and a packet see of a world.                      *)

LEMMA WorldHolds ==
  ASSUME ctWorld \in CtWorlds
  PROVE  /\ DOMAIN ctWorld.events \subseteq Nat /\ ctWorld.shards \in Seq(DOMAIN ctWorld.events)
         /\ \A i \in DOMAIN ctWorld.shards : ctWorld.shards[i] \in DOMAIN ctWorld.events
         /\ ctWorld.indexBudget \in Nat /\ ctWorld.digestBudget \in Nat
<1>1. /\ DOMAIN ctWorld.events \subseteq Nat /\ ctWorld.shards \in Seq(DOMAIN ctWorld.events)
      /\ ctWorld.indexBudget \in Nat /\ ctWorld.digestBudget \in Nat
  BY CitationInputs
<1>2. DOMAIN ctWorld.shards = 1..Len(ctWorld.shards)
      /\ \A i \in 1..Len(ctWorld.shards) : ctWorld.shards[i] \in DOMAIN ctWorld.events
  <2> DEFINE D == DOMAIN ctWorld.events
             t == ctWorld.shards
  <2>1. t \in Seq(D)
    BY <1>1
  <2> HIDE DEF D, t
  <2>2. DOMAIN t = 1..Len(t) /\ \A i \in 1..Len(t) : t[i] \in D
    BY <2>1
  <2> QED BY <2>2 DEF D, t
<1> QED BY <1>1, <1>2

LEMMA ShardHolds ==
  ASSUME ctWorld \in CtWorlds, NEW s \in DOMAIN ctWorld.events
  PROVE  /\ ShardEvents(s) \in Seq(CtEvent) /\ DOMAIN ShardEvents(s) = 1..Len(ShardEvents(s))
         /\ EventIds(s) \subseteq Nat /\ IsFiniteSet(EventIds(s))
         /\ EventIds(s) = {ShardEvents(s)[i].id : i \in 1..Len(ShardEvents(s))}
         /\ \A id \in EventIds(s) : EventOf(s, id) \in CtEvent
<1> DEFINE v == ShardEvents(s)
           n == Len(v)
           q == [i \in 1..n |-> v[i].id]
<1>1. v \in Seq(CtEvent)
  BY CitationInputs DEF ShardEvents
<1>2. n \in Nat /\ DOMAIN v = 1..n /\ ToSet(v) = {v[i] : i \in 1..n} /\ ToSet(v) \subseteq CtEvent
  BY <1>1, SeqFinite
<1>3. EventIds(s) = {v[i].id : i \in 1..n}
  BY <1>2 DEF EventIds
<1>4. \A e \in CtEvent : e.id \in Nat
  BY DEF CtEvent
<1>5. q \in Seq(Nat)
  <2>1. \A i \in 1..n : v[i] \in CtEvent
    BY <1>2
  <2>2. \A i \in 1..n : v[i].id \in Nat
    BY <1>4, <2>1
  <2> QED BY <1>2, <2>2
<1>6. IsFiniteSet(ToSet(q)) /\ ToSet(q) = {q[i] : i \in 1..Len(q)} /\ ToSet(q) \subseteq Nat
  <2> HIDE DEF q
  <2> QED BY <1>5, SeqFinite
<1>7. ToSet(q) = EventIds(s)
  BY <1>2, <1>3, <1>6
<1>8. ASSUME NEW id \in EventIds(s) PROVE EventOf(s, id) \in CtEvent
  <2>1. \E e \in ToSet(v) : e.id = id
    BY <1>8 DEF EventIds
  <2>2. EventOf(s, id) \in ToSet(v)
    BY <2>1 DEF EventOf
  <2> QED BY <1>2, <2>2
<1> HIDE DEF v, n, q
<1> QED BY <1>1, <1>2, <1>3, <1>6, <1>7, <1>8 DEF v, n

\* A ranked list is packed from its best: nothing shown is less relevant than what is not.
LEMMA IndexIsBest ==
  ASSUME ctWorld \in CtWorlds, NEW s \in DOMAIN ctWorld.events
  PROVE  \A shown \in ToSet(CompactEventIndex(s)), out \in EventIds(s) \ ToSet(CompactEventIndex(s)) :
            Relevance(s)[shown] >= Relevance(s)[out]
<1> DEFINE S == EventIds(s)
           sc == Relevance(s)
           key == IdOrder(s)
           cost == IndexLine(s)
           r == Ranked(S, sc, key)
           n == Cardinality(S)
           budget == ctWorld.indexBudget
<1>1. S \subseteq Nat /\ IsFiniteSet(S) /\ \A id \in S : EventOf(s, id) \in CtEvent
  BY ShardHolds
<1>2. \A id \in S : sc[id] \in Nat
  <2> TAKE id \in S
  <2> DEFINE e == EventOf(s, id)
  <2>1. IsFiniteSet(e.tags \cap CtQuery) /\ IsFiniteSet(e.text \cap CtQuery)
    BY CitationConstants, FS_Subset
  <2>2. Cardinality(e.tags \cap CtQuery) \in Nat /\ Cardinality(e.text \cap CtQuery) \in Nat
    BY <2>1, FS_CardinalityType
  <2>3. sc[id] = 2 * Cardinality(e.tags \cap CtQuery) + Cardinality(e.text \cap CtQuery)
    BY DEF Relevance
  <2> DEFINE a == Cardinality(e.tags \cap CtQuery)
             b == Cardinality(e.text \cap CtQuery)
  <2> HIDE DEF a, b
  <2>4. a \in Nat /\ b \in Nat /\ sc[id] = 2 * a + b
    BY <2>2, <2>3 DEF a, b
  <2> QED BY <2>4
<1>3. cost \in [S -> Nat]
  <2>1. ASSUME NEW id \in S
        PROVE  EventOf(s, id).head + (IF EventOf(s, id).tags # {} /\ ~UniformTags(s) THEN TagCost ELSE 0) \in Nat
    <3>1. EventOf(s, id).head \in Nat
      BY <1>1 DEF CtEvent
    <3>2. TagCost \in Nat
      BY CitationConstants
    <3> DEFINE h == EventOf(s, id).head
               t == IF EventOf(s, id).tags # {} /\ ~UniformTags(s) THEN TagCost ELSE 0
    <3>3. t \in Nat
      BY <3>2
    <3> HIDE DEF t, h
    <3>4. h + t \in Nat
      BY <3>1, <3>3 DEF h
    <3> QED BY <3>4 DEF h, t
  <2> QED BY <2>1 DEF IndexLine
<1>4. key = [id \in S |-> id]
  BY DEF IdOrder
<1>5. CompactEventIndex(s) = PackToBudget(r, cost, budget, 0)
  BY DEF CompactEventIndex
<1>6. budget \in Nat
  BY WorldHolds
<1> HIDE DEF S, sc, key, cost, budget
<1>7. Comparable(S, sc, key)
  BY <1>1, <1>2, <1>4 DEF Comparable
<1>8. /\ n \in Nat /\ r \in Seq(S) /\ Len(r) = n
      /\ \A e \in S : \E i \in 1..n : r[i] = e
      /\ \A i, j \in 1..n : i <= j => sc[r[i]] >= sc[r[j]]
  BY <1>7, RankedAll
<1> HIDE DEF r, n
<1>9. PICK m \in 0..n : PackToBudget(r, cost, budget, 0) = SubSeq(r, 1, m)
  <2>1. 0 \in Nat
    OBVIOUS
  <2>2. \E m \in 0..Len(r) : PackToBudget(r, cost, budget, 0) = SubSeq(r, 1, m)
    BY <1>3, <1>6, <1>8, <2>1, PackKeeps
  <2> QED BY <1>8, <2>2
<1>10. ToSet(SubSeq(r, 1, m)) = {r[i] : i \in 1..m}
  <2>1. m \in Nat /\ m <= n
    BY <1>8, <1>9
  <2>2. DOMAIN SubSeq(r, 1, m) = 1..m /\ \A i \in 1..m : SubSeq(r, 1, m)[i] = r[i]
    BY <1>8, <2>1
  <2> QED BY <2>2 DEF ToSet
<1>11. ASSUME NEW shown \in {r[i] : i \in 1..m}, NEW out \in S \ {r[i] : i \in 1..m} PROVE sc[shown] >= sc[out]
  <2>1. PICK i \in 1..m : shown = r[i]
    OBVIOUS
  <2>2. PICK j \in 1..n : r[j] = out
    BY <1>8
  <2>3. j \notin 1..m
    BY <2>2
  <2>4. i \in 1..n /\ i <= j
    BY <1>8, <1>9, <2>3
  <2> QED BY <1>8, <2>1, <2>2, <2>4
<1> QED BY <1>5, <1>9, <1>10, <1>11 DEF S, sc

\* The events of a shard that a reply names, and whether it names others.
LEMMA OfShardKeeps ==
  ASSUME NEW s, NEW ids \in Seq(Nat)
  PROVE  /\ OfShard(s, ids) \in Seq(Nat) /\ ToSet(OfShard(s, ids)) \subseteq EventIds(s)
         /\ OfShard(s, ids) # ids <=> ~(ToSet(ids) \subseteq EventIds(s))
<1> DEFINE P == {i \in DOMAIN ids : ids[i] \in EventIds(s)}
           n == Len(ids)
           E == EventIds(s)
<1> HIDE DEF E
<1>1. n \in Nat /\ DOMAIN ids = 1..n /\ ToSet(ids) = {ids[i] : i \in 1..n}
  BY SeqFinite
<1>2. P \subseteq DOMAIN ids /\ OfShard(s, ids) = ItemsAt(ids, P)
  BY DEF OfShard, E
<1>3. ItemsAt(ids, P) \in Seq(Nat) /\ ToSet(ItemsAt(ids, P)) = {ids[i] : i \in P}
  <2> HIDE DEF P
  <2> QED BY <1>2, FilterKeeps
<1>4. {ids[i] : i \in P} \subseteq E
  BY DEF E
<1>5. ASSUME ToSet(ids) \subseteq E PROVE ItemsAt(ids, P) = ids
  <2>1. P = 1..n
    BY <1>1, <1>5 DEF E
  <2> DEFINE f == [i \in 1..n |-> i]
  <2>2. Lists(f, n, 1..n)
    BY <1>1 DEF Lists
  <2>3. IsFiniteSet(1..n) /\ 1..n \subseteq Nat
    BY <1>1, FS_Interval
  <2>4. ItemsAt(ids, 1..n) = [k \in 1..n |-> ids[f[k]]]
    BY <1>1, <2>2, <2>3, ItemsUnique
  <2>5. ids = [k \in 1..n |-> ids[k]]
    BY <1>1
  <2> QED BY <2>1, <2>4, <2>5
<1>6. ASSUME ItemsAt(ids, P) = ids PROVE ToSet(ids) \subseteq E
  BY <1>3, <1>4, <1>6
<1> QED BY <1>2, <1>3, <1>4, <1>5, <1>6 DEF E

\* The candidates of a recall are the events of the shard, the hinted ones first.
LEMMA CandidatesLed ==
  ASSUME ctWorld \in CtWorlds, NEW s \in DOMAIN ctWorld.events, NEW hint \in Seq(Nat)
  PROVE  \E a, b \in Seq(EventIds(s)) :
            /\ OrderCandidates(s, hint) = a \o b
            /\ ToSet(a) = ToSet(hint) \cap EventIds(s)
<1> DEFINE places == DOMAIN ShardEvents(s)
           key == [i \in places |-> i]
           order == IF ctWorld.signals THEN Ranked(places, Salience(s), key) ELSE key
           ids == [i \in DOMAIN order |-> ShardEvents(s)[order[i]].id]
           hinted == {i \in DOMAIN ids : Contains(hint, ids[i])}
           n == Len(ShardEvents(s))
           E == EventIds(s)
<1>1. /\ ShardEvents(s) \in Seq(CtEvent) /\ n \in Nat /\ places = 1..n
      /\ E = {ShardEvents(s)[i].id : i \in 1..n}
  BY ShardHolds
<1>2. order \in Seq(places) /\ Len(order) = n /\ DOMAIN order = 1..n /\ \A p \in places : \E i \in 1..n : order[i] = p
  <2>1. CASE ~ctWorld.signals
    BY <1>1, <2>1
  <2>2. CASE ctWorld.signals
    <3> DEFINE sc == Salience(s)
    <3>1. IsFiniteSet(places) /\ Cardinality(places) = n
      <4>1. 1 \in Int /\ n \in Int
        BY <1>1
      <4>2. IsFiniteSet(1..n) /\ Cardinality(1..n) = IF 1 > n THEN 0 ELSE n - 1 + 1
        BY <4>1, FS_Interval
      <4> HIDE DEF n
      <4>3. Cardinality(1..n) = n
        BY <1>1, <4>2
      <4> QED BY <1>1, <4>2, <4>3
    <3>2. ASSUME NEW i \in places PROVE sc[i] \in Int
      <4> DEFINE T == (ShardEvents(s)[i].text \cup ShardEvents(s)[i].tags) \cap CtQuery
      <4>1. IsFiniteSet(T)
        BY CitationConstants, FS_Subset
      <4>2. Cardinality(T) \in Nat
        BY <4>1, FS_CardinalityType
      <4>3. sc[i] = Cardinality(T)
        BY DEF Salience
      <4> QED BY <4>2, <4>3
    <3>3. \A i \in places : key[i] = i /\ key[i] \in Int
      BY <1>1
    <3> HIDE DEF sc, key
    <3>4. Comparable(places, sc, key)
      BY <3>1, <3>2, <3>3 DEF Comparable
    <3> DEFINE r == Ranked(places, sc, key)
    <3>5. r \in Seq(places) /\ Len(r) = n /\ DOMAIN r = 1..n /\ \A p \in places : \E i \in 1..n : r[i] = p
      BY <3>1, <3>4, RankedAll
    <3>6. order = r
      BY <2>2 DEF sc
    <3> QED BY <3>5, <3>6
  <2> QED BY <2>1, <2>2
<1> HIDE DEF order
<1>3. \A i \in 1..n : order[i] \in 1..n
  BY <1>1, <1>2
<1>4. ids = [i \in 1..n |-> ShardEvents(s)[order[i]].id] /\ DOMAIN ids = 1..n
  BY <1>2
<1> HIDE DEF ids, places
<1>5. ids \in Seq(E) /\ ToSet(ids) = E
  <2>1. \A i \in 1..n : ids[i] \in E
    BY <1>1, <1>3, <1>4
  <2>2. ids \in Seq(E)
    BY <1>1, <1>4, <2>1
  <2>3. ASSUME NEW x \in E PROVE x \in ToSet(ids)
    <3>1. PICK p \in 1..n : x = ShardEvents(s)[p].id
      BY <1>1
    <3>2. PICK i \in 1..n : order[i] = p
      BY <1>1, <1>2
    <3>3. ids[i] = x
      BY <1>4, <3>1, <3>2
    <3> QED BY <1>4, <3>3 DEF ToSet
  <2>4. ToSet(ids) \subseteq E
    BY <1>4, <2>1 DEF ToSet
  <2> QED BY <2>2, <2>3, <2>4
<1> DEFINE rest == DOMAIN ids \ hinted
<1>6. OrderCandidates(s, hint) = ItemsAt(ids, hinted) \o ItemsAt(ids, rest)
  BY DEF OrderCandidates, ids, order, places
<1>7. hinted \subseteq DOMAIN ids /\ rest \subseteq DOMAIN ids
  OBVIOUS
<1> HIDE DEF rest
<1>8. /\ ItemsAt(ids, hinted) \in Seq(E) /\ ItemsAt(ids, rest) \in Seq(E)
      /\ ToSet(ItemsAt(ids, hinted)) = {ids[i] : i \in hinted}
  <2> HIDE DEF E, hinted
  <2> QED BY <1>5, <1>7, FilterKeeps
<1>9. {ids[i] : i \in hinted} = ToSet(hint) \cap E
  <2>1. \A x : Contains(hint, x) <=> x \in ToSet(hint)
    BY SeqFinite DEF Contains
  <2>2. ToSet(ids) = {ids[i] : i \in DOMAIN ids}
    BY DEF ToSet
  <2> QED BY <1>5, <2>1, <2>2
<1> HIDE DEF hinted
<1> QED BY <1>6, <1>8, <1>9 DEF E

\* A digest that does not hold every hinted event holds hinted events only.
LEMMA DigestLed ==
  ASSUME ctWorld \in CtWorlds, NEW s \in DOMAIN ctWorld.events, NEW hint \in Seq(Nat)
  PROVE  \/ ToSet(EventDigest(s, hint)) \subseteq ToSet(hint) \cap EventIds(s)
         \/ ToSet(hint) \cap EventIds(s) \subseteq ToSet(EventDigest(s, hint))
<1> DEFINE E == EventIds(s)
           H == ToSet(hint) \cap E
           cost == [id \in E |-> 1 + BodyLength(EventOf(s, id))]
           budget == ctWorld.digestBudget
<1>1. PICK a \in Seq(E), b \in Seq(E) : OrderCandidates(s, hint) = a \o b /\ ToSet(a) = H
  BY CandidatesLed
<1>2. cost \in [E -> Nat]
  <2> SUFFICES ASSUME NEW id \in E PROVE 1 + BodyLength(EventOf(s, id)) \in Nat
    OBVIOUS
  <2> DEFINE e == EventOf(s, id)
             kept == KeptFragments(e.frags, PerEvent)
             whole == JoinedLength(e.frags, DOMAIN e.frags)
  <2>1. e \in CtEvent
    BY ShardHolds
  <2>2. e.frags \in Seq(CtFragment)
    BY <2>1 DEF CtEvent
  <2>3. PerEvent \in Nat
    BY CitationConstants
  <2>4. ASSUME NEW T PROVE 1 + JoinedLength(e.frags, T) \in Nat
    <3>1. Spent(e.frags, T) \in Nat
      BY <2>2, SpentGrows
    <3> DEFINE c == Spent(e.frags, T)
    <3> HIDE DEF c
    <3>2. c \in Nat /\ JoinedLength(e.frags, T) = IF T = {} THEN 0 ELSE c - 1
      BY <3>1 DEF JoinedLength, c
    <3> QED BY <3>2
  <2>5. \/ BodyLength(e) = whole
        \/ BodyLength(e) = PerEvent
        \/ BodyLength(e) = JoinedLength(e.frags, kept)
    BY DEF BodyLength
  <2>6. CASE BodyLength(e) = whole
    BY <2>4, <2>6
  <2>7. CASE BodyLength(e) = PerEvent
    BY <2>3, <2>7
  <2>8. CASE BodyLength(e) = JoinedLength(e.frags, kept)
    <3> HIDE DEF kept
    <3> QED BY <2>4, <2>8
  <2> QED BY <2>5, <2>6, <2>7, <2>8
<1>3. budget \in Nat
  BY WorldHolds
<1>4. EventDigest(s, hint) = PackToBudget(a \o b, cost, budget, 0)
  BY <1>1 DEF EventDigest
<1> HIDE DEF cost, budget, E, H
<1> DEFINE c == a \o b
<1>5. c \in Seq(E) /\ Len(c) = Len(a) + Len(b) /\ Len(a) \in Nat /\ Len(b) \in Nat
      /\ \A i \in 1..Len(a) : c[i] = a[i]
  BY <1>1
<1> HIDE DEF c
<1>6. PICK m \in 0..Len(c) : PackToBudget(c, cost, budget, 0) = SubSeq(c, 1, m)
  <2>1. 0 \in Nat
    OBVIOUS
  <2> QED BY <1>2, <1>3, <1>5, <2>1, PackKeeps
<1>7. m \in Nat /\ m <= Len(c)
  BY <1>5, <1>6
<1>8. ToSet(SubSeq(c, 1, m)) = {c[i] : i \in 1..m}
  <2>1. DOMAIN SubSeq(c, 1, m) = 1..m /\ \A i \in 1..m : SubSeq(c, 1, m)[i] = c[i]
    BY <1>5, <1>7
  <2> QED BY <2>1 DEF ToSet
<1>9. ToSet(a) = {a[i] : i \in 1..Len(a)}
  BY <1>1, SeqFinite
<1>10. CASE m <= Len(a)
  <2>1. 1..m \subseteq 1..Len(a)
    BY <1>5, <1>7, <1>10
  <2>2. {c[i] : i \in 1..m} \subseteq ToSet(a)
    BY <1>5, <1>9, <2>1
  <2> QED BY <1>1, <1>4, <1>6, <1>8, <2>2 DEF c, H, E
<1>11. CASE ~(m <= Len(a))
  <2>1. 1..Len(a) \subseteq 1..m
    BY <1>5, <1>7, <1>11
  <2>2. ToSet(a) \subseteq {c[i] : i \in 1..m}
    BY <1>5, <1>9, <2>1
  <2> QED BY <1>1, <1>4, <1>6, <1>8, <2>2 DEF c, H, E
<1> QED BY <1>10, <1>11

\* A reply that holds something holds a part of its form.
LEMMA AttemptHolds ==
  ASSUME NEW T, NEW Replies, Replies \subseteq [parts : Seq(T)], NEW r \in Attempts(Replies), r # {}
  PROVE  (CHOOSE x \in r : TRUE) \in T
<1>1. PICK reply \in Replies : r = Salvage(reply)
  BY DEF Attempts
<1> DEFINE ok == {i \in DOMAIN reply.parts : reply.parts[i].valid}
<1>2. reply.parts \in Seq(T)
  OBVIOUS
<1>3. DOMAIN reply.parts = 1..Len(reply.parts) /\ Len(reply.parts) \in Nat
  BY <1>2, SeqFinite
<1>4. ok # {} /\ r = {reply.parts[Max(ok)]}
  BY <1>1 DEF Salvage
<1>5. ok \subseteq 1..Len(reply.parts)
  BY <1>3
<1> HIDE DEF ok
<1>6. IsFiniteSet(ok) /\ ok \subseteq Int
  BY <1>3, <1>5, UpToFinite
<1>7. Max(ok) \in ok
  BY <1>4, <1>6, MaxExists
<1>8. reply.parts[Max(ok)] \in T
  <2> DEFINE parts == reply.parts
             m == Max(ok)
  <2> HIDE DEF parts, m
  <2>1. parts \in Seq(T) /\ m \in 1..Len(parts)
    BY <1>2, <1>5, <1>7 DEF parts, m
  <2>2. parts[m] \in T
    BY <2>1
  <2> QED BY <2>2 DEF parts, m
<1>9. (CHOOSE x \in r : TRUE) \in r
  BY <1>4
<1> QED BY <1>4, <1>8, <1>9

\* The verdict of a batch about one shard is what was said first of it.
SaidOf(s, vs) == ItemsAt(vs, {j \in DOMAIN vs : vs[j].shard = s})
FirstSaid(v, s, vs) == /\ ToSet(v.ids) \subseteq EventIds(s)
                       /\ v.knows <=> SaidOf(s, vs) # << >> /\ SaidOf(s, vs)[1].knows

LEMMA BatchHolds ==
  ASSUME NEW s \in Nat, NEW vs \in Seq(CtVerdict)
  PROVE  /\ BatchVerdict(s, vs) \in CtVerdict /\ BatchVerdict(s, vs).shard = s
         /\ FirstSaid(BatchVerdict(s, vs), s, vs)
<1> DEFINE P == {j \in DOMAIN vs : vs[j].shard = s}
           v == BatchVerdict(s, vs)
           said == SaidOf(s, vs)
           n == Len(vs)
<1>1. n \in Nat /\ DOMAIN vs = 1..n /\ \A i \in 1..n : vs[i] \in CtVerdict
  OBVIOUS
<1>2. P \subseteq DOMAIN vs /\ P \subseteq 1..n
  BY <1>1
<1>3. v = IF P = {} THEN [shard |-> s, knows |-> FALSE, ids |-> << >>]
          ELSE [shard |-> s, knows |-> vs[Min(P)].knows, ids |-> OfShard(s, vs[Min(P)].ids)]
  BY DEF BatchVerdict
<1>0. said = ItemsAt(vs, P)
  BY DEF SaidOf
<1> HIDE DEF P
<1>4. /\ said \in Seq(CtVerdict) /\ Len(said) = Cardinality(P) /\ Cardinality(P) \in Nat
      /\ \E p : Lists(p, Cardinality(P), P) /\ \A k \in 1..Cardinality(P) : said[k] = vs[p[k]]
  BY <1>0, <1>2, FilterKeeps
<1> HIDE DEF v, said
<1>5. CASE P = {}
  <2>1. Len(said) = 0
    BY <1>4, <1>5, FS_EmptySet
  <2>2. said = << >>
    BY <1>4, <2>1
  <2>3. v = [shard |-> s, knows |-> FALSE, ids |-> << >>]
    BY <1>3, <1>5
  <2>4. v \in CtVerdict /\ v.shard = s /\ v.ids = << >> /\ v.knows = FALSE
    BY <2>3 DEF CtVerdict
  <2>5. ToSet(v.ids) = {}
    BY <2>4 DEF ToSet
  <2> QED BY <2>2, <2>4, <2>5 DEF v, said, FirstSaid
<1>6. CASE P # {}
  <2>1. PICK p : Lists(p, Cardinality(P), P) /\ \A k \in 1..Cardinality(P) : said[k] = vs[p[k]]
    BY <1>4
  <2> DEFINE c == Cardinality(P)
  <2>2. /\ c \in Nat /\ p \in [1..c -> P] /\ (\A i, j \in 1..c : i < j => p[i] < p[j])
        /\ \A i \in P : \E k \in 1..c : p[k] = i
    BY <2>1 DEF Lists
  <2>3. c >= 1 /\ 1 \in 1..c
    BY <1>6, <2>2
  <2>4. P \subseteq Int
    BY <1>1, <1>2
  <2>5. ASSUME NEW i \in P PROVE p[1] <= i
    <3>1. PICK k \in 1..c : p[k] = i
      BY <2>2
    <3>2. k = 1 \/ 1 < k
      BY <2>2
    <3>3. p[1] \in Int /\ i \in Int
      BY <2>2, <2>3, <2>4
    <3> QED BY <2>2, <2>3, <3>1, <3>2, <3>3
  <2>6. p[1] \in P /\ Min(P) = p[1]
    BY <2>2, <2>3, <2>4, <2>5, MinIs
  <2>7. said[1] = vs[Min(P)] /\ said # << >>
    BY <1>4, <2>1, <2>3, <2>6
  <2> DEFINE w == vs[Min(P)]
  <2>8. w \in CtVerdict
    BY <1>1, <1>2, <2>6
  <2>9. w.knows \in BOOLEAN /\ w.ids \in Seq(Nat)
    BY <2>8 DEF CtVerdict
  <2>10. v = [shard |-> s, knows |-> w.knows, ids |-> OfShard(s, w.ids)]
    BY <1>3, <1>6
  <2> HIDE DEF w
  <2>11. OfShard(s, w.ids) \in Seq(Nat) /\ ToSet(OfShard(s, w.ids)) \subseteq EventIds(s)
    BY <2>9, OfShardKeeps
  <2>12. v \in CtVerdict /\ v.shard = s /\ v.ids = OfShard(s, w.ids) /\ v.knows = w.knows
    BY <2>9, <2>10, <2>11 DEF CtVerdict
  <2>13. v.knows <=> said # << >> /\ said[1].knows
    BY <2>7, <2>12 DEF w
  <2> QED BY <2>11, <2>12, <2>13 DEF v, said, FirstSaid
<1> QED BY <1>5, <1>6

\* What a recall claims: the well-formed claims, each with the support the shard bears out.
CtRecalled == [shard : Nat, claims : Seq(Seq(Nat)), echoes : BOOLEAN, dropped : BOOLEAN]

BearsOut(r, s, reply) ==
    /\ r \in CtRecalled /\ r.shard = s /\ r.echoes = (reply.echo # s)
    /\ Len(r.claims) = Cardinality({j \in DOMAIN reply.claims : reply.claims[j].good})
    /\ \A ids \in ToSet(r.claims) : ToSet(ids) \subseteq EventIds(s)
    /\ r.dropped = (\E c \in ToSet(reply.claims) : c.good /\ ~(ToSet(c.support) \subseteq EventIds(s)))

LEMMA GroundedHolds ==
  ASSUME NEW s \in Nat, NEW reply, reply.claims \in Seq(CtClaim(Nat))
  PROVE  BearsOut(Grounded(s, reply), s, reply)
<1> DEFINE all == reply.claims
           P == {j \in DOMAIN all : all[j].good}
           claims == WellFormed(all)
           n == Len(claims)
           told == [i \in DOMAIN claims |-> OfShard(s, claims[i].support)]
           lost == \E i \in DOMAIN claims : OfShard(s, claims[i].support) # claims[i].support
           r == Grounded(s, reply)
<1>1. r = [shard |-> s, claims |-> told, echoes |-> reply.echo # s, dropped |-> lost]
  BY DEF Grounded
<1>2. claims = ItemsAt(all, P) /\ P \subseteq DOMAIN all
  BY DEF WellFormed
<1> HIDE DEF P, claims
<1>3. claims \in Seq(CtClaim(Nat)) /\ n = Cardinality(P) /\ ToSet(claims) = {all[i] : i \in P}
  BY <1>2, FilterKeeps
<1>4. n \in Nat /\ DOMAIN claims = 1..n /\ \A i \in 1..n : claims[i] \in CtClaim(Nat)
  BY <1>3
<1>5. \A i \in 1..n : claims[i].support \in Seq(Nat)
  BY <1>4 DEF CtClaim
<1>6. \A i \in 1..n : /\ OfShard(s, claims[i].support) \in Seq(Nat)
                      /\ ToSet(OfShard(s, claims[i].support)) \subseteq EventIds(s)
                      /\ OfShard(s, claims[i].support) # claims[i].support <=> ~(ToSet(claims[i].support) \subseteq EventIds(s))
  BY <1>5, OfShardKeeps
<1>7. told \in Seq(Seq(Nat)) /\ Len(told) = n /\ ToSet(told) = {OfShard(s, claims[i].support) : i \in 1..n}
  <2>1. told = [i \in 1..n |-> OfShard(s, claims[i].support)]
    BY <1>4
  <2>2. told \in Seq(Seq(Nat)) /\ Len(told) = n
    BY <1>4, <1>6, <2>1
  <2>3. ToSet(told) = {OfShard(s, claims[i].support) : i \in 1..n}
    BY <2>1 DEF ToSet
  <2> QED BY <2>2, <2>3
<1>8. lost <=> \E c \in ToSet(all) : c.good /\ ~(ToSet(c.support) \subseteq EventIds(s))
  <2>1. lost <=> \E i \in 1..n : ~(ToSet(claims[i].support) \subseteq EventIds(s))
    BY <1>4, <1>6
  <2>2. ToSet(claims) = {claims[i] : i \in 1..n}
    BY <1>4 DEF ToSet
  <2>3. lost <=> \E c \in ToSet(claims) : ~(ToSet(c.support) \subseteq EventIds(s))
    BY <2>1, <2>2
  <2>4. ToSet(claims) = {c \in ToSet(all) : c.good}
    BY <1>3 DEF P, ToSet
  <2> HIDE DEF lost
  <2> QED BY <2>3, <2>4
<1> DEFINE made == \E c \in ToSet(all) : c.good /\ ~(ToSet(c.support) \subseteq EventIds(s))
<1>9. lost = made
  BY <1>8
<1> HIDE DEF told, lost, made
<1>10. r.shard = s /\ r.claims = told
  BY <1>1
<1>11. r.echoes = (reply.echo # s) /\ r.dropped = lost
  BY <1>1
<1>12. r \in CtRecalled
  <2>1. lost \in BOOLEAN
    BY DEF lost
  <2> QED BY <1>1, <1>7, <2>1 DEF CtRecalled
<1>13. \A ids \in ToSet(told) : ToSet(ids) \subseteq EventIds(s)
  BY <1>6, <1>7
<1> HIDE DEF r
<1>14. Len(r.claims) = Cardinality(P)
  BY <1>3, <1>7, <1>10
<1> QED BY <1>9, <1>10, <1>11, <1>12, <1>13, <1>14 DEF r, P, made, BearsOut

-----------------------------------------------------------------------------
(* The stages of ask().                                                     *)

\* What the stages leave: the world of the run, and verdicts and claims of its shards.
CtTyped ==
    /\ ctWorld \in CtWorlds
    /\ ctVerdicts \in Seq(CtVerdict)
    /\ \A i \in DOMAIN ctVerdicts : ctVerdicts[i].shard \in DOMAIN ctWorld.events
    /\ ctClaims \in Seq(CtRecalled)
    /\ ctStage \in {"asked", "shown"} => ctDigest = << >> /\ ctClaims = << >>

CtInv == (ctStage # "idle" => CtTyped) /\ CitationsSound

LEMMA CtStarts == CtInit \/ CtIdle => CtInv
<1> SUFFICES ASSUME CtInit \/ CtIdle PROVE CtInv
  OBVIOUS
<1>1. /\ ctIndex = << >> /\ ctHeard = << >> /\ ctVerdicts = << >> /\ ctDigest = << >>
      /\ ctClaims = << >> /\ ctPacket = << >> /\ ctStage \in {"asked", "idle"}
      /\ ctStage = "asked" => ctWorld \in CtWorlds
  BY DEF CtInit, CtIdle, CtBlank
<1>2. ctStage # "idle" => CtTyped
  BY <1>1 DEF CtTyped
<1>3. IndexShowsBest /\ HintsLead /\ RecallGrounded
  BY <1>1 DEF IndexShowsBest, HintsLead, RecallGrounded
<1>4. VerdictPerShard /\ ExcerptWhole /\ OneBadClaim /\ SinglePacketGrounded
  BY <1>1 DEF VerdictPerShard, ExcerptWhole, OneBadClaim, SinglePacketGrounded
<1> QED BY <1>2, <1>3, <1>4 DEF CtInv, CitationsSound

LEMMA ShowSteps == CtInv /\ ShowIndex => CtInv'
<1> SUFFICES ASSUME CtInv, ShowIndex PROVE CtInv'
  OBVIOUS
<1>1. /\ ctStage = "asked" /\ ctStage' = "shown"
      /\ ctIndex' = [i \in DOMAIN ctWorld.shards |-> CompactEventIndex(ctWorld.shards[i])]
      /\ ctWorld' = ctWorld /\ ctVerdicts' = ctVerdicts /\ ctDigest' = ctDigest /\ ctClaims' = ctClaims
  BY DEF ShowIndex
<1>2. CtTyped /\ ctWorld \in CtWorlds /\ ctDigest = << >> /\ ctClaims = << >>
  BY <1>1 DEF CtInv, CtTyped
<1>3. CtTyped'
  BY <1>1, <1>2 DEF CtTyped
<1>4. IndexShowsBest'
  <2> SUFFICES ASSUME NEW i \in DOMAIN ctIndex'
               PROVE  (LET s == ctWorld.shards[i] IN
                          \A shown \in ToSet(ctIndex[i]), out \in EventIds(s) \ ToSet(ctIndex[i]) :
                             Relevance(s)[shown] >= Relevance(s)[out])'
    BY DEF IndexShowsBest
  <2> DEFINE s == ctWorld.shards[i]
  <2>1. i \in DOMAIN ctWorld.shards /\ ctIndex'[i] = CompactEventIndex(s) /\ s \in DOMAIN ctWorld.events
    BY <1>1, <1>2, WorldHolds
  <2>2. \A shown \in ToSet(CompactEventIndex(s)), out \in EventIds(s) \ ToSet(CompactEventIndex(s)) :
            Relevance(s)[shown] >= Relevance(s)[out]
    BY <1>2, <2>1, IndexIsBest
  <2>3. /\ (ctWorld.shards[i])' = s /\ EventIds(s)' = EventIds(s) /\ Relevance(s)' = Relevance(s)
    BY <1>1 DEF EventIds, Relevance, EventOf, ShardEvents
  <2> QED BY <1>1, <2>1, <2>2, <2>3 DEF EventIds, Relevance, EventOf, ShardEvents
<1>5. HintsLead' /\ RecallGrounded'
  BY <1>1, <1>2 DEF HintsLead, RecallGrounded
<1>6. VerdictPerShard' /\ ExcerptWhole' /\ OneBadClaim' /\ SinglePacketGrounded'
  BY <1>1 DEF VerdictPerShard, ExcerptWhole, OneBadClaim, SinglePacketGrounded
<1> QED BY <1>3, <1>4, <1>5, <1>6 DEF CtInv, CitationsSound

\* What was shown stays the best there is.
LEMMA IndexStays ==
  ASSUME IndexShowsBest, ctWorld' = ctWorld, ctIndex' = ctIndex
  PROVE  IndexShowsBest'
<1> SUFFICES ASSUME NEW i \in DOMAIN ctIndex
             PROVE  (LET s == ctWorld.shards[i] IN
                        \A shown \in ToSet(ctIndex[i]), out \in EventIds(s) \ ToSet(ctIndex[i]) :
                           Relevance(s)[shown] >= Relevance(s)[out])'
  BY DEF IndexShowsBest
<1> DEFINE s == ctWorld.shards[i]
<1>1. \A shown \in ToSet(ctIndex[i]), out \in EventIds(s) \ ToSet(ctIndex[i]) :
          Relevance(s)[shown] >= Relevance(s)[out]
  BY DEF IndexShowsBest
<1>2. (ctWorld.shards[i])' = s /\ EventIds(s)' = EventIds(s) /\ Relevance(s)' = Relevance(s)
  BY DEF EventIds, Relevance, EventOf, ShardEvents
<1> QED BY <1>1, <1>2 DEF EventIds, Relevance, EventOf, ShardEvents

LEMMA ProbeSteps == CtInv /\ ProbeShards => CtInv'
<1> SUFFICES ASSUME CtInv, ProbeShards PROVE CtInv'
  OBVIOUS
<1>1. /\ ctStage = "shown" /\ ctWorld' = ctWorld /\ ctIndex' = ctIndex /\ ctDigest' = ctDigest /\ ctClaims' = ctClaims
  BY DEF ProbeShards
<1>2. CtTyped /\ ctWorld \in CtWorlds /\ ctDigest = << >> /\ ctClaims = << >> /\ IndexShowsBest
  BY <1>1 DEF CtInv, CtTyped, CitationsSound
<1> DEFINE shards == ctWorld.shards
           D == DOMAIN ctWorld.events
<1>3. D \subseteq Nat /\ shards \in Seq(D) /\ \A i \in DOMAIN shards : shards[i] \in D
  BY <1>2, WorldHolds
<1>4. PICK solo \in Attempts(CtSolos), batch \in Attempts(CtBatches) :
         /\ ctStage' = IF solo = {} \/ batch = {} THEN "failed" ELSE "probed"
         /\ ctHeard' = IF solo = {} \/ batch = {} THEN << >>
                       ELSE (CHOOSE b \in batch : TRUE).verdicts
         /\ ctVerdicts' = IF solo = {} \/ batch = {} THEN << >>
                          ELSE [i \in DOMAIN shards |->
                                  IF i = 1 THEN SoloVerdict(shards[1], CHOOSE r \in solo : TRUE)
                                  ELSE BatchVerdict(shards[i], ctHeard')]
  BY DEF ProbeShards
<1> HIDE DEF shards, D
<1>5. ctStage' \in {"failed", "probed"}
  BY <1>4
<1>6. /\ ctVerdicts' \in Seq(CtVerdict) /\ (\A i \in DOMAIN ctVerdicts' : ctVerdicts'[i].shard \in D)
      /\ VerdictPerShard'
  <2>1. CASE solo = {} \/ batch = {}
    <3>1. ctVerdicts' = << >> /\ ctStage' = "failed"
      BY <1>4, <2>1
    <3> QED BY <3>1 DEF VerdictPerShard
  <2>2. CASE ~(solo = {} \/ batch = {})
    <3> DEFINE vs == (CHOOSE b \in batch : TRUE).verdicts
               r == CHOOSE x \in solo : TRUE
               n == Len(shards)
               V == [i \in 1..n |-> IF i = 1 THEN SoloVerdict(shards[1], r) ELSE BatchVerdict(shards[i], vs)]
    <3>1. vs \in Seq(CtVerdict)
      <4> DEFINE T == [valid : BOOLEAN, verdicts : Seq(CtVerdict)]
                 b == CHOOSE x \in batch : TRUE
      <4>1. CtBatches \subseteq [parts : Seq(T)] /\ batch # {}
        BY <2>2, CitationInputs
      <4> HIDE DEF T
      <4>2. b \in T
        BY <4>1, AttemptHolds
      <4> HIDE DEF b
      <4>3. b.verdicts \in Seq(CtVerdict)
        BY <4>2 DEF T
      <4> QED BY <4>3 DEF b
    <3>2. r.knows \in BOOLEAN /\ r.ids \in Seq(Nat)
      <4> DEFINE T == [valid : BOOLEAN, knows : BOOLEAN, ids : Seq(Nat)]
      <4>1. CtSolos \subseteq [parts : Seq(T)] /\ solo # {}
        BY <2>2, CitationInputs
      <4> HIDE DEF T
      <4>2. r \in T
        BY <4>1, AttemptHolds
      <4> HIDE DEF r
      <4> QED BY <4>2 DEF T
    <3>3. n \in Nat /\ DOMAIN shards = 1..n /\ shards = [i \in 1..n |-> shards[i]]
      BY <1>3
    <3>4. ctStage' = "probed" /\ ctHeard' = vs /\ ctVerdicts' = V
      BY <1>4, <2>2, <3>3
    <3> HIDE DEF vs, r, n
    <3>5. \A i \in 1..n : shards[i] \in D /\ shards[i] \in Nat
      BY <1>3, <3>3
    <3>6. ASSUME NEW i \in 1..n
          PROVE  V[i] \in CtVerdict /\ V[i].shard = shards[i] /\ (i > 1 => FirstSaid(V[i], shards[i], vs))
      <4>1. CASE i = 1
        <5>1. V[i] = SoloVerdict(shards[i], r)
          BY <4>1
        <5>2. V[i] \in CtVerdict /\ V[i].shard = shards[i]
          BY <3>2, <3>5, <5>1 DEF SoloVerdict, CtVerdict
        <5> QED BY <4>1, <5>2
      <4>2. CASE i # 1
        <5>1. V[i] = BatchVerdict(shards[i], vs)
          BY <4>2
        <5> HIDE DEF V
        <5> QED BY <3>1, <3>5, <5>1, BatchHolds
      <4> QED BY <4>1, <4>2
    <3>7. V \in Seq(CtVerdict) /\ DOMAIN V = 1..n /\ \A i \in 1..n : V[i].shard \in D
      <4>1. V = [i \in 1..n |-> V[i]]
        OBVIOUS
      <4> HIDE DEF V
      <4>2. V \in Seq(CtVerdict) /\ DOMAIN V = 1..n
        BY <3>3, <3>6, <4>1
      <4> QED BY <3>5, <3>6, <4>2
    <3>8. [i \in DOMAIN V |-> V[i].shard] = shards
      BY <3>3, <3>6, <3>7
    <3> HIDE DEF V
    <3>9. VerdictPerShard'
      <4> SUFFICES /\ [i \in DOMAIN V |-> V[i].shard] = shards
                   /\ \A i \in DOMAIN V : i > 1 => FirstSaid(V[i], V[i].shard, vs)
        BY <1>1, <3>4 DEF VerdictPerShard, EventIds, ShardEvents, shards, FirstSaid, SaidOf
      <4> QED BY <3>6, <3>7, <3>8
    <3> QED BY <3>4, <3>7, <3>9
  <2> QED BY <2>1, <2>2
<1>7. CtTyped'
  BY <1>1, <1>2, <1>5, <1>6 DEF CtTyped, D
<1>8. HintsLead' /\ RecallGrounded'
  BY <1>1, <1>2 DEF HintsLead, RecallGrounded
<1>9. ExcerptWhole' /\ OneBadClaim' /\ SinglePacketGrounded'
  BY <1>5 DEF ExcerptWhole, OneBadClaim, SinglePacketGrounded
<1>10. IndexShowsBest'
  BY <1>1, <1>2, IndexStays
<1> QED BY <1>6, <1>7, <1>8, <1>9, <1>10 DEF CtInv, CitationsSound

\* The shards that are recalled are some of those that were probed.
LEMMA RecalledHold ==
  ASSUME CtTyped
  PROVE  /\ Recalled \in Seq(CtVerdict) /\ DOMAIN Recalled = 1..Len(Recalled) /\ Len(Recalled) \in Nat
         /\ \A i \in DOMAIN Recalled : /\ Recalled[i] \in CtVerdict /\ Recalled[i].shard \in DOMAIN ctWorld.events
                                       /\ Recalled[i].shard \in Nat /\ Recalled[i].ids \in Seq(Nat)
<1> DEFINE P == {i \in DOMAIN ctVerdicts : ctVerdicts[i].knows}
<1>1. ctVerdicts \in Seq(CtVerdict) /\ P \subseteq DOMAIN ctVerdicts /\ Recalled = ItemsAt(ctVerdicts, P)
  BY DEF CtTyped, Recalled
<1> HIDE DEF P
<1>2. Recalled \in Seq(CtVerdict) /\ ToSet(Recalled) = {ctVerdicts[i] : i \in P}
  BY <1>1, FilterKeeps
<1>3. DOMAIN Recalled = 1..Len(Recalled) /\ Len(Recalled) \in Nat
  BY <1>2, SeqFinite
<1>4. ASSUME NEW i \in DOMAIN Recalled
      PROVE  /\ Recalled[i] \in CtVerdict /\ Recalled[i].shard \in DOMAIN ctWorld.events
             /\ Recalled[i].shard \in Nat /\ Recalled[i].ids \in Seq(Nat)
  <2>1. Recalled[i] \in ToSet(Recalled)
    BY DEF ToSet
  <2>2. PICK j \in P : Recalled[i] = ctVerdicts[j]
    BY <1>2, <2>1
  <2>3. Recalled[i].shard \in DOMAIN ctWorld.events
    BY <1>1, <2>2 DEF CtTyped
  <2>4. Recalled[i] \in CtVerdict
    BY <1>2, <1>3
  <2> QED BY <2>3, <2>4 DEF CtVerdict
<1> QED BY <1>2, <1>3, <1>4

LEMMA DigestSteps == CtInv /\ TakeDigests => CtInv'
<1> SUFFICES ASSUME CtInv, TakeDigests PROVE CtInv'
  OBVIOUS
<1>1. /\ ctStage = "probed" /\ ctStage' = "digested" /\ ctWorld' = ctWorld /\ ctIndex' = ctIndex
      /\ ctVerdicts' = ctVerdicts /\ ctClaims' = ctClaims
      /\ ctDigest' = [i \in DOMAIN Recalled |-> EventDigest(Recalled[i].shard, Recalled[i].ids)]
  BY DEF TakeDigests
<1>2. CtTyped /\ ctWorld \in CtWorlds /\ IndexShowsBest /\ RecallGrounded
  BY <1>1 DEF CtInv, CtTyped, CitationsSound
<1>3. CtTyped'
  BY <1>1, <1>2 DEF CtTyped
<1>4. Recalled' = Recalled
  BY <1>1 DEF Recalled
<1>5. \A s : EventIds(s)' = EventIds(s)
  BY <1>1 DEF EventIds, ShardEvents
<1>6. HintsLead'
  <2> SUFFICES ASSUME NEW i \in DOMAIN ctDigest'
               PROVE  (LET hint == ToSet(Recalled[i].ids) \cap EventIds(Recalled[i].shard)
                       IN ToSet(ctDigest[i]) \subseteq hint \/ hint \subseteq ToSet(ctDigest[i]))'
    BY DEF HintsLead
  <2> DEFINE s == Recalled[i].shard
             ids == Recalled[i].ids
  <2>1. i \in DOMAIN Recalled /\ ctDigest'[i] = EventDigest(s, ids)
    BY <1>1
  <2>2. s \in DOMAIN ctWorld.events /\ ids \in Seq(Nat)
    BY <1>2, <2>1, RecalledHold
  <2>3. \/ ToSet(EventDigest(s, ids)) \subseteq ToSet(ids) \cap EventIds(s)
        \/ ToSet(ids) \cap EventIds(s) \subseteq ToSet(EventDigest(s, ids))
    BY <1>2, <2>2, DigestLed
  <2> QED BY <1>4, <1>5, <2>1, <2>3
<1>7. ExcerptWhole'
  <2> DEFINE Excerpted(e) ==
               LET kept == KeptFragments(e.frags, PerEvent)
                   anchored == {i \in DOMAIN e.frags : e.frags[i].score = AnchorScore}
               IN /\ Spent(e.frags, kept) <= PerEvent
                  /\ \A i \in (DOMAIN e.frags) \ kept : Spent(e.frags, kept \cup {i}) > PerEvent
                  /\ \A i \in anchored \ kept : Spent(e.frags, (kept \cap anchored) \cup {i}) > PerEvent
             E == UNION {ToSet(ShardEvents(s)) : s \in ToSet(ctWorld.shards)}
  <2>9. E' = E
    BY <1>1 DEF ShardEvents
  <2>10. (\A e \in E' : Excerpted(e)) => ExcerptWhole'
    BY DEF ExcerptWhole
  <2> SUFFICES ASSUME NEW e \in E PROVE Excerpted(e)
    BY <2>9, <2>10
  <2> DEFINE frags == e.frags
             kept == KeptFragments(frags, PerEvent)
             anchored == {i \in DOMAIN frags : frags[i].score = AnchorScore}
  <2>1. frags \in Seq(CtFragment)
    <3>1. PICK s \in ToSet(ctWorld.shards) : e \in ToSet(ShardEvents(s))
      OBVIOUS
    <3>2. s \in DOMAIN ctWorld.events
      BY <1>2, WorldHolds DEF ToSet
    <3>3. ShardEvents(s) \in Seq(CtEvent)
      BY <1>2, <3>2, ShardHolds
    <3>4. e \in CtEvent
      BY <3>1, <3>3, SeqFinite
    <3> QED BY <3>4 DEF CtEvent
  <2>2. PerEvent \in Nat /\ AnchorScore \in Nat
    BY CitationConstants
  <2>3. \A i \in DOMAIN frags : frags[i].score \in 0..AnchorScore
    <3>1. \A i \in DOMAIN frags : frags[i] \in CtFragment
      BY <2>1
    <3> QED BY <3>1 DEF CtFragment
  <2> HIDE DEF frags
  <2>4. /\ kept \subseteq DOMAIN frags /\ Spent(frags, kept) <= PerEvent
        /\ \A j \in (DOMAIN frags) \ kept :
             \E before \in SUBSET kept :
                /\ Spent(frags, before \cup {j}) > PerEvent
                /\ \A b \in before : frags[b].score >= frags[j].score
    BY <2>1, <2>2, KeptIsWhole
  <2> HIDE DEF kept
  <2>5. ASSUME NEW S, NEW T, S \subseteq T, Spent(frags, S) > PerEvent PROVE Spent(frags, T) > PerEvent
    <3>1. Spent(frags, S) \in Nat /\ Spent(frags, T) \in Nat /\ Spent(frags, S) <= Spent(frags, T)
      BY <2>1, <2>5, SpentGrows
    <3> QED BY <2>2, <2>5, <3>1
  <2>6. ASSUME NEW j \in (DOMAIN frags) \ kept
        PROVE  /\ Spent(frags, kept \cup {j}) > PerEvent
               /\ j \in anchored => Spent(frags, (kept \cap anchored) \cup {j}) > PerEvent
    <3>1. PICK before \in SUBSET kept : /\ Spent(frags, before \cup {j}) > PerEvent
                                        /\ \A b \in before : frags[b].score >= frags[j].score
      BY <2>4
    <3>2. before \cup {j} \subseteq kept \cup {j}
      OBVIOUS
    <3>3. Spent(frags, kept \cup {j}) > PerEvent
      BY <2>5, <3>1, <3>2
    <3>4. ASSUME j \in anchored PROVE Spent(frags, (kept \cap anchored) \cup {j}) > PerEvent
      <4>1. ASSUME NEW b \in before PROVE b \in anchored
        <5>1. b \in DOMAIN frags /\ frags[b].score >= frags[j].score /\ frags[j].score = AnchorScore
          BY <2>4, <3>1, <3>4
        <5>2. frags[b].score \in 0..AnchorScore
          BY <2>3, <5>1
        <5> DEFINE x == frags[b].score
        <5>3. x \in 0..AnchorScore /\ x >= AnchorScore
          BY <5>1, <5>2
        <5> HIDE DEF x
        <5>4. x = AnchorScore
          BY <2>2, <5>3
        <5> QED BY <5>1, <5>4 DEF x
      <4>2. before \cup {j} \subseteq (kept \cap anchored) \cup {j}
        BY <4>1
      <4> HIDE DEF anchored
      <4> QED BY <2>5, <3>1, <4>2
    <3> QED BY <3>3, <3>4
  <2> QED BY <2>4, <2>6 DEF frags, kept
<1>8. RecallGrounded'
  BY <1>1, <1>2, <1>4, <1>5 DEF RecallGrounded
<1>9. VerdictPerShard' /\ OneBadClaim' /\ SinglePacketGrounded'
  BY <1>1 DEF VerdictPerShard, OneBadClaim, SinglePacketGrounded
<1>10. IndexShowsBest'
  BY <1>1, <1>2, IndexStays
<1> QED BY <1>3, <1>6, <1>7, <1>8, <1>9, <1>10 DEF CtInv, CitationsSound

LEMMA RecallSteps == CtInv /\ RecallShards => CtInv'
<1> SUFFICES ASSUME CtInv, RecallShards PROVE CtInv'
  OBVIOUS
<1>1. /\ ctStage = "digested" /\ ctWorld' = ctWorld /\ ctIndex' = ctIndex /\ ctVerdicts' = ctVerdicts /\ ctDigest' = ctDigest
  BY DEF RecallShards
<1>2. CtTyped /\ ctWorld \in CtWorlds /\ IndexShowsBest /\ HintsLead
  BY <1>1 DEF CtInv, CtTyped, CitationsSound
<1>3. PICK replies \in [DOMAIN Recalled -> Attempts(CtRecalls)] :
         /\ ctStage' = IF \E i \in DOMAIN replies : replies[i] = {} THEN "failed" ELSE "recalled"
         /\ ctHeard' = IF \E i \in DOMAIN replies : replies[i] = {} THEN << >>
                       ELSE [i \in DOMAIN replies |-> CHOOSE r \in replies[i] : TRUE]
         /\ ctClaims' = [i \in DOMAIN ctHeard' |-> Grounded(Recalled[i].shard, ctHeard'[i])]
  BY DEF RecallShards
<1>4. ctStage' \in {"failed", "recalled"}
  BY <1>3
<1>5. Recalled' = Recalled
  BY <1>1 DEF Recalled
<1>6. \A s : EventIds(s)' = EventIds(s)
  BY <1>1 DEF EventIds, ShardEvents
<1> DEFINE n == Len(Recalled)
<1>7. n \in Nat /\ DOMAIN Recalled = 1..n /\ \A i \in 1..n : Recalled[i].shard \in Nat
  BY <1>2, RecalledHold
<1> HIDE DEF n
<1>8. ctClaims' \in Seq(CtRecalled) /\ RecallGrounded' /\ OneBadClaim'
  <2>1. CASE \E i \in DOMAIN replies : replies[i] = {}
    <3>1. ctStage' = "failed" /\ ctHeard' = << >>
      BY <1>3, <2>1
    <3>2. ctClaims' = << >>
      BY <1>3, <3>1
    <3> QED BY <3>1, <3>2 DEF RecallGrounded, OneBadClaim
  <2>2. CASE ~\E i \in DOMAIN replies : replies[i] = {}
    <3> DEFINE heard == [i \in 1..n |-> CHOOSE r \in replies[i] : TRUE]
               claims == [i \in 1..n |-> Grounded(Recalled[i].shard, heard[i])]
    <3>1. DOMAIN replies = 1..n
      BY <1>3, <1>7
    <3>2. ctStage' = "recalled" /\ ctHeard' = heard
      BY <1>3, <2>2, <3>1
    <3>3. ctClaims' = claims
      BY <1>3, <3>2
    <3>4. ASSUME NEW i \in 1..n PROVE heard[i].claims \in Seq(CtClaim(Nat))
      <4>1. replies[i] \in Attempts(CtRecalls) /\ replies[i] # {}
        BY <1>3, <1>7, <2>2, <3>1
      <4> DEFINE T == [valid : BOOLEAN, echo : Nat, claims : Seq(CtClaim(Nat))]
                 reply == replies[i]
      <4>2. CtRecalls \subseteq [parts : Seq(T)]
        BY CitationInputs
      <4>3. heard[i] = CHOOSE r \in reply : TRUE
        OBVIOUS
      <4> HIDE DEF T, heard, reply
      <4>4. (CHOOSE r \in reply : TRUE) \in T
        BY <4>1, <4>2, AttemptHolds DEF reply
      <4> QED BY <4>3, <4>4 DEF T
    <3> HIDE DEF heard
    <3>5. ASSUME NEW i \in 1..n
          PROVE  BearsOut(claims[i], Recalled[i].shard, heard[i])
      <4>1. claims[i] = Grounded(Recalled[i].shard, heard[i])
        OBVIOUS
      <4> HIDE DEF claims
      <4>2. Recalled[i].shard \in Nat /\ heard[i].claims \in Seq(CtClaim(Nat))
        BY <1>7, <3>4
      <4> QED BY <4>1, <4>2, GroundedHolds
    <3>6. claims \in Seq(CtRecalled) /\ DOMAIN claims = 1..n
      <4>1. claims = [i \in 1..n |-> claims[i]]
        OBVIOUS
      <4> HIDE DEF claims
      <4>2. \A i \in 1..n : claims[i] \in CtRecalled
        BY <3>5 DEF BearsOut
      <4> QED BY <1>7, <4>1, <4>2
    <3> HIDE DEF claims
    <3>7. RecallGrounded'
      <4> SUFFICES ASSUME NEW i \in DOMAIN claims
                   PROVE  LET r == claims[i] IN
                          /\ r.shard = Recalled[i].shard
                          /\ \A ids \in ToSet(r.claims) : ToSet(ids) \subseteq EventIds(r.shard)
                          /\ r.dropped <=> \E c \in ToSet(heard[i].claims) :
                                               c.good /\ ~(ToSet(c.support) \subseteq EventIds(r.shard))
                          /\ r.echoes <=> heard[i].echo # r.shard
        BY <1>5, <1>6, <3>2, <3>3 DEF RecallGrounded
      <4> QED BY <3>5, <3>6 DEF BearsOut
    <3>8. OneBadClaim'
      BY <3>2, <3>3, <3>5, <3>6 DEF OneBadClaim, BearsOut
    <3> QED BY <3>3, <3>6, <3>7, <3>8
  <2> QED BY <2>1, <2>2
<1>9. CtTyped'
  BY <1>1, <1>2, <1>4, <1>8 DEF CtTyped
<1>10. HintsLead'
  BY <1>1, <1>2, <1>5, <1>6 DEF HintsLead
<1>11. VerdictPerShard' /\ ExcerptWhole' /\ SinglePacketGrounded'
  BY <1>4 DEF VerdictPerShard, ExcerptWhole, SinglePacketGrounded
<1>12. IndexShowsBest'
  BY <1>1, <1>2, IndexStays
<1> QED BY <1>8, <1>9, <1>10, <1>11, <1>12 DEF CtInv, CitationsSound

LEMMA PacketSteps == CtInv /\ MakePacket => CtInv'
<1> SUFFICES ASSUME CtInv, MakePacket PROVE CtInv'
  OBVIOUS
<1>1. /\ ctStage = "recalled" /\ ctStage' \in {"packed", "failed"} /\ ctWorld' = ctWorld /\ ctIndex' = ctIndex
      /\ ctVerdicts' = ctVerdicts /\ ctDigest' = ctDigest /\ ctClaims' = ctClaims
  BY DEF MakePacket
<1>2. CtTyped /\ ctWorld \in CtWorlds /\ IndexShowsBest /\ HintsLead /\ RecallGrounded /\ ctClaims \in Seq(CtRecalled)
  BY <1>1 DEF CtInv, CtTyped, CitationsSound
<1>3. Recalled' = Recalled
  BY <1>1 DEF Recalled
<1>4. \A s : EventIds(s)' = EventIds(s)
  BY <1>1 DEF EventIds, ShardEvents
<1>5. SinglePacketGrounded'
  <2> SUFFICES ASSUME Len(ctClaims) = 1, NEW ref \in UNION ToSet(ctPacket')
               PROVE  ref[1] = ctClaims[1].shard /\ ref[2] \in EventIds(ref[1])
    BY <1>1, <1>4 DEF SinglePacketGrounded
  <2> DEFINE r == ctClaims[1]
  <2>1. 1 \in DOMAIN ctClaims /\ ctClaims # << >>
    <3>1. DOMAIN ctClaims = 1..Len(ctClaims)
      BY <1>2, SeqFinite
    <3> QED BY <3>1
  <2>2. ctPacket' = PacketFromSingleRecall(r)
    BY <2>1 DEF MakePacket
  <2> HIDE DEF r
  <2>3. PICK i \in DOMAIN r.claims : ref \in {<<r.shard, id>> : id \in ToSet(r.claims[i])}
    BY <2>2 DEF PacketFromSingleRecall, ToSet
  <2>4. PICK id \in ToSet(r.claims[i]) : ref = <<r.shard, id>>
    BY <2>3
  <2>5. r.claims[i] \in ToSet(r.claims)
    BY <2>3 DEF ToSet
  <2>6. \A ids \in ToSet(r.claims) : ToSet(ids) \subseteq EventIds(r.shard)
    BY <1>2, <2>1 DEF RecallGrounded, r
  <2>7. id \in EventIds(r.shard)
    BY <2>4, <2>5, <2>6
  <2> QED BY <2>4, <2>7 DEF r
<1>6. CtTyped'
  BY <1>1, <1>2 DEF CtTyped
<1>7. HintsLead' /\ RecallGrounded'
  BY <1>1, <1>2, <1>3, <1>4 DEF HintsLead, RecallGrounded
<1>8. VerdictPerShard' /\ ExcerptWhole' /\ OneBadClaim'
  BY <1>1 DEF VerdictPerShard, ExcerptWhole, OneBadClaim
<1>9. IndexShowsBest'
  BY <1>1, <1>2, IndexStays
<1> QED BY <1>5, <1>6, <1>7, <1>8, <1>9 DEF CtInv, CitationsSound

LEMMA CtStays ==
  ASSUME CtInv, UNCHANGED citationVars
  PROVE  CtInv'
<1>1. /\ ctWorld' = ctWorld /\ ctStage' = ctStage /\ ctIndex' = ctIndex /\ ctHeard' = ctHeard
      /\ ctVerdicts' = ctVerdicts /\ ctDigest' = ctDigest /\ ctClaims' = ctClaims /\ ctPacket' = ctPacket
  BY DEF citationVars
<1>2. Recalled' = Recalled
  BY <1>1 DEF Recalled
<1>3. \A s : EventIds(s)' = EventIds(s)
  BY <1>1 DEF EventIds, ShardEvents
<1>4. (ctStage # "idle" => CtTyped)'
  BY <1>1 DEF CtInv, CtTyped
<1>5. IndexShowsBest'
  BY <1>1, IndexStays DEF CtInv, CitationsSound
<1>6. HintsLead' /\ RecallGrounded'
  BY <1>1, <1>2, <1>3 DEF HintsLead, RecallGrounded, CtInv, CitationsSound
<1>7. VerdictPerShard' /\ OneBadClaim' /\ SinglePacketGrounded'
  BY <1>1, <1>3 DEF VerdictPerShard, OneBadClaim, SinglePacketGrounded, CtInv, CitationsSound
<1>8. ExcerptWhole'
  BY <1>1 DEF ExcerptWhole, ShardEvents, CtInv, CitationsSound
<1> QED BY <1>4, <1>5, <1>6, <1>7, <1>8 DEF CtInv, CitationsSound

LEMMA CtKeeps == CtInv /\ [CtNext]_citationVars => CtInv'
BY ShowSteps, ProbeSteps, DigestSteps, RecallSteps, PacketSteps, CtStays DEF CtNext

-----------------------------------------------------------------------------
(* The units of a shard.                                                    *)

Begins(start, n, size, key) ==
    \A i \in 1..n : start[i] = IF i = 1 \/ key[i] # key[i - 1] \/ i - start[i - 1] >= size
                               THEN i ELSE start[i - 1]

\* Where the unit of every event begins is computed event by event.
LEMMA StartsComputed ==
  ASSUME NEW n \in Nat, NEW size, NEW key
  PROVE  \E start : Begins(start, n, size, key) /\ UnitStarts(n, size, key) = {i \in 1..n : start[i] = i}
<1> DEFINE g == [i \in 1..n |-> [x \in Nat |-> IF i = 1 \/ key[i] # key[i - 1] \/ i - x >= size THEN i ELSE x]]
<1>1. g \in [1..n -> [Nat -> Nat]]
  OBVIOUS
<1>2. \A i \in 1..n : \A x \in Nat : g[i][x] = IF i = 1 \/ key[i] # key[i - 1] \/ i - x >= size THEN i ELSE x
  OBVIOUS
<1> HIDE DEF g
<1>3. \E f \in [0..n -> Nat] : Follows(f, n, 0, g)
  BY <1>1, Recursion
<1>4. PICK f \in [0..n -> Nat] : f[0] = 0 /\ \A i \in 1..n : f[i] = g[i][f[i - 1]]
  BY <1>3 DEF Follows
<1> DEFINE h == [i \in 1..n |-> f[i]]
           Starts(s) == s = [i \in 1..n |-> IF i = 1 \/ key[i] # key[i - 1] \/ i - s[i - 1] >= size
                                             THEN i ELSE s[i - 1]]
           H == CHOOSE s : Starts(s)
<1>5. Starts(h)
  <2>1. ASSUME NEW i \in 1..n
        PROVE  h[i] = IF i = 1 \/ key[i] # key[i - 1] \/ i - h[i - 1] >= size THEN i ELSE h[i - 1]
    <3>1. i - 1 \in 0..n /\ f[i - 1] \in Nat
      BY <1>4
    <3>2. f[i] = IF i = 1 \/ key[i] # key[i - 1] \/ i - f[i - 1] >= size THEN i ELSE f[i - 1]
      BY <1>2, <1>4, <3>1
    <3>3. i # 1 => h[i - 1] = f[i - 1]
      OBVIOUS
    <3> QED BY <3>2, <3>3
  <2>2. h = [i \in 1..n |-> h[i]]
    OBVIOUS
  <2> HIDE DEF h
  <2> QED BY <2>1, <2>2
<1>6. Starts(H)
  <2> HIDE DEF Starts, h
  <2> QED BY <1>5, Zenon
<1>7. UnitStarts(n, size, key) = {i \in 1..n : H[i] = i}
  BY DEF UnitStarts
<1> HIDE DEF H
<1>8. Begins(H, n, size, key)
  BY <1>6 DEF Begins
<1> QED BY <1>7, <1>8

\* The unit of an event begins at it or before, is within the size and of one key.
LEMMA UnitHolds ==
  ASSUME NEW n \in Nat, NEW size \in Nat \ {0}, NEW key, NEW start, Begins(start, n, size, key)
  PROVE  \A i \in 1..n : /\ start[i] \in 1..i /\ i - start[i] < size
                         /\ \A j \in start[i]..i : key[j] = key[i]
<1> DEFINE UnitFits(i) == /\ start[i] \in 1..i /\ i - start[i] < size
                         /\ \A j \in start[i]..i : key[j] = key[i]
           T == {k \in Nat : k + 1 \in 1..n => UnitFits(k + 1)}
<1>1. 0 \in T
  <2> SUFFICES ASSUME 1 \in 1..n PROVE UnitFits(1)
    OBVIOUS
  <2>1. start[1] = 1
    BY DEF Begins
  <2> QED BY <2>1
<1>2. ASSUME NEW k \in Nat, k \in T PROVE k + 1 \in T
  <2> SUFFICES ASSUME (k + 1) + 1 \in 1..n PROVE UnitFits((k + 1) + 1)
    OBVIOUS
  <2> DEFINE a == k + 1
             b == (k + 1) + 1
  <2>1. a \in 1..n /\ b \in 1..n /\ b - 1 = a /\ b # 1 /\ b = a + 1 /\ a \in Nat
    OBVIOUS
  <2>2. UnitFits(a)
    BY <1>2, <2>1
  <2> HIDE DEF a
  <2>3. start[b] = IF key[b] # key[a] \/ b - start[a] >= size THEN b ELSE start[a]
    BY <2>1 DEF Begins
  <2> HIDE DEF b
  <2>4. CASE key[b] # key[a] \/ b - start[a] >= size
    <3>1. start[b] = b
      BY <2>3, <2>4
    <3> QED BY <2>1, <3>1 DEF b
  <2>5. CASE ~(key[b] # key[a] \/ b - start[a] >= size)
    <3>1. start[b] = start[a] /\ start[a] \in 1..a /\ key[a] = key[b] /\ b - start[a] < size
      BY <2>1, <2>2, <2>3, <2>5
    <3>2. \A j \in start[b]..b : key[j] = key[b]
      <4> TAKE j \in start[b]..b
      <4>1. j = b \/ j \in start[a]..a
        BY <2>1, <3>1
      <4> QED BY <2>2, <3>1, <4>1
    <3> QED BY <2>1, <3>1, <3>2 DEF b
  <2> QED BY <2>4, <2>5
<1> HIDE DEF T, UnitFits
<1>3. Nat \subseteq T
  BY <1>1, <1>2, Induct
<1>4. ASSUME NEW i \in 1..n PROVE UnitFits(i)
  <2>1. i - 1 \in Nat /\ (i - 1) + 1 = i
    OBVIOUS
  <2> QED BY <1>3, <2>1 DEF T
<1> QED BY <1>4 DEF UnitFits

\* An event belongs to the last unit that begins at it or before.
LEMMA UnitRuns ==
  ASSUME NEW n \in Nat, NEW size, NEW key, NEW start, Begins(start, n, size, key),
         NEW a \in 1..n, start[a] = a, NEW b \in a..n, \A i \in (a + 1)..b : start[i] # i
  PROVE  start[b] = a
<1> DEFINE T == {k \in Nat : a + k \in a..b => start[a + k] = a}
<1>1. 0 \in T
  OBVIOUS
<1>2. ASSUME NEW k \in Nat, k \in T PROVE k + 1 \in T
  <2> SUFFICES ASSUME a + (k + 1) \in a..b PROVE start[a + (k + 1)] = a
    OBVIOUS
  <2> DEFINE m == a + k
             i == a + (k + 1)
  <2>1. m \in a..b /\ i \in (a + 1)..b /\ i \in 1..n /\ i - 1 = m /\ i # 1
    OBVIOUS
  <2>2. start[m] = a
    BY <1>2, <2>1
  <2> HIDE DEF m, i
  <2>3. start[i] = i \/ start[i] = start[m]
    BY <2>1 DEF Begins
  <2>4. start[i] = a
    BY <2>1, <2>2, <2>3
  <2> QED BY <2>4 DEF i
<1> HIDE DEF T
<1>3. Nat \subseteq T
  BY <1>1, <1>2, Induct
<1>4. b - a \in Nat /\ a + (b - a) = b /\ b \in a..b
  OBVIOUS
<1> QED BY <1>3, <1>4 DEF T

\* The units tile the events, whatever the size and the keys.
LEMMA UnitsAreTiles ==
  ASSUME NEW n \in Nat, NEW size \in Nat \ {0}, NEW key
  PROVE  Tiles(PartitionIntoUnits(n, size, key), n, size, key)
<1>1. PICK start : Begins(start, n, size, key) /\ UnitStarts(n, size, key) = {i \in 1..n : start[i] = i}
  BY StartsComputed
<1> DEFINE P == UnitStarts(n, size, key)
           all == [i \in 1..n |-> i]
           L == Cardinality(P)
<1>2. P \subseteq 1..n /\ \A i \in 1..n : i \in P <=> start[i] = i
  BY <1>1
<1>3. \A i \in 1..n : /\ start[i] \in 1..i /\ i - start[i] < size
                      /\ \A j \in start[i]..i : key[j] = key[i]
  BY <1>1, UnitHolds
<1> HIDE DEF P
<1>4. IsFiniteSet(P) /\ P \subseteq Nat
  BY <1>2, UpToFinite
<1>5. L \in Nat
  BY <1>4, FS_CardinalityType
<1>16. all \in Seq(Nat) /\ DOMAIN all = 1..n /\ \A i \in 1..n : all[i] = i
  OBVIOUS
<1> DEFINE from == ItemsAt(all, P)
<1> HIDE DEF all
<1>19. /\ from \in Seq(Nat) /\ Len(from) = Cardinality(P)
       /\ \E p : Lists(p, Cardinality(P), P) /\ \A k \in 1..Cardinality(P) : from[k] = all[p[k]]
  <2>1. P \subseteq DOMAIN all
    BY <1>2, <1>16
  <2> QED BY <1>16, <2>1, FilterKeeps
<1>6. PICK p : Lists(p, L, P) /\ \A k \in 1..L : from[k] = all[p[k]]
  BY <1>19
<1> HIDE DEF L
<1>7. /\ \A k \in 1..L : p[k] \in P /\ p[k] \in 1..n
      /\ \A k, m \in 1..L : k < m => p[k] < p[m]
      /\ \A i \in P : \E k \in 1..L : p[k] = i
  BY <1>2, <1>6 DEF Lists
<1> DEFINE units == PartitionIntoUnits(n, size, key)
<1>9. Len(from) = L /\ DOMAIN from = 1..L
  BY <1>19 DEF L
<1>8. \A k \in 1..L : from[k] = p[k]
  BY <1>6, <1>7, <1>16
<1>10. units = [u \in 1..L |-> [from |-> p[u], to |-> IF u < L THEN p[u + 1] - 1 ELSE n]]
  <2>1. units = [u \in DOMAIN from |-> [from |-> from[u], to |-> IF u < Len(from) THEN from[u + 1] - 1 ELSE n]]
    BY DEF PartitionIntoUnits, P, all, from
  <2>2. \A u \in 1..L : u < L => u + 1 \in 1..L
    BY <1>5
  <2> HIDE DEF from
  <2> QED BY <1>8, <1>9, <2>1, <2>2
<1> HIDE DEF from, units, all
<1>11. DOMAIN units = 1..L /\ Len(units) = L
       /\ \A u \in 1..L : units[u].from = p[u] /\ units[u].to = IF u < L THEN p[u + 1] - 1 ELSE n
  BY <1>5, <1>10
<1>12. L = 0 <=> n = 0
  <2>1. n # 0 => 1 \in P
    BY <1>1, <1>2 DEF Begins
  <2>2. n = 0 => 1..L = {}
    BY <1>7
  <2> QED BY <1>5, <1>7, <2>1, <2>2
<1>13. units = << >> <=> n = 0
  <2>1. n = 0 => units = << >>
    <3> SUFFICES ASSUME L = 0 PROVE units = << >>
      BY <1>12
    <3>1. 1..L = {}
      OBVIOUS
    <3> QED BY <1>10, <3>1
  <2>2. n # 0 => DOMAIN units # {}
    <3> SUFFICES ASSUME n # 0 PROVE 1 \in DOMAIN units
      OBVIOUS
    <3>1. 1 \in 1..L
      BY <1>5, <1>12
    <3> QED BY <1>11, <3>1
  <2>3. DOMAIN << >> = {}
    OBVIOUS
  <2> QED BY <2>1, <2>2, <2>3
<1>14. n > 0 => units[1].from = 1 /\ units[Len(units)].to = n
  <2> SUFFICES ASSUME n > 0 PROVE units[1].from = 1 /\ units[Len(units)].to = n
    OBVIOUS
  <2>1. 1 \in 1..L /\ L \in 1..L
    BY <1>5, <1>12
  <2>2. 1 \in P
    BY <1>1, <1>2 DEF Begins
  <2>3. PICK k \in 1..L : p[k] = 1
    BY <1>7, <2>2
  <2>4. p[1] = 1
    BY <1>7, <2>1, <2>3
  <2> QED BY <1>11, <2>1, <2>4
<1>15. ASSUME NEW u \in 1..L
       PROVE  /\ units[u].from <= units[u].to /\ units[u].to - units[u].from < size
              /\ \A i, j \in units[u].from..units[u].to : key[i] = key[j]
              /\ u < L => /\ units[u + 1].from = units[u].to + 1
                          /\ \/ units[u].to - units[u].from + 1 = size
                             \/ key[units[u].to] # key[units[u].to + 1]
  <2> DEFINE a == p[u]
             b == IF u < L THEN p[u + 1] - 1 ELSE n
  <2>1. a \in 1..n /\ start[a] = a
    BY <1>2, <1>7
  <2>2. u < L => u + 1 \in 1..L /\ p[u + 1] \in 1..n /\ start[p[u + 1]] = p[u + 1] /\ a < p[u + 1]
    BY <1>2, <1>5, <1>7
  <2>3. b \in a..n
    BY <2>1, <2>2
  <2>4. ASSUME NEW i \in (a + 1)..b PROVE start[i] # i
    <3> SUFFICES ASSUME start[i] = i PROVE FALSE
      OBVIOUS
    <3>1. i \in 1..n
      BY <2>1, <2>3
    <3>2. PICK k \in 1..L : p[k] = i
      BY <1>2, <1>7, <3>1
    <3>3. u < k
      <4>1. k < u => p[k] < p[u]
        BY <1>7
      <4>2. k = u => p[k] = p[u]
        OBVIOUS
      <4> QED BY <1>5, <2>1, <3>1, <3>2, <4>1, <4>2
    <3>4. u < L /\ (u + 1 < k => p[u + 1] < p[k])
      BY <1>5, <1>7, <3>3
    <3>5. p[u + 1] <= i /\ i <= p[u + 1] - 1
      BY <1>5, <2>2, <3>1, <3>2, <3>3, <3>4
    <3> QED BY <2>2, <3>1, <3>4, <3>5
  <2> HIDE DEF a, b
  <2>5. start[b] = a
    BY <1>1, <2>1, <2>3, <2>4, UnitRuns
  <2>6. b \in 1..n /\ b - a < size /\ \A j \in a..b : key[j] = key[b]
    <3>1. b \in 1..n
      BY <2>1, <2>3
    <3> QED BY <1>3, <2>5, <3>1
  <2>7. units[u].from = a /\ units[u].to = b
    BY <1>11 DEF a, b
  <2>8. u < L => units[u + 1].from = b + 1 /\ (b - a + 1 = size \/ key[b] # key[b + 1])
    <3> SUFFICES ASSUME u < L PROVE units[u + 1].from = b + 1 /\ (b - a + 1 = size \/ key[b] # key[b + 1])
      OBVIOUS
    <3>1. u + 1 \in 1..L /\ p[u + 1] = b + 1 /\ b + 1 \in 1..n /\ start[b + 1] = b + 1
      BY <2>2, <2>6 DEF b
    <3>2. units[u + 1].from = b + 1
      BY <1>11, <3>1
    <3>3. b + 1 # 1 /\ (b + 1) - 1 = b /\ b \in Nat /\ a \in Nat /\ b + 1 # a
      BY <2>1, <2>3, <2>6
    <3>4. start[b + 1] = IF key[b + 1] # key[b] \/ (b + 1) - a >= size THEN b + 1 ELSE a
      BY <1>1, <2>5, <3>1, <3>3 DEF Begins
    <3>5. key[b + 1] # key[b] \/ (b + 1) - a >= size
      BY <3>1, <3>3, <3>4
    <3> QED BY <2>6, <3>2, <3>3, <3>5
  <2> QED BY <2>3, <2>6, <2>7, <2>8
<1>17. \A u \in DOMAIN units :
          /\ units[u].from <= units[u].to /\ units[u].to - units[u].from < size
          /\ \A i, j \in units[u].from..units[u].to : key[i] = key[j]
          /\ u < Len(units) => /\ units[u + 1].from = units[u].to + 1
                               /\ \/ units[u].to - units[u].from + 1 = size
                                  \/ key[units[u].to] # key[units[u].to + 1]
  BY <1>11, <1>15
<1>18. Tiles(units, n, size, key)
  BY <1>13, <1>14, <1>17 DEF Tiles
<1> QED BY <1>18 DEF units

-----------------------------------------------------------------------------
(* The scores of the router.                                                *)

\* A cosine in thousandths exists and is one of them.
LEMMA CosineBounded ==
  ASSUME NEW c, c.on \in Nat, c.off \in Nat
  PROVE  Cosine(c) \in 0..1000
<1> DEFINE A == c.on * c.on
           B == c.off * c.off
           sq == c.on * c.on + c.off * c.off
           CosineIs(k) == k * k * sq <= (1000 * c.on) * (1000 * c.on) /\ (k + 1) * (k + 1) * sq > (1000 * c.on) * (1000 * c.on)
<1>1. CASE sq = 0
  BY <1>1, SMT DEF Cosine
<1>2. CASE sq # 0
  <2> DEFINE X == (1000 * c.on) * (1000 * c.on)
             T == {k \in Nat : (k + 1) * (k + 1) * sq > X}
  <2>1. A \in Nat /\ B \in Nat /\ sq = A + B /\ X = 1000 * (1000 * A) /\ sq \in Nat /\ sq > 0 /\ X \in Nat
    <3>1. A \in Nat /\ B \in Nat
      OBVIOUS
    <3>2. X = 1000 * (1000 * A)
      OBVIOUS
    <3> HIDE DEF A, B, X
    <3>3. sq = A + B
      BY DEF A, B
    <3> HIDE DEF sq
    <3> QED BY <1>2, <3>1, <3>2, <3>3
  <2>2. 1000 \in T
    <3> HIDE DEF A, B, X, sq
    <3>1. (1000 + 1) * (1000 + 1) * sq > X
      BY <2>1
    <3> QED BY <3>1
  <2>3. PICK m \in T : \A k \in T : m <= k
    <3> HIDE DEF X, sq
    <3>1. T \in SUBSET Nat
      OBVIOUS
    <3> HIDE DEF T
    <3>2. T # {}
      BY <2>2
    <3> QED BY <3>1, <3>2, LeastNat
  <2>4. m \in 0..1000 /\ (m + 1) * (m + 1) * sq > X
    <3> HIDE DEF X, sq
    <3> QED BY <2>2, <2>3
  <2>5. m * m * sq <= X
    <3> HIDE DEF X, sq
    <3>1. CASE m = 0
      BY <2>1, <3>1
    <3>2. CASE m # 0
      <4>1. m - 1 \in Nat /\ (m - 1) + 1 = m /\ ~(m <= m - 1)
        BY <2>4, <3>2
      <4>2. m - 1 \notin T
        BY <2>3, <4>1
      <4>3. ~(m * m * sq > X)
        BY <4>1, <4>2
      <4>4. m * m * sq \in Int
        BY <2>1, <2>4
      <4> QED BY <2>1, <4>3, <4>4
    <3> QED BY <3>1, <3>2
  <2>6. CosineIs(m)
    BY <2>4, <2>5
  <2>7. Cosine(c) = CHOOSE k \in 0..1000 : CosineIs(k)
    BY <1>2 DEF Cosine
  <2> DEFINE I == 0..1000
  <2>8. m \in I
    BY <2>4
  <2> HIDE DEF CosineIs, I
  <2>9. (CHOOSE k \in I : CosineIs(k)) \in I
    BY <2>6, <2>8
  <2>10. Cosine(c) = CHOOSE k \in I : CosineIs(k)
    BY ONLY <2>7 DEF I
  <2>11. Cosine(c) \in I
    BY ONLY <2>9, <2>10
  <2> QED BY ONLY <2>11 DEF I
<1> QED BY <1>1, <1>2

\* What saturating makes of a score, and where the threshold lies.
LEMMA ThresholdLies ==
  ASSUME NEW lex \in Int
  PROVE  /\ FloorThreshold = 333 /\ Saturated(lex) \in Int
         /\ lex > 16 => Saturated(lex) > 333
         /\ lex <= 16 => Saturated(lex) <= 333
<1> DEFINE y == Abs(lex) + 8
           x == 500 * lex
           q == x \div y
<1>1. y \in Nat /\ y > 0 /\ x \in Int /\ y = (IF lex < 0 THEN 8 - lex ELSE lex + 8)
  BY DEF Abs
<1>2. Saturated(lex) = q
  BY DEF Saturated
<1>3. q \in Int /\ y * q <= x /\ x < y * (q + 1)
  <2> HIDE DEF x, y
  <2> QED BY <1>1
<1>4. FloorThreshold = 333
  BY DEF FloorThreshold, Saturated, Abs
<1> HIDE DEF q, y
<1>5. lex > 16 => q > 333
  <2> SUFFICES ASSUME lex > 16, q <= 333 PROVE FALSE
    BY <1>3
  <2>1. y = lex + 8
    BY <1>1
  <2>2. y * (q + 1) <= y * 334
    BY <1>1, <1>3
  <2> QED BY <1>3, <2>1, <2>2
<1>6. lex <= 16 => q <= 333
  <2> SUFFICES ASSUME lex <= 16, q > 333 PROVE FALSE
    BY <1>3
  <2>1. y * 334 <= y * q
    BY <1>1, <1>3
  <2> QED BY <1>1, <1>3, <2>1
<1> QED BY <1>2, <1>3, <1>4, <1>5, <1>6

-----------------------------------------------------------------------------
(* The directory and the index of a corpus.                                 *)

LEMMA RxWorldHolds ==
  ASSUME rxWorld \in RxWorlds
  PROVE  /\ \A s \in RxShards : Events(s) \in Seq(RxEvent) /\ Len(Events(s)) \in Nat
         /\ rxWorld.unitSize \in Nat /\ rxWorld.query \in SUBSET ToSet(RxTerms)
         /\ IsFiniteSet(ToSet(RxTerms)) /\ IsFiniteSet(rxWorld.query)
<1>1. /\ rxWorld.events \in [RxShards -> Seq(RxEvent)]
      /\ rxWorld.unitSize \in Nat /\ rxWorld.query \in SUBSET ToSet(RxTerms)
  BY RouterInputs
<1>2. IsFiniteSet(ToSet(RxTerms))
  BY RouterIndexConstants, SeqFinite
<1>3. IsFiniteSet(rxWorld.query)
  BY <1>1, <1>2, FS_Subset
<1>4. \A s \in RxShards : Events(s) \in Seq(RxEvent)
  BY <1>1 DEF Events
<1> QED BY <1>1, <1>2, <1>3, <1>4

\* How often something occurs in a sequence.
LEMMA QuantityCounts ==
  ASSUME NEW S, NEW seq \in Seq(S), NEW t
  PROVE  Quantity(t, seq) \in Nat
<1> DEFINE P == {i \in DOMAIN seq : seq[i] = t}
<1>1. P \subseteq DOMAIN seq
  OBVIOUS
<1>2. Cardinality(P) \in Nat
  BY <1>1, FilterKeeps
<1> QED BY <1>2 DEF Quantity

\* A term that a tag names occurs.
LEMMA TermsCounted ==
  ASSUME rxWorld \in RxWorlds, NEW s \in RxShards, NEW t
  PROVE  /\ Tf(t, s) \in Nat
         /\ \A e \in ToSet(Events(s)) : t \in e.tags => Tf(t, s) > 0
<1> DEFINE es == Events(s)
           n == Len(es)
           cost == [i \in DOMAIN es |-> Quantity(t, es[i].words) + (IF t \in es[i].tags THEN 3 ELSE 0)]
<1>1. es \in Seq(RxEvent) /\ n \in Nat /\ DOMAIN es = 1..n
  BY RxWorldHolds
<1> HIDE DEF es
<1>2. \A i \in 1..n : es[i] \in RxEvent /\ Quantity(t, es[i].words) \in Nat
  <2> TAKE i \in 1..n
  <2>1. es[i] \in RxEvent
    BY <1>1
  <2>2. es[i].words \in Seq(ToSet(RxTerms))
    BY <2>1 DEF RxEvent
  <2> QED BY <2>1, <2>2, QuantityCounts
<1>3. \A i \in 1..n : cost[i] \in Nat /\ (t \in es[i].tags => cost[i] >= 3)
  <2> TAKE i \in 1..n
  <2> DEFINE m == Quantity(t, es[i].words)
  <2>1. m \in Nat /\ cost[i] = m + (IF t \in es[i].tags THEN 3 ELSE 0)
    BY <1>1, <1>2
  <2> HIDE DEF m, cost
  <2> QED BY <2>1
<1>4. cost \in [1..n -> Nat]
  <2>1. cost = [i \in 1..n |-> cost[i]]
    BY <1>1
  <2> HIDE DEF cost
  <2> QED BY <1>3, <2>1
<1>5. Tf(t, s) = SumTo(cost, n)
  BY DEF Tf, es
<1> HIDE DEF cost, n
<1>6. SumTo(cost, n) \in Nat /\ \A i \in 1..n : cost[i] <= SumTo(cost, n)
  BY <1>1, <1>4, SumAtLeast
<1>7. ASSUME NEW e \in ToSet(es), t \in e.tags PROVE SumTo(cost, n) > 0
  <2>1. PICK i \in 1..n : es[i] = e
    BY <1>1 DEF ToSet
  <2>2. cost[i] \in Nat /\ cost[i] >= 3 /\ cost[i] <= SumTo(cost, n)
    BY <1>3, <1>6, <1>7, <2>1
  <2> QED BY <1>6, <2>2
<1> QED BY <1>5, <1>6, <1>7 DEF es

\* Occurring more often never weighs less.
LEMMA LogTfGrows ==
  ASSUME NEW m \in Nat \ {0}, NEW n \in Nat \ {0}
  PROVE  LogTf(m) \in Nat \ {0} /\ (m <= n => LogTf(m) <= LogTf(n))
<1>1. \A k \in Nat \ {0} : LogTf(k) = IF k = 1 THEN 10 ELSE IF k = 2 THEN 17 ELSE IF k = 3 THEN 21
                                      ELSE IF k = 4 THEN 24 ELSE IF k = 5 THEN 26 ELSE 28
  BY DEF LogTf
<1> QED BY <1>1

OwnTerms(s) == {t \in ToSet(RxTerms) : Tf(t, s) > 0}
TermWeight(s) == [t \in OwnTerms(s) |-> LogTf(Tf(t, s)) * (Cardinality(RxShards) + 1 - ShardDf(t))]

\* In how many shards a term is.
LEMMA ShardsCounted ==
  ASSUME rxWorld \in RxWorlds, NEW t
  PROVE  /\ Cardinality(RxShards) \in Nat /\ ShardDf(t) \in 0..Cardinality(RxShards)
         /\ \A s \in RxShards : Tf(t, s) > 0 => ShardDf(t) > 0
         /\ \A s \in RxShards : Tf(t, s) > 0 /\ (\A r \in RxShards \ {s} : Tf(t, r) = 0) => ShardDf(t) = 1
<1> DEFINE D == {s \in RxShards : Tf(t, s) > 0}
<1>1. IsFiniteSet(RxShards) /\ D \subseteq RxShards /\ ShardDf(t) = Cardinality(D)
  BY RouterIndexConstants DEF ShardDf
<1>2. IsFiniteSet(D) /\ Cardinality(D) <= Cardinality(RxShards) /\ Cardinality(RxShards) \in Nat /\ Cardinality(D) \in Nat
  <2> HIDE DEF D
  <2> QED BY <1>1, FS_Subset, FS_CardinalityType
<1>3. \A s \in RxShards : Tf(t, s) > 0 => ShardDf(t) > 0
  <2> TAKE s \in RxShards
  <2> HAVE Tf(t, s) > 0
  <2>1. D # {}
    OBVIOUS
  <2> HIDE DEF D
  <2>2. Cardinality(D) # 0
    BY <1>2, <2>1, FS_EmptySet
  <2> QED BY <1>1, <1>2, <2>2
<1>4. ASSUME NEW s \in RxShards, Tf(t, s) > 0, \A r \in RxShards \ {s} : Tf(t, r) = 0 PROVE ShardDf(t) = 1
  <2>1. D = {s}
    BY <1>4
  <2> HIDE DEF D
  <2> QED BY <1>1, <2>1, FS_Singleton
<1> QED BY <1>1, <1>2, <1>3, <1>4

LEMMA TermsComparable ==
  ASSUME rxWorld \in RxWorlds, NEW s \in RxShards
  PROVE  Comparable(OwnTerms(s), TermWeight(s), TermOrder)
<1>1. IsFiniteSet(OwnTerms(s))
  <2>1. OwnTerms(s) \in SUBSET ToSet(RxTerms)
    BY DEF OwnTerms
  <2> QED BY <2>1, RxWorldHolds, FS_Subset
<1>2. \A t \in ToSet(RxTerms) : TermOrder[t] \in DOMAIN RxTerms /\ RxTerms[TermOrder[t]] = t
  BY DEF TermOrder, ToSet
<1>3. DOMAIN RxTerms = 1..Len(RxTerms) /\ Len(RxTerms) \in Nat
  BY RouterIndexConstants, SeqFinite
<1>4. ASSUME NEW t \in OwnTerms(s)
      PROVE  TermWeight(s)[t] \in Int /\ TermOrder[t] \in Int /\ RxTerms[TermOrder[t]] = t
  <2>1. t \in ToSet(RxTerms) /\ Tf(t, s) > 0 /\ Tf(t, s) \in Nat
    BY TermsCounted DEF OwnTerms
  <2> DEFINE a == LogTf(Tf(t, s))
             b == Cardinality(RxShards) + 1 - ShardDf(t)
  <2>2. a \in Nat /\ b \in Int
    <3>1. Tf(t, s) \in Nat \ {0}
      BY <2>1
    <3>2. LogTf(Tf(t, s)) \in Nat \ {0}
      BY <3>1, LogTfGrows
    <3>3. Cardinality(RxShards) \in Nat /\ ShardDf(t) \in 0..Cardinality(RxShards)
      BY ShardsCounted
    <3>4. Cardinality(RxShards) + 1 - ShardDf(t) \in Int
      BY <3>3
    <3> QED BY <3>2, <3>4
  <2>3. TermWeight(s)[t] = a * b
    BY DEF TermWeight
  <2> HIDE DEF a, b
  <2>4. TermWeight(s)[t] \in Int
    BY <2>2, <2>3
  <2>5. TermOrder[t] \in Int /\ RxTerms[TermOrder[t]] = t
    BY <1>2, <1>3, <2>1
  <2> QED BY <2>4, <2>5
<1>5. \A d, e \in OwnTerms(s) : TermOrder[d] = TermOrder[e] => d = e
  BY <1>4
<1> QED BY <1>1, <1>4, <1>5 DEF Comparable

\* The descriptors of a shard are terms it has; with room for what outranks it, a term
\* that no other shard has is one of them.
LEMMA Described ==
  ASSUME rxWorld \in RxWorlds, NEW s \in RxShards
  PROVE  /\ DeriveDescriptors(s) \in Seq(OwnTerms(s)) /\ ToSet(DeriveDescriptors(s)) \subseteq OwnTerms(s)
         /\ \A t \in OwnTerms(s) : ShardDf(t) = 1 /\ Cardinality(Rivals(t, s)) <= MaxDescriptors
                                     => t \in ToSet(DeriveDescriptors(s))
<1> DEFINE S == OwnTerms(s)
           sc == TermWeight(s)
           sel == Selected(S, sc, TermOrder, MaxDescriptors)
           kept == Cut(S, MaxDescriptors)
<1>1. DeriveDescriptors(s) = sel
  BY DEF DeriveDescriptors, OwnTerms, TermWeight
<1>2. Comparable(S, sc, TermOrder) /\ MaxDescriptors \in Nat
  BY TermsComparable, RouterIndexConstants
<1>3. /\ sel \in Seq(S)
      /\ {sel[i] : i \in DOMAIN sel} = {e \in S : Rank(S, sc, TermOrder, e) < kept}
  <2> HIDE DEF S, sc
  <2>1. ASSUME NEW D, NEW score, NEW order, Comparable(D, score, order), NEW k \in Nat
        PROVE  /\ Selected(D, score, order, k) \in Seq(D)
               /\ {Selected(D, score, order, k)[i] : i \in DOMAIN Selected(D, score, order, k)}
                    = {e \in D : Rank(D, score, order, e) < Cut(D, k)}
    <3> DEFINE best == Selected(D, score, order, k)
               fit == Cut(D, k)
    <3>1. /\ fit \in Nat /\ fit <= k /\ fit <= Cardinality(D)
          /\ best \in Seq(D) /\ Len(best) = fit
          /\ {best[i] : i \in DOMAIN best} = {e \in D : Rank(D, score, order, e) < fit}
      BY ONLY <2>1, CutTakesBest, SMTT(60)
    <3> QED BY ONLY <3>1
  <2> QED BY ONLY <1>2, <2>1
<1> HIDE DEF sel
<1>4. ToSet(sel) = {e \in S : Rank(S, sc, TermOrder, e) < kept}
  BY <1>3 DEF ToSet
<1>5. ASSUME NEW t \in S, ShardDf(t) = 1, Cardinality(Rivals(t, s)) <= MaxDescriptors
      PROVE  Rank(S, sc, TermOrder, t) < kept
  <2> DEFINE A == Ahead(S, sc, TermOrder, t)
             R == Rivals(t, s)
             N == Cardinality(RxShards)
  <2>1. t \in ToSet(RxTerms) /\ Tf(t, s) \in Nat \ {0} /\ N \in Nat
    BY TermsCounted, ShardsCounted DEF OwnTerms
  <2>2. R \subseteq ToSet(RxTerms) /\ IsFiniteSet(R) /\ t \in R
    <3>1. R \in SUBSET ToSet(RxTerms)
      BY DEF Rivals
    <3>2. IsFiniteSet(R)
      BY <3>1, RxWorldHolds, FS_Subset
    <3>3. t \in R
      BY <1>5, <2>1 DEF Rivals
    <3> QED BY <3>1, <3>2, <3>3
  <2>3. ASSUME NEW u \in A PROVE u \in R
    <3> SUFFICES ASSUME u \notin R PROVE FALSE
      OBVIOUS
    <3>1. u \in S /\ Before(sc, TermOrder, u, t)
      BY DEF Ahead
    <3>2. u \in ToSet(RxTerms) /\ Tf(u, s) \in Nat \ {0} /\ ShardDf(u) \in 0..N /\ ShardDf(u) > 0
      BY <3>1, TermsCounted, ShardsCounted DEF OwnTerms
    <3>3. ShardDf(u) # 1 /\ Tf(u, s) <= Tf(t, s)
      BY <2>1, <3>2 DEF Rivals
    <3> DEFINE a == LogTf(Tf(u, s))
               b == LogTf(Tf(t, s))
               c == N + 1 - ShardDf(u)
    <3>4. a \in Nat \ {0} /\ b \in Nat \ {0} /\ a <= b
      BY <2>1, <3>2, <3>3, LogTfGrows
    <3>5. c \in Nat /\ c <= N - 1 /\ N >= 2
      BY <2>1, <3>2, <3>3
    <3>6. sc[u] = a * c /\ sc[t] = b * N
      <4>1. sc[u] = a * c
        BY <3>1 DEF TermWeight
      <4>2. sc[t] = b * (N + 1 - 1)
        BY <1>5 DEF TermWeight
      <4>3. N + 1 - 1 = N
        BY <2>1
      <4> QED BY <4>1, <4>2, <4>3
    <3> HIDE DEF a, b, c, N, sc
    <3>7. a * c <= b * c
      BY <3>4, <3>5
    <3>8. b * c < b * N
      BY <2>1, <3>4, <3>5
    <3>9. sc[u] < sc[t] /\ sc[u] \in Int /\ sc[t] \in Int
      BY <2>1, <3>4, <3>5, <3>6, <3>7, <3>8
    <3> QED BY <3>1, <3>9 DEF Before
  <2>4. t \notin A
    <3>1. ~Before(sc, TermOrder, t, t)
      BY <1>2, OrderStrict
    <3> QED BY <3>1 DEF Ahead
  <2>5. Cardinality(A) < Cardinality(R)
    <3> DEFINE Q == R \ {t}
    <3>1. A \subseteq Q
      BY <2>3, <2>4
    <3>2. IsFiniteSet(Q) /\ Cardinality(Q) = Cardinality(R) - 1 /\ Cardinality(R) \in Nat
      BY <2>2, FS_RemoveElement, FS_CardinalityType
    <3> HIDE DEF A, Q
    <3>3. Cardinality(A) <= Cardinality(Q) /\ Cardinality(A) \in Nat
      BY <3>1, <3>2, FS_Subset, FS_CardinalityType
    <3> QED BY <3>2, <3>3
  <2>6. Rank(S, sc, TermOrder, t) \in 0..(Cardinality(S) - 1)
    <3> HIDE DEF S, sc
    <3> QED BY <1>2, RankGrows
  <2>7. Rank(S, sc, TermOrder, t) < MaxDescriptors
    <3>1. Cardinality(R) \in Nat
      BY <2>2, FS_CardinalityType
    <3> QED BY <1>2, <1>5, <2>5, <2>6, <3>1 DEF Rank
  <2>8. Cardinality(S) \in Nat
    BY <1>2, FS_CardinalityType DEF Comparable
  <2> QED BY <1>2, <2>6, <2>7, <2>8 DEF Cut
<1>6. \A t \in S : ShardDf(t) = 1 /\ Cardinality(Rivals(t, s)) <= MaxDescriptors => t \in ToSet(sel)
  BY <1>4, <1>5
<1> QED BY <1>1, <1>3, <1>4, <1>6

\* A question matches so many terms; one of a single term matches it or nothing.
LEMMA MatchesCounted ==
  ASSUME rxWorld \in RxWorlds, NEW ts
  PROVE  /\ Matches(ts) \in Nat
         /\ \A t : rxWorld.query = {t} => /\ t \in ts => Matches(ts) = 1
                                          /\ (\A w \in ts : ~Alike(t, w)) => Matches(ts) = 0
<1> DEFINE M == {q \in rxWorld.query : \E w \in ts : Alike(q, w)}
<1>1. Matches(ts) = Cardinality(M) /\ M \subseteq rxWorld.query /\ IsFiniteSet(rxWorld.query)
  BY RxWorldHolds DEF Matches
<1>2. Cardinality(M) \in Nat
  <2> HIDE DEF M
  <2> QED BY <1>1, FS_Subset, FS_CardinalityType
<1>3. ASSUME NEW t, rxWorld.query = {t}, t \in ts PROVE Matches(ts) = 1
  <2>1. M = {t}
    BY <1>3 DEF Alike
  <2> HIDE DEF M
  <2> QED BY <1>1, <2>1, FS_Singleton
<1>4. ASSUME NEW t, rxWorld.query = {t}, \A w \in ts : ~Alike(t, w) PROVE Matches(ts) = 0
  <2>1. M = {}
    BY <1>4
  <2> HIDE DEF M
  <2> QED BY <1>1, <2>1, FS_EmptySet
<1> QED BY <1>1, <1>2, <1>3, <1>4

\* The entry of a corpus shard is scored by what it matches, less what it is full.
LEMMA EntryScored ==
  ASSUME rxWorld \in RxWorlds, NEW s \in RxShards, NEW e, e = BuiltEntry(s)
  PROVE  \E less \in 0..4 :
            LexicalScore(e) = 8 * Matches(e.tags) + 4 * Matches(e.desc) + 6 * Matches(e.name)
                              + 3 * Matches(e.summary) - less
<1> DEFINE n == EventPct * Len(Events(s))
           full == Min({100, n})
           less == IF full >= 85 THEN 4 ELSE IF full >= 75 THEN 2 ELSE 0
<1>1. n \in Int
  BY RxWorldHolds, RouterIndexConstants
<1>2. e.age = 4 /\ e.stale = 0 /\ e.full = full /\ e.status = "active"
  BY DEF BuiltEntry
<1>3. full \in Int
  <2> HIDE DEF n
  <2>1. full = IF 100 <= n THEN 100 ELSE n
    BY <1>1, LesserOf
  <2> QED BY <1>1, <2>1
<1>4. less \in 0..4
  <2> HIDE DEF full
  <2> QED OBVIOUS
<1> DEFINE A == Matches(e.tags)
           B == Matches(e.desc)
           C == Matches(e.name)
           D == Matches(e.summary)
<1>5. A \in Nat /\ B \in Nat /\ C \in Nat /\ D \in Nat
  BY MatchesCounted
<1> HIDE DEF full
<1>6. LexicalScore(e) = 8 * A + 4 * B + 6 * C + 3 * D + 0 - 2 * 0 - less - 0
  BY <1>2 DEF LexicalScore
<1> HIDE DEF A, B, C, D, less
<1>7. LexicalScore(e) = 8 * A + 4 * B + 6 * C + 3 * D - less
  BY <1>4, <1>5, <1>6
<1> QED BY <1>4, <1>7 DEF A, B, C, D

\* What a shard is known by: of its own terms, and with room the rare one.
LEMMA EntryTells ==
  ASSUME rxWorld \in RxWorlds, NEW s \in RxShards, NEW e, e = BuiltEntry(s)
  PROVE  /\ e.tags \cup e.desc \cup e.summary \cup e.name \cup ToSet(DeriveDescriptors(s)) \subseteq OwnTerms(s)
         /\ rxWorld.enrich => /\ ToSet(DeriveDescriptors(s)) \subseteq e.tags
                              /\ e.desc = ToSet(DeriveDescriptors(s)) /\ e.summary = ToSet(DeriveDescriptors(s))
<1> DEFINE own == OwnTerms(s)
           des == DeriveDescriptors(s)
           der == IF rxWorld.enrich THEN des ELSE << >>
           tagged == UNION {x.tags : x \in ToSet(Events(s))}
           k == Min({NameTerms, Len(der)})
<1>1. /\ e.tags = tagged \cup ToSet(der) /\ e.desc = ToSet(der) /\ e.summary = ToSet(der)
      /\ e.name = ToSet(SubSeq(der, 1, k))
  <2> DEFINE full == Min({100, EventPct * Len(Events(s))})
  <2>1. e = [tags |-> tagged \cup ToSet(der), desc |-> ToSet(der), summary |-> ToSet(der),
             name |-> ToSet(SubSeq(der, 1, k)), age |-> 4, stale |-> 0, full |-> full, status |-> "active"]
    BY Zenon DEF BuiltEntry
  <2> HIDE DEF tagged, der, k, full
  <2> QED BY <2>1
<1>2. des \in Seq(own) /\ ToSet(des) \subseteq own
  BY Described
<1>3. tagged \subseteq own
  <2>1. ASSUME NEW x \in ToSet(Events(s)), NEW t \in x.tags PROVE t \in own
    <3>1. Events(s) \in Seq(RxEvent)
      BY RxWorldHolds
    <3>2. x \in RxEvent
      BY <2>1, <3>1 DEF ToSet
    <3>3. t \in ToSet(RxTerms)
      BY <3>2 DEF RxEvent
    <3> QED BY <3>3, TermsCounted DEF OwnTerms
  <2> QED BY <2>1
<1> HIDE DEF own, tagged, des
<1>4. der \in Seq(own) /\ ToSet(der) \subseteq own /\ (rxWorld.enrich => der = des)
  BY <1>2 DEF ToSet
<1>5. ToSet(SubSeq(der, 1, k)) \subseteq own
  <2> HIDE DEF der
  <2>1. Len(der) \in Nat /\ NameTerms \in Nat
    BY <1>4, RouterIndexConstants
  <2>2. k \in 0..Len(der)
    <3> DEFINE a == NameTerms
               b == Len(der)
    <3> HIDE DEF a, b
    <3>1. a \in Nat /\ b \in Nat
      BY <2>1 DEF a, b
    <3>2. Min({a, b}) = IF a <= b THEN a ELSE b
      BY <3>1, LesserOf
    <3>3. Min({a, b}) \in 0..b
      BY <3>1, <3>2
    <3> QED BY <3>3 DEF a, b
  <2> HIDE DEF k
  <2>3. SubSeq(der, 1, k) \in Seq(own)
    BY <1>4, <2>1, <2>2
  <2> QED BY <2>3 DEF ToSet
<1> QED BY <1>1, <1>2, <1>3, <1>4, <1>5 DEF own, des

\* A rare question speaks for the shard that has its term and for no other.
LEMMA RareScores ==
  ASSUME rxWorld \in RxWorlds, rxWorld.enrich, NEW s \in RxShards, NEW t \in ToSet(RxTerms),
         rxWorld.query = {t}, Tf(t, s) > 0,
         \A r \in RxShards \ {s} : Tf(t, r) = 0 /\ ~\E u \in ToSet(RxTerms) : Tf(u, r) > 0 /\ Alike(t, u),
         Cardinality(Rivals(t, s)) <= MaxDescriptors
  PROVE  /\ LexicalScore(BuiltEntry(s)) \in Int /\ LexicalScore(BuiltEntry(s)) >= 11
         /\ Matches(ToSet(DeriveDescriptors(s))) = 1
         /\ \A r \in RxShards \ {s} : /\ LexicalScore(BuiltEntry(r)) \in Int /\ LexicalScore(BuiltEntry(r)) <= 0
                                      /\ Matches(ToSet(DeriveDescriptors(r))) = 0
<1>1. ToSet(DeriveDescriptors(s)) \subseteq OwnTerms(s) /\ t \in ToSet(DeriveDescriptors(s))
  <2>1. t \in OwnTerms(s)
    BY DEF OwnTerms
  <2>2. ShardDf(t) = 1
    BY ShardsCounted
  <2> QED BY <2>1, <2>2, Described
<1>2. Matches(ToSet(DeriveDescriptors(s))) = 1
  BY <1>1, MatchesCounted
<1>3. LexicalScore(BuiltEntry(s)) \in Int /\ LexicalScore(BuiltEntry(s)) >= 11
  <2> DEFINE e == BuiltEntry(s)
  <2>1. t \in e.tags /\ t \in e.desc /\ t \in e.summary
    BY <1>1, EntryTells
  <2> HIDE DEF e
  <2>2. Matches(e.tags) = 1 /\ Matches(e.desc) = 1 /\ Matches(e.summary) = 1 /\ Matches(e.name) \in Nat
    BY <2>1, MatchesCounted
  <2>3. PICK less \in 0..4 :
           LexicalScore(e) = 8 * Matches(e.tags) + 4 * Matches(e.desc) + 6 * Matches(e.name)
                             + 3 * Matches(e.summary) - less
    BY EntryScored DEF e
  <2> DEFINE n == Matches(e.name)
  <2>4. LexicalScore(e) = 8 * 1 + 4 * 1 + 6 * n + 3 * 1 - less /\ n \in Nat
    BY <2>2, <2>3
  <2> HIDE DEF n
  <2>5. LexicalScore(e) \in Int /\ LexicalScore(e) >= 11
    BY <2>4
  <2> QED BY <2>5 DEF e
<1>4. ASSUME NEW r \in RxShards \ {s}
      PROVE  /\ LexicalScore(BuiltEntry(r)) \in Int /\ LexicalScore(BuiltEntry(r)) <= 0
             /\ Matches(ToSet(DeriveDescriptors(r))) = 0
  <2> DEFINE e == BuiltEntry(r)
             d == ToSet(DeriveDescriptors(r))
  <2>1. \A w \in OwnTerms(r) : ~Alike(t, w)
    BY DEF OwnTerms
  <2>2. /\ e.tags \subseteq OwnTerms(r) /\ e.desc \subseteq OwnTerms(r) /\ e.summary \subseteq OwnTerms(r)
        /\ e.name \subseteq OwnTerms(r) /\ d \subseteq OwnTerms(r)
    BY EntryTells
  <2>3. PICK less \in 0..4 :
           LexicalScore(e) = 8 * Matches(e.tags) + 4 * Matches(e.desc) + 6 * Matches(e.name)
                             + 3 * Matches(e.summary) - less
    BY EntryScored
  <2> HIDE DEF e, d
  <2>4. /\ \A w \in e.tags : ~Alike(t, w)
        /\ \A w \in e.desc : ~Alike(t, w)
        /\ \A w \in e.summary : ~Alike(t, w)
        /\ \A w \in e.name : ~Alike(t, w)
        /\ \A w \in d : ~Alike(t, w)
    BY <2>1, <2>2
  <2>5. Matches(e.tags) = 0 /\ Matches(e.desc) = 0 /\ Matches(e.summary) = 0 /\ Matches(e.name) = 0 /\ Matches(d) = 0
    BY <2>4, MatchesCounted
  <2>6. LexicalScore(e) = 8 * 0 + 4 * 0 + 6 * 0 + 3 * 0 - less
    BY <2>3, <2>5
  <2>7. LexicalScore(e) \in Int /\ LexicalScore(e) <= 0
    BY <2>6
  <2> QED BY <2>5, <2>7 DEF e, d
<1> QED BY <1>2, <1>3, <1>4

-----------------------------------------------------------------------------
(* Every query of a process.                                                *)

RxEntries == [s \in RxShards |-> BuiltEntry(s)]
RxIndexed == [s \in RxShards |-> RouterIndexShard(ShardInput(s))]
LexOfEntry == [s \in RxShards |-> LexicalScore(BuiltEntry(s))]
IndexedLex(s) == LexicalScore(BuiltEntry(s)) + 6 * Matches(ToSet(DeriveDescriptors(s)))
LexOfIndex == [s \in RxShards |-> IndexedLex(s)]
HybridOfIndex == [s \in RxShards |-> Saturated(IndexedLex(s)) + 2 * Cosine(CentroidOf(Events(s)))]

\* A query waits once there is a directory, fails only with the build, and is scored by
\* the entries alone or by the whole index.
AskHolds(index, entry, q, entries, lex, total, hybrid) ==
    /\ q = [pc |-> q.pc, lex |-> q.lex, hybrid |-> q.hybrid]
    /\ q.pc \in {"idle", "waiting", "scored", "failed"}
    /\ q.pc # "idle" => entry = entries /\ index # "off"
    /\ q.pc = "failed" => index = "failed"
    /\ q.pc = "scored" => \/ q.hybrid = << >> /\ q.lex = lex
                          \/ index = "ready" /\ q.hybrid = hybrid /\ q.lex = total

\* The directory and the index are what the corpus makes them, the index from one build.
RxHolds(corpus, index, entry, table, builds, ask, entries, indexed, lex, total, hybrid) ==
    /\ index \in {"off", "none", "building", "ready", "failed"}
    /\ index # "off" => corpus \in RxWorlds
    /\ builds = IF index \in {"off", "none"} THEN 0 ELSE 1
    /\ entry \in {<< >>, entries}
    /\ table = IF index = "ready" THEN indexed ELSE << >>
    /\ ask = [a \in RxAsks |-> ask[a]]
    /\ \A a \in RxAsks : AskHolds(index, entry, ask[a], entries, lex, total, hybrid)

RxInv == RxHolds(rxWorld, rxIndex, rxEntry, rxTable, rxBuilds, rxAsk,
                 RxEntries, RxIndexed, LexOfEntry, LexOfIndex, HybridOfIndex)

LEMMA RxStarts == RxInit \/ RxIdle => RxInv
<1> SUFFICES ASSUME RxInit \/ RxIdle PROVE RxInv
  OBVIOUS
<1>1. /\ rxIndex \in {"off", "none"} /\ (rxIndex # "off" => rxWorld \in RxWorlds) /\ rxBuilds = 0
      /\ rxEntry = << >> /\ rxTable = << >> /\ rxAsk = [a \in RxAsks |-> RxIdleAsk]
  BY DEF RxInit, RxIdle
<1>2. rxAsk = [a \in RxAsks |-> rxAsk[a]] /\ \A a \in RxAsks : rxAsk[a] = [pc |-> "idle", lex |-> << >>, hybrid |-> << >>]
  BY <1>1 DEF RxIdleAsk
<1> HIDE DEF RxEntries, RxIndexed, LexOfEntry, LexOfIndex, HybridOfIndex
<1>3. \A a \in RxAsks : AskHolds(rxIndex, rxEntry, rxAsk[a], RxEntries, LexOfEntry, LexOfIndex, HybridOfIndex)
  BY <1>2 DEF AskHolds
<1> QED BY <1>1, <1>2, <1>3 DEF RxInv, RxHolds

\* What is derived from a corpus stays what it is while the corpus does.
LEMMA WorldKept ==
  ASSUME rxWorld' = rxWorld
  PROVE  /\ RxEntries' = RxEntries /\ RxIndexed' = RxIndexed /\ LexOfEntry' = LexOfEntry
         /\ LexOfIndex' = LexOfIndex /\ HybridOfIndex' = HybridOfIndex
<1>1. \A s : Events(s)' = Events(s)
  BY DEF Events
<1>2. \A t, s : Tf(t, s)' = Tf(t, s)
  BY <1>1 DEF Tf
<1>3. \A t : ShardDf(t)' = ShardDf(t)
  BY <1>2 DEF ShardDf
<1>4. \A s : DeriveDescriptors(s)' = DeriveDescriptors(s)
  BY <1>2, <1>3 DEF DeriveDescriptors
<1>5. \A s : BuiltEntry(s)' = BuiltEntry(s)
  BY <1>1, <1>4 DEF BuiltEntry
<1>6. \A ts : Matches(ts)' = Matches(ts)
  BY DEF Matches
<1>7. \A e : LexicalScore(e)' = LexicalScore(e)
  BY <1>6 DEF LexicalScore
<1>8. \A s : NoKey(s)' = NoKey(s)
  BY <1>1 DEF NoKey
<1>9. \A s : ShardInput(s)' = ShardInput(s)
  BY <1>1, <1>4, <1>8 DEF ShardInput
<1>10. RxEntries' = RxEntries
  BY <1>5 DEF RxEntries
<1>11. RxIndexed' = RxIndexed
  BY <1>9 DEF RxIndexed
<1>12. LexOfEntry' = LexOfEntry
  BY <1>5, <1>7 DEF LexOfEntry
<1>13. \A s : IndexedLex(s)' = IndexedLex(s)
  BY <1>4, <1>5, <1>6, <1>7 DEF IndexedLex
<1>14. LexOfIndex' = LexOfIndex
  BY <1>13 DEF LexOfIndex
<1>15. HybridOfIndex' = HybridOfIndex
  BY <1>1, <1>13 DEF HybridOfIndex
<1> QED BY <1>10, <1>11, <1>12, <1>14, <1>15

\* Every shard has scores, and a cosine for its centroid.
LEMMA ScoresAreInt ==
  ASSUME rxWorld \in RxWorlds, NEW s \in RxShards
  PROVE  IndexedLex(s) \in Int
<1> DEFINE e == BuiltEntry(s)
           m == Matches(ToSet(DeriveDescriptors(s)))
<1>1. PICK less \in 0..4 :
         LexicalScore(e) = 8 * Matches(e.tags) + 4 * Matches(e.desc) + 6 * Matches(e.name)
                           + 3 * Matches(e.summary) - less
  BY EntryScored
<1>2. /\ Matches(e.tags) \in Nat /\ Matches(e.desc) \in Nat /\ Matches(e.name) \in Nat
      /\ Matches(e.summary) \in Nat /\ m \in Nat
  BY MatchesCounted
<1>3. IndexedLex(s) = LexicalScore(e) + 6 * m
  BY DEF IndexedLex
<1> HIDE DEF e, m
<1> QED BY <1>1, <1>2, <1>3

LEMMA CentroidCosine ==
  ASSUME rxWorld \in RxWorlds, NEW s \in RxShards
  PROVE  Cosine(CentroidOf(Events(s))) \in 0..1000
<1> DEFINE es == Events(s)
           near == [i \in DOMAIN es |-> es[i].near]
           c == CentroidOf(es)
<1>1. es \in Seq(RxEvent)
  BY RxWorldHolds
<1> HIDE DEF es
<1>2. near \in Seq(BOOLEAN)
  <2>1. DOMAIN es = 1..Len(es) /\ Len(es) \in Nat
    BY <1>1
  <2>2. \A i \in 1..Len(es) : es[i].near \in BOOLEAN
    <3> TAKE i \in 1..Len(es)
    <3>1. es[i] \in RxEvent
      BY <1>1
    <3> QED BY <3>1 DEF RxEvent
  <2>3. near \in [1..Len(es) -> BOOLEAN]
    BY <2>1, <2>2
  <2> QED BY <2>1, <2>3
<1>3. c.on = Quantity(TRUE, near) /\ c.off = Quantity(FALSE, near)
  BY DEF CentroidOf
<1> HIDE DEF near, c
<1>4. c.on \in Nat /\ c.off \in Nat
  BY <1>2, <1>3, QuantityCounts
<1> QED BY <1>4, CosineBounded DEF c, es

\* The index only moves on, and the directory is built once.
Moves(index, next) == next = index \/ (index \in {"none", "building"} /\ next \in {"building", "ready", "failed"})

\* What holds of a query goes on to hold when others move.
LEMMA AskGoesOn ==
  ASSUME NEW index, NEW next, Moves(index, next), NEW entry, NEW then, NEW entries, then \in {entry, entries},
         NEW lex, NEW total, NEW hybrid, NEW q, AskHolds(index, entry, q, entries, lex, total, hybrid)
  PROVE  AskHolds(next, then, q, entries, lex, total, hybrid)
<1>1. next # index => index \in {"none", "building"} /\ next \in {"building", "ready", "failed"}
  BY DEF Moves
<1>2. q.pc # "idle" => then = entries /\ next # "off"
  BY <1>1 DEF AskHolds
<1>3. q.pc = "failed" => next = "failed"
  BY <1>1 DEF AskHolds
<1>4. q.pc = "scored" => \/ q.hybrid = << >> /\ q.lex = lex
                         \/ next = "ready" /\ q.hybrid = hybrid /\ q.lex = total
  BY <1>1 DEF AskHolds
<1> QED BY <1>2, <1>3, <1>4 DEF AskHolds

Put(ask, a, q) == [ask EXCEPT ![a] = q]

\* One query moves, or none.
AskMoved(ask, moved, next, then, entries, lex, total, hybrid) ==
    \/ moved = ask
    \/ \E a \in RxAsks : \E q : moved = Put(ask, a, q) /\ AskHolds(next, then, q, entries, lex, total, hybrid)

\* A step that moves the index, the directory or one query.
LEMMA RxMoves ==
  ASSUME NEW corpus, NEW index, NEW entry, NEW table, NEW builds, NEW ask, NEW entries, NEW indexed,
         NEW lex, NEW total, NEW hybrid,
         RxHolds(corpus, index, entry, table, builds, ask, entries, indexed, lex, total, hybrid),
         NEW next, Moves(index, next), NEW then, then \in {entry, entries},
         NEW tab, tab = (IF next = "ready" THEN indexed ELSE << >>),
         NEW more, more = (IF next \in {"off", "none"} THEN 0 ELSE 1),
         NEW nask, AskMoved(ask, nask, next, then, entries, lex, total, hybrid)
  PROVE  RxHolds(corpus, next, then, tab, more, nask, entries, indexed, lex, total, hybrid)
<1>1. /\ index \in {"off", "none", "building", "ready", "failed"} /\ (index # "off" => corpus \in RxWorlds)
      /\ entry \in {<< >>, entries} /\ ask = [a \in RxAsks |-> ask[a]]
      /\ \A a \in RxAsks : AskHolds(index, entry, ask[a], entries, lex, total, hybrid)
  BY DEF RxHolds
<1>2. next \in {"off", "none", "building", "ready", "failed"} /\ (next # "off" => corpus \in RxWorlds)
  BY <1>1 DEF Moves
<1>3. then \in {<< >>, entries}
  BY <1>1
<1>4. \A a \in RxAsks : AskHolds(next, then, ask[a], entries, lex, total, hybrid)
  <2> TAKE a \in RxAsks
  <2>1. AskHolds(index, entry, ask[a], entries, lex, total, hybrid)
    BY <1>1
  <2> QED BY <2>1, AskGoesOn
<1>5. nask = [a \in RxAsks |-> nask[a]] /\ \A a \in RxAsks : AskHolds(next, then, nask[a], entries, lex, total, hybrid)
  <2>1. CASE nask = ask
    BY <1>1, <1>4, <2>1
  <2>2. CASE \E a \in RxAsks : \E q : nask = Put(ask, a, q) /\ AskHolds(next, then, q, entries, lex, total, hybrid)
    <3>1. PICK a \in RxAsks : \E q : nask = Put(ask, a, q) /\ AskHolds(next, then, q, entries, lex, total, hybrid)
      BY <2>2
    <3>7. PICK q : nask = Put(ask, a, q) /\ AskHolds(next, then, q, entries, lex, total, hybrid)
      BY <3>1
    <3>2. DOMAIN ask = RxAsks
      BY <1>1
    <3>3. nask = [b \in RxAsks |-> IF b = a THEN q ELSE ask[b]]
      BY <3>7, <3>2 DEF Put
    <3>4. \A b \in RxAsks : nask[b] = IF b = a THEN q ELSE ask[b]
      BY <3>3
    <3>5. nask = [b \in RxAsks |-> nask[b]]
      BY <3>3
    <3>6. ASSUME NEW b \in RxAsks PROVE AskHolds(next, then, nask[b], entries, lex, total, hybrid)
      <4>1. CASE b = a
        BY <3>7, <3>4, <4>1
      <4>2. CASE b # a
        <5>1. nask[b] = ask[b]
          BY <3>4, <4>2
        <5> QED BY <1>4, <5>1
      <4> QED BY <4>1, <4>2
    <3> QED BY <3>5, <3>6
  <2> QED BY <2>1, <2>2 DEF AskMoved
<1> QED BY <1>2, <1>3, <1>5 DEF RxHolds

\* The scores a ready index gives are those of the corpus.
LEMMA TotalsAreIndexed ==
  ASSUME rxEntry = RxEntries, rxTable = RxIndexed
  PROVE  [s \in RxShards |-> LexTotal(s)] = LexOfIndex /\ [s \in RxShards |-> HybridScore(s)] = HybridOfIndex
<1>1. ASSUME NEW s \in RxShards
      PROVE  LexTotal(s) = IndexedLex(s) /\ HybridScore(s) = Saturated(IndexedLex(s)) + 2 * Cosine(CentroidOf(Events(s)))
  <2>1. rxEntry[s] = BuiltEntry(s)
    BY DEF RxEntries
  <2>2. rxTable[s] = RouterIndexShard(ShardInput(s)) /\ s \in DOMAIN rxTable
    BY DEF RxIndexed
  <2>3. /\ rxTable[s].terms = ToSet(DeriveDescriptors(s)) /\ rxTable[s].units = << >>
        /\ rxTable[s].centroid = CentroidOf(Events(s))
    BY <2>2 DEF RouterIndexShard, ShardInput
  <2>4. rxTable # << >>
    BY <2>2
  <2>5. LexTotal(s) = IndexedLex(s)
    BY <2>1, <2>3, <2>4 DEF LexTotal, IndexedLex
  <2>6. EmbeddingLeg(rxTable[s]) = Cosine(CentroidOf(Events(s)))
    BY <2>3 DEF EmbeddingLeg
  <2> QED BY <2>5, <2>6 DEF HybridScore
<1> QED BY <1>1 DEF LexOfIndex, HybridOfIndex

LEMMA RxKeeps == RxInv /\ [RxNext]_routerVars => RxInv'
<1> SUFFICES ASSUME RxInv, [RxNext]_routerVars PROVE RxInv'
  OBVIOUS
<1>1. rxWorld' = rxWorld
  BY DEF RxNext, routerVars, BuildDirectory, Warm, BuildDone, BuildFails, RouteAsk, RankHybrid, FallBack, Rejected
<1> DEFINE entries == RxEntries
           indexed == RxIndexed
           lex == LexOfEntry
           total == LexOfIndex
           hybrid == HybridOfIndex
           Then(q) == AskHolds(rxIndex', rxEntry', q, entries, lex, total, hybrid)
           AskMoves == AskMoved(rxAsk, rxAsk', rxIndex', rxEntry', entries, lex, total, hybrid)
           Step == /\ Moves(rxIndex, rxIndex') /\ rxEntry' \in {rxEntry, entries}
                   /\ rxTable' = (IF rxIndex' = "ready" THEN indexed ELSE << >>)
                   /\ rxBuilds' = (IF rxIndex' \in {"off", "none"} THEN 0 ELSE 1)
                   /\ AskMoves
<1>2. RxHolds(rxWorld, rxIndex, rxEntry, rxTable, rxBuilds, rxAsk, entries, indexed, lex, total, hybrid)
  BY DEF RxInv
<1>3. /\ entries' = entries /\ indexed' = indexed /\ lex' = lex /\ total' = total /\ hybrid' = hybrid
  BY <1>1, WorldKept
<1>4. /\ rxIndex \in {"off", "none", "building", "ready", "failed"}
      /\ rxBuilds = IF rxIndex \in {"off", "none"} THEN 0 ELSE 1
      /\ rxEntry \in {<< >>, entries} /\ rxTable = IF rxIndex = "ready" THEN indexed ELSE << >>
      /\ \A a \in RxAsks : /\ AskHolds(rxIndex, rxEntry, rxAsk[a], entries, lex, total, hybrid)
                           /\ rxAsk[a] = [pc |-> rxAsk[a].pc, lex |-> rxAsk[a].lex, hybrid |-> rxAsk[a].hybrid]
                           /\ rxAsk[a].pc # "idle" => rxEntry = entries /\ rxIndex # "off"
      /\ DOMAIN rxAsk = RxAsks
  BY <1>2 DEF RxHolds, AskHolds
<1>5. ASSUME Step PROVE RxInv'
  <2>1. RxHolds(rxWorld, rxIndex', rxEntry', rxTable', rxBuilds', rxAsk', entries, indexed, lex, total, hybrid)
    <3>1. /\ Moves(rxIndex, rxIndex') /\ rxEntry' \in {rxEntry, entries}
          /\ rxTable' = (IF rxIndex' = "ready" THEN indexed ELSE << >>)
          /\ rxBuilds' = (IF rxIndex' \in {"off", "none"} THEN 0 ELSE 1)
      BY <1>5
    <3>2. AskMoves
      BY <1>5
    <3> DEFINE i == rxIndex'
               e == rxEntry'
               t == rxTable'
               b == rxBuilds'
               k == rxAsk'
    <3> HIDE DEF entries, indexed, lex, total, hybrid, i, e, t, b, k
    <3>3. Moves(rxIndex, i) /\ e \in {rxEntry, entries} /\ t = (IF i = "ready" THEN indexed ELSE << >>)
          /\ b = (IF i \in {"off", "none"} THEN 0 ELSE 1)
      BY <3>1 DEF i, e, t, b
    <3>4. AskMoved(rxAsk, k, i, e, entries, lex, total, hybrid)
      BY <3>2 DEF i, e, k
    <3>5. RxHolds(rxWorld, i, e, t, b, k, entries, indexed, lex, total, hybrid)
      BY <1>2, <3>3, <3>4, RxMoves
    <3> QED BY <3>5 DEF i, e, t, b, k
  <2> QED BY <1>1, <1>3, <2>1 DEF RxInv
<1> HIDE DEF Step
<1>6. CASE UNCHANGED routerVars
  <2>1. UNCHANGED <<rxIndex, rxEntry, rxTable, rxBuilds, rxAsk>>
    BY <1>6 DEF routerVars
  <2>2. Moves(rxIndex, rxIndex')
    BY <2>1 DEF Moves
  <2>3. Step
    BY <1>4, <2>1, <2>2 DEF Step, AskMoved, Put
  <2> QED BY <1>5, <2>3
<1>7. CASE BuildDirectory
  <2>1. rxEntry' = entries
    BY <1>7 DEF BuildDirectory, RxEntries
  <2>2. UNCHANGED <<rxIndex, rxTable, rxBuilds, rxAsk>>
    BY <1>7 DEF BuildDirectory
  <2>3. Moves(rxIndex, rxIndex')
    BY <2>2 DEF Moves
  <2>4. Step
    BY <1>4, <2>1, <2>2, <2>3 DEF Step, AskMoved, Put
  <2> QED BY <1>5, <2>4
<1>8. ASSUME GetRouterIndex, rxIndex # "off"
      PROVE  /\ Moves(rxIndex, rxIndex') /\ rxBuilds' = (IF rxIndex' \in {"off", "none"} THEN 0 ELSE 1)
             /\ (rxIndex' = "ready" <=> rxIndex = "ready") /\ rxIndex' # "off"
  BY <1>4, <1>8 DEF GetRouterIndex, Moves
<1>9. CASE Warm
  <2>1. Step
    BY <1>4, <1>8, <1>9 DEF Step, Warm, AskMoved, Put
  <2> QED BY <1>5, <2>1
<1>10. CASE BuildDone
  <2>1. rxTable' = indexed
    BY <1>10 DEF BuildDone, RxIndexed
  <2>2. Step
    BY <1>4, <1>10, <2>1 DEF Step, BuildDone, Moves, AskMoved, Put
  <2> QED BY <1>5, <2>2
<1>11. CASE BuildFails
  <2>1. Step
    BY <1>4, <1>11 DEF Step, BuildFails, Moves, AskMoved, Put
  <2> QED BY <1>5, <2>1
<1>12. ASSUME NEW a \in RxAsks, RouteAsk(a) PROVE Step
  <2>1. rxEntry' = rxEntry /\ rxTable' = rxTable /\ rxIndex # "off" /\ rxEntry = entries
    BY <1>4, <1>12 DEF RouteAsk
  <2>2. CASE rxWorld.hybrid
    <3> DEFINE q == [rxAsk[a] EXCEPT !.pc = "waiting"]
    <3>1. GetRouterIndex /\ rxAsk' = [rxAsk EXCEPT ![a] = q]
      BY <1>12, <2>2 DEF RouteAsk
    <3>2. q = [pc |-> "waiting", lex |-> rxAsk[a].lex, hybrid |-> rxAsk[a].hybrid]
      <4> DEFINE r == rxAsk[a]
      <4>1. r = [pc |-> r.pc, lex |-> r.lex, hybrid |-> r.hybrid]
        BY <1>4
      <4> HIDE DEF r
      <4> QED BY <4>1 DEF r
    <3> HIDE DEF q
    <3>3. Then(q)
      BY <1>8, <2>1, <3>1, <3>2 DEF AskHolds
    <3>4. AskMoves
      BY <3>1, <3>3 DEF AskMoved, Put
    <3>5. /\ Moves(rxIndex, rxIndex') /\ rxBuilds' = (IF rxIndex' \in {"off", "none"} THEN 0 ELSE 1)
          /\ (rxIndex' = "ready" <=> rxIndex = "ready")
      BY <1>8, <2>1, <3>1
    <3>6. rxTable' = (IF rxIndex' = "ready" THEN indexed ELSE << >>)
      BY <1>4, <2>1, <3>5
    <3> QED BY <2>1, <3>4, <3>5, <3>6 DEF Step, AskMoved, Put
  <2>3. CASE ~rxWorld.hybrid
    <3> DEFINE q == [pc |-> "scored", hybrid |-> << >>, lex |-> [s \in RxShards |-> LexicalScore(rxEntry[s])]]
    <3>1. UNCHANGED <<rxIndex, rxBuilds>> /\ rxAsk' = [rxAsk EXCEPT ![a] = q]
      BY <1>12, <2>3 DEF RouteAsk
    <3>2. [s \in RxShards |-> LexicalScore(rxEntry[s])] = lex
      BY <2>1 DEF RxEntries, LexOfEntry
    <3>3. Then(q)
      BY <2>1, <3>1, <3>2 DEF AskHolds
    <3> HIDE DEF q
    <3> QED BY <1>4, <2>1, <3>1, <3>3 DEF Step, Moves, AskMoved, Put
  <2> QED BY <2>2, <2>3
<1>13. ASSUME NEW a \in RxAsks, RankHybrid(a) PROVE Step
  <2>1. /\ UNCHANGED <<rxEntry, rxIndex, rxTable, rxBuilds>> /\ rxIndex = "ready"
        /\ rxEntry = entries /\ rxTable = indexed
    BY <1>4, <1>13 DEF RankHybrid
  <2> DEFINE q == [pc |-> "scored", lex |-> [s \in RxShards |-> LexTotal(s)],
                   hybrid |-> [s \in RxShards |-> HybridScore(s)]]
  <2>2. rxAsk' = [rxAsk EXCEPT ![a] = q]
    BY <1>13 DEF RankHybrid
  <2>3. q = [pc |-> "scored", lex |-> total, hybrid |-> hybrid]
    BY <2>1, TotalsAreIndexed
  <2> HIDE DEF q
  <2>4. Then(q)
    BY <2>1, <2>3 DEF AskHolds
  <2> QED BY <1>4, <2>1, <2>2, <2>4 DEF Step, Moves, AskMoved, Put
<1>14. ASSUME NEW a \in RxAsks, FallBack(a) PROVE Step
  <2>1. UNCHANGED <<rxEntry, rxIndex, rxTable, rxBuilds>> /\ rxIndex = "ready" /\ rxEntry = entries
    BY <1>4, <1>14 DEF FallBack
  <2> DEFINE q == [pc |-> "scored", hybrid |-> << >>, lex |-> [s \in RxShards |-> LexicalScore(rxEntry[s])]]
  <2>2. rxAsk' = [rxAsk EXCEPT ![a] = q]
    BY <1>14 DEF FallBack
  <2>3. [s \in RxShards |-> LexicalScore(rxEntry[s])] = lex
    BY <2>1 DEF RxEntries, LexOfEntry
  <2>4. Then(q)
    BY <2>1, <2>3 DEF AskHolds
  <2> HIDE DEF q
  <2> QED BY <1>4, <2>1, <2>2, <2>4 DEF Step, Moves, AskMoved, Put
<1>15. ASSUME NEW a \in RxAsks, Rejected(a) PROVE Step
  <2>1. UNCHANGED <<rxEntry, rxIndex, rxTable, rxBuilds>> /\ rxIndex = "failed" /\ rxEntry = entries
    BY <1>4, <1>15 DEF Rejected
  <2> DEFINE q == [rxAsk[a] EXCEPT !.pc = "failed"]
  <2>2. rxAsk' = [rxAsk EXCEPT ![a] = q]
    BY <1>15 DEF Rejected
  <2>3. q = [pc |-> "failed", lex |-> rxAsk[a].lex, hybrid |-> rxAsk[a].hybrid]
    <3> DEFINE r == rxAsk[a]
    <3>1. r = [pc |-> r.pc, lex |-> r.lex, hybrid |-> r.hybrid]
      BY <1>4
    <3> HIDE DEF r
    <3> QED BY <3>1 DEF r
  <2> HIDE DEF q
  <2>4. Then(q)
    BY <2>1, <2>3 DEF AskHolds
  <2> QED BY <1>4, <2>1, <2>2, <2>4 DEF Step, Moves, AskMoved, Put
<1> QED BY <1>5, <1>6, <1>7, <1>9, <1>10, <1>11, <1>12, <1>13, <1>14, <1>15 DEF RxNext

\* What the invariant says of the scores is what RouterSound promises.
LEMMA RxPromises == RxInv => RouterSound
<1> SUFFICES ASSUME RxInv PROVE RouterSound
  OBVIOUS
<1>1. /\ rxIndex \in {"off", "none", "building", "ready", "failed"}
      /\ rxIndex # "off" => rxWorld \in RxWorlds
      /\ rxBuilds = IF rxIndex \in {"off", "none"} THEN 0 ELSE 1
      /\ rxTable = IF rxIndex = "ready" THEN RxIndexed ELSE << >>
      /\ \A a \in RxAsks : AskHolds(rxIndex, rxEntry, rxAsk[a], RxEntries, LexOfEntry, LexOfIndex, HybridOfIndex)
  BY DEF RxInv, RxHolds
<1>2. ASSUME NEW a \in RxAsks, Scored(a)
      PROVE  /\ rxWorld \in RxWorlds
             /\ \/ rxAsk[a].hybrid = << >> /\ rxAsk[a].lex = LexOfEntry
                \/ rxIndex = "ready" /\ rxAsk[a].hybrid = HybridOfIndex /\ rxAsk[a].lex = LexOfIndex
  BY <1>1, <1>2 DEF Scored, AskHolds
<1>3. IndexBuiltOnce
  <2>1. rxBuilds \in {0, 1}
    BY <1>1
  <2>2. \A a \in RxAsks : rxAsk[a].pc = "failed" => rxIndex = "failed"
    BY <1>1 DEF AskHolds
  <2>3. rxBuilds <= 1
    BY <2>1
  <2> QED BY <2>2, <2>3 DEF IndexBuiltOnce
<1>4. UnitsTile
  <2> SUFFICES ASSUME rxIndex = "ready", NEW s \in RxShards, NEW size \in 1..3, NEW key \in {NoKey(s), TopicKey(s)}
               PROVE  Tiles(PartitionIntoUnits(Len(Events(s)), size, key), Len(Events(s)), size, key)
    BY DEF UnitsTile
  <2>1. Len(Events(s)) \in Nat
    BY <1>1, RxWorldHolds
  <2> QED BY <2>1, UnitsAreTiles
<1>5. ThresholdKept
  <2> SUFFICES ASSUME NEW a \in RxAsks, NEW s \in RxShards, Scored(a), rxAsk[a].hybrid # << >>
               PROVE  /\ rxAsk[a].lex[s] > 16 => rxAsk[a].hybrid[s] > FloorThreshold
                      /\ Cosine(rxTable[s].centroid) = 0 /\ rxAsk[a].hybrid[s] > FloorThreshold => rxAsk[a].lex[s] > 16
    BY DEF ThresholdKept
  <2> DEFINE l == IndexedLex(s)
             c == Cosine(CentroidOf(Events(s)))
  <2>1. rxWorld \in RxWorlds /\ rxIndex = "ready" /\ rxAsk[a].hybrid = HybridOfIndex /\ rxAsk[a].lex = LexOfIndex
    BY <1>2
  <2>2. rxAsk[a].lex[s] = l /\ rxAsk[a].hybrid[s] = Saturated(l) + 2 * c
    BY <2>1 DEF LexOfIndex, HybridOfIndex
  <2>3. rxTable[s].centroid = CentroidOf(Events(s))
    BY <1>1, <2>1 DEF RxIndexed, RouterIndexShard, ShardInput
  <2>4. l \in Int
    BY <2>1, ScoresAreInt
  <2>5. c \in 0..1000
    BY <2>1, CentroidCosine
  <2> HIDE DEF l, c
  <2>6. FloorThreshold = 333 /\ Saturated(l) \in Int /\ (l > 16 => Saturated(l) > 333) /\ (l <= 16 => Saturated(l) <= 333)
    BY <2>4, ThresholdLies
  <2> DEFINE sat == Saturated(l)
  <2> HIDE DEF sat
  <2>7. l > 16 => sat + 2 * c > 333
    BY <2>5, <2>6 DEF sat
  <2>8. c = 0 /\ sat + 2 * c > 333 => l > 16
    BY <2>4, <2>6 DEF sat
  <2>9. Cosine(rxTable[s].centroid) = c
    BY <2>3 DEF c
  <2> QED BY <2>2, <2>6, <2>7, <2>8, <2>9 DEF sat
<1>6. RareTermRoutes
  <2> SUFFICES ASSUME NEW a \in RxAsks, NEW s \in RxShards, NEW t \in ToSet(RxTerms),
                      Scored(a), rxWorld.enrich, rxWorld.query = {t}, Tf(t, s) > 0,
                      \A r \in RxShards \ {s} : Tf(t, r) = 0 /\ ~\E u \in ToSet(RxTerms) : Tf(u, r) > 0 /\ Alike(t, u),
                      Cardinality(Rivals(t, s)) <= MaxDescriptors,
                      NEW r \in RxShards \ {s}
               PROVE  rxAsk[a].lex[s] > rxAsk[a].lex[r]
    BY DEF RareTermRoutes
  <2>1. rxWorld \in RxWorlds /\ rxAsk[a].lex \in {LexOfEntry, LexOfIndex}
    BY <1>2
  <2> DEFINE x == LexicalScore(BuiltEntry(s))
             y == LexicalScore(BuiltEntry(r))
  <2>2. /\ x \in Int /\ x >= 11 /\ y \in Int /\ y <= 0
        /\ Matches(ToSet(DeriveDescriptors(s))) = 1 /\ Matches(ToSet(DeriveDescriptors(r))) = 0
    BY <2>1, RareScores
  <2>3. IndexedLex(s) = x + 6 * 1 /\ IndexedLex(r) = y + 6 * 0
    BY <2>2 DEF IndexedLex
  <2>4. /\ LexOfEntry[s] = x /\ LexOfEntry[r] = y
        /\ LexOfIndex[s] = IndexedLex(s) /\ LexOfIndex[r] = IndexedLex(r)
    BY DEF LexOfEntry, LexOfIndex
  <2> HIDE DEF x, y
  <2>5. x > y /\ x + 6 * 1 > y + 6 * 0
    BY <2>2
  <2> QED BY <2>1, <2>3, <2>4, <2>5
<1> QED BY <1>3, <1>4, <1>5, <1>6 DEF RouterSound
=============================================================================
