---------------------------- MODULE ServerProofs ----------------------------
(***************************************************************************)
(* Theorems about the AMB retrieval server and the memory provider that    *)
(* keeps it up, for every set of users and requests and every bound: what  *)
(* the provider serves is the log of what it ingested, and what the server *)
(* serves as fresh was built from the documents it has.                    *)
(***************************************************************************)
EXTENDS WarmProvider, AmbServer, FiniteSetTheorems, SequenceTheorems, TLAPS

-----------------------------------------------------------------------------
(* The provider.  WarmInv is inductive.                                    *)

Server == [up : BOOLEAN, ready : BOOLEAN, docs : SUBSET Document]
Line == Document \cup {Torn}
Call == [op : {"none", "initialize", "fresh", "resume", "ingest", "retrieve"},
         at : {"none", "ensure", "boot", "reset", "unlink", "health", "replay", "write", "post"},
         left : Seq(Line)]

\* Where a call can stand: StepsOf, spelt out.
Legal(c) ==
    \/ c = NoCall
    \/ c.op = "initialize" /\ c.at \in {"ensure", "boot"}
    \/ c.op = "fresh" /\ c.at \in {"ensure", "boot", "reset", "unlink"}
    \/ c.op = "resume" /\ c.at \in {"ensure", "boot", "health", "replay"}
    \/ c.op = "ingest" /\ c.at \in {"write", "post"}
    \/ c.op = "retrieve" /\ c.at \in {"ensure", "boot", "health", "replay", "post"}

WarmTypes ==
    /\ docLog \in Seq(Line)
    /\ servers \in Seq(Server) /\ Len(servers) <= MaxServers
    /\ proc \in 0..Len(servers) /\ port \in 0..Len(servers)
    /\ call \in Call
    /\ Legal(call)
    /\ call.op = "ingest" => Range(call.left) \subseteq Document
    /\ prepared \in BOOLEAN /\ acked \subseteq Document
    /\ used \in [docs : 0..WarmDocs, runs : Nat, lapses : Nat]
    /\ dropped \subseteq 1..used.docs /\ maimed \subseteq 1..MaxServers

\* The announced port is of the process the provider holds or of one that is gone,
\* and a process whose port is not known yet has been told nothing.
Connected ==
    /\ port # 0 /\ port # proc => ~servers[port].up
    /\ proc # 0 /\ port # proc => servers[proc].docs = {}
    /\ call.at = "boot" => proc # 0 /\ port # proc
    /\ call.at \in {"reset", "unlink", "health", "replay"} => port # 0

\* Nothing that a reset dropped is in the log, on its way, or in the server.
Forgotten ==
    /\ port # 0 => servers[port].docs \cap dropped = {}
    /\ Range(docLog) \cap dropped = {} /\ Range(call.left) \cap dropped = {}
    /\ call.at = "unlink" => servers[port].docs = {}

\* The documents D are in the log, unless the log has a torn line.
Logged(D) == D \subseteq Range(docLog) \/ Torn \in Range(docLog)

\* Which call may find or leave the provider prepared, and what is in the log.
Recorded ==
    /\ call.op = "fresh" => acked = {}
    /\ call.op \in {"ingest", "retrieve"} => prepared
    /\ call.op \in {"initialize", "fresh", "resume"} => ~prepared
    /\ Logged(acked)
    /\ call.op = "ingest" /\ call.at = "post" => Logged(Range(call.left))

\* A server that holds anything holds everything confirmed, and once prepared so does an
\* empty one, except while it is examined and refilled; a replay that raised is excused.
Filled ==
    /\ call.at = "replay" /\ port # 0 /\ servers[port].up
          => Range(docLog) \subseteq servers[port].docs \cup Range(call.left)
    /\ port # 0 /\ port \notin maimed /\ call.at # "replay" /\ servers[port].up =>
          (servers[port].docs # {} \/ (prepared /\ call.at # "health")
             => acked \subseteq servers[port].docs)

WarmInv == WarmTypes /\ Connected /\ Forgotten /\ Recorded /\ Filled
           /\ WholeUnlessMaimed /\ ResetIsFinal

\* What one server was told leaves the others alone.
LEMMA ServerPut ==
  ASSUME NEW S \in Seq(Server), NEW s \in 1..Len(S), NEW v \in Server
  PROVE  LET T == [S EXCEPT ![s] = v]
         IN /\ T \in Seq(Server) /\ Len(T) = Len(S) /\ T[s] = v
            /\ \A t \in 1..Len(S) : t # s => T[t] = S[t]
OBVIOUS

LEMMA ServerAdd ==
  ASSUME NEW S \in Seq(Server), NEW v \in Server
  PROVE  LET T == Append(S, v)
         IN /\ T \in Seq(Server) /\ Len(T) = Len(S) + 1 /\ T[Len(S) + 1] = v
            /\ \A t \in 1..Len(S) : T[t] = S[t]
OBVIOUS

LEMMA RangeOf ==
  ASSUME NEW S, NEW p \in Seq(S)
  PROVE  /\ Range(p) \subseteq S /\ Range(<< >>) = {}
         /\ \A x : Range(<<x>>) = {x}
         /\ \A x \in S : Range(Append(p, x)) = Range(p) \cup {x}
<1>1. Range(p) \subseteq S /\ Range(<< >>) = {} /\ \A x : Range(<<x>>) = {x}
  BY DEF Range
<1>2. \A x \in S : Range(Append(p, x)) = Range(p) \cup {x}
  <2> TAKE x \in S
  <2>1. /\ DOMAIN Append(p, x) = 1..(Len(p) + 1) /\ DOMAIN p = 1..Len(p) /\ Len(p) \in Nat
        /\ Append(p, x)[Len(p) + 1] = x /\ \A i \in 1..Len(p) : Append(p, x)[i] = p[i]
    OBVIOUS
  <2> QED BY <2>1 DEF Range
<1> QED BY <1>1, <1>2

LEMMA RangeCat ==
  ASSUME NEW S, NEW p \in Seq(S), NEW q \in Seq(S)
  PROVE  Range(p \o q) = Range(p) \cup Range(q)
<1>1. /\ DOMAIN (p \o q) = 1..(Len(p) + Len(q)) /\ DOMAIN p = 1..Len(p) /\ DOMAIN q = 1..Len(q)
      /\ Len(p) \in Nat /\ Len(q) \in Nat
  OBVIOUS
<1>2. \A i \in 1..Len(q) : (p \o q)[Len(p) + i] = q[i] /\ Len(p) + i \in DOMAIN (p \o q)
  OBVIOUS
<1>3. \A i \in 1..Len(p) : (p \o q)[i] = p[i] /\ i \in DOMAIN (p \o q)
  OBVIOUS
<1>4. \A i \in DOMAIN (p \o q) :
        i \in 1..Len(p) \/ (i - Len(p) \in 1..Len(q) /\ (p \o q)[i] = q[i - Len(p)])
  OBVIOUS
<1> QED BY <1>1, <1>2, <1>3, <1>4 DEF Range

\* A batch and the lines behind it are the lines there were.
LEMMA BatchAndRest ==
  ASSUME NEW S, NEW l \in Seq(S), NEW n \in 0..Len(l)
  PROVE  /\ SubSeq(l, 1, n) \in Seq(S) /\ Len(SubSeq(l, 1, n)) = n
         /\ SubSeq(l, n + 1, Len(l)) \in Seq(S)
         /\ Range(l) = Range(SubSeq(l, 1, n)) \cup Range(SubSeq(l, n + 1, Len(l)))
<1> DEFINE p == SubSeq(l, 1, n)
           q == SubSeq(l, n + 1, Len(l))
<1>1. /\ p \in Seq(S) /\ Len(p) = n /\ \A i \in 1..n : p[i] = l[i]
      /\ q \in Seq(S) /\ Len(q) = Len(l) - n
      /\ \A i \in 1..(Len(l) - n) : q[i] = l[n + i]
  OBVIOUS
<1> HIDE DEF p, q
<1>2. /\ DOMAIN p = 1..n /\ DOMAIN q = 1..(Len(l) - n) /\ DOMAIN l = 1..Len(l)
      /\ Len(l) \in Nat /\ n \in Nat /\ n <= Len(l)
  BY <1>1
<1>3. \A i \in 1..Len(l) : i \in 1..n \/ (i - n \in 1..(Len(l) - n) /\ i = n + (i - n))
  BY <1>2
<1>4. \A i \in 1..(Len(l) - n) : n + i \in 1..Len(l)
  BY <1>2
<1>5. \A i \in 1..n : i \in 1..Len(l)
  BY <1>2
<1>6. Range(p) \subseteq Range(l) /\ Range(q) \subseteq Range(l)
  <2>1. Range(p) \subseteq Range(l)
    BY <1>1, <1>2, <1>5 DEF Range
  <2>2. \A i \in 1..(Len(l) - n) : q[i] = l[n + i] /\ n + i \in DOMAIN l
    BY <1>1, <1>2, <1>4
  <2>3. Range(q) \subseteq Range(l)
    BY <1>2, <2>2 DEF Range
  <2> QED BY <2>1, <2>3
<1>7. Range(l) \subseteq Range(p) \cup Range(q)
  <2> SUFFICES ASSUME NEW i \in 1..Len(l) PROVE l[i] \in Range(p) \cup Range(q)
    BY <1>2 DEF Range
  <2>1. CASE i \in 1..n
    BY <1>1, <1>2, <2>1 DEF Range
  <2>2. CASE i \notin 1..n
    <3>1. i - n \in 1..(Len(l) - n) /\ i = n + (i - n)
      BY <1>3, <2>2
    <3>2. q[i - n] = l[i]
      BY <1>1, <3>1
    <3> QED BY <1>2, <3>1, <3>2 DEF Range
  <2> QED BY <2>1, <2>2
<1> QED BY <1>1, <1>6, <1>7 DEF p, q

(* One lemma for each step; each part of WarmInv is a step of its own.     *)

USE DEF WarmInv, WarmTypes, Call, Legal, NoCall, Document, Line, Torn, Server, Logged

LEMMA UsedPut ==
  ASSUME NEW D, NEW R, NEW L, NEW u \in [docs : D, runs : R, lapses : L]
  PROVE  /\ \A x \in D : LET v == [u EXCEPT !.docs = x]
                         IN v \in [docs : D, runs : R, lapses : L] /\ v.docs = x
         /\ \A x \in L : LET v == [u EXCEPT !.lapses = x]
                         IN v \in [docs : D, runs : R, lapses : L] /\ v.docs = u.docs
         /\ \A x \in R : LET v == [u EXCEPT !.runs = x]
                         IN v \in [docs : D, runs : R, lapses : L] /\ v.docs = u.docs
OBVIOUS

LEMMA LapseTyped ==
  ASSUME WarmInv, Lapse
  PROVE  used' \in [docs : 0..WarmDocs, runs : Nat, lapses : Nat] /\ used'.docs = used.docs
<1>1. used.lapses + 1 \in Nat
  OBVIOUS
<1>2. PICK x \in Nat : x = used.lapses + 1 /\ used' = [used EXCEPT !.lapses = x]
  BY <1>1 DEF Lapse
<1> QED BY <1>2, UsedPut

LEMMA BeginKeeps ==
  ASSUME WarmInv, Initialize \/ Prepare \/ RetrieveDocs
  PROVE  WarmInv'
<1>1. PICK op \in {"initialize", "fresh", "resume", "retrieve"} :
         /\ Begin(op)
         /\ op = "initialize" => ~prepared
         /\ op = "retrieve" => prepared
  BY DEF Initialize, Prepare, RetrieveDocs
<1>2. /\ call = NoCall /\ call' = [op |-> op, at |-> "ensure", left |-> << >>]
      /\ prepared' = (IF op \in {"fresh", "resume"} THEN FALSE ELSE prepared)
      /\ acked' = (IF op = "fresh" THEN {} ELSE acked)
      /\ answer' = NoAnswer
      /\ UNCHANGED <<docLog, servers, proc, port, dropped, maimed, used>>
  BY <1>1 DEF Begin
<1>3. call' \in Call /\ Legal(call') /\ Range(call'.left) = {}
  BY <1>2, RangeOf
<1>4. WarmTypes'
  BY <1>2, <1>3
<1>5. Connected'
  BY <1>2 DEF Connected
<1>6. Forgotten'
  BY <1>2, <1>3 DEF Forgotten
<1>7. Recorded'
  BY <1>1, <1>2 DEF Recorded
<1>8. Filled'
  BY <1>2 DEF Filled
<1>9. WholeUnlessMaimed' /\ ResetIsFinal'
  BY <1>2 DEF WholeUnlessMaimed, ResetIsFinal, NoAnswer
<1> QED BY <1>4, <1>5, <1>6, <1>7, <1>8, <1>9

LEMMA IngestKeeps ==
  ASSUME WarmInv, IngestDocs
  PROVE  WarmInv'
<1> PICK n : n = used.docs + 1
  OBVIOUS
<1>1. /\ call = NoCall /\ prepared
      /\ call' = [op |-> "ingest", at |-> "write", left |-> <<n>>]
      /\ used' = [used EXCEPT !.docs = n]
      /\ answer' = NoAnswer /\ n \in 1..WarmDocs
      /\ UNCHANGED <<docLog, servers, proc, port, prepared, acked, dropped, maimed>>
  BY WarmBounds DEF IngestDocs
<1>2. Range(call'.left) = {n} /\ call' \in Call
  BY <1>1, RangeOf
<1>3. used' \in [docs : 0..WarmDocs, runs : Nat, lapses : Nat] /\ used'.docs = n
  <2>1. n \in 0..WarmDocs
    BY <1>1, WarmBounds
  <2> QED BY <1>1, <2>1, UsedPut
<1>4. dropped \subseteq 1..n /\ n \notin dropped
  <2>1. \A d \in dropped : d \in 1..used.docs
    OBVIOUS
  <2>2. n = used.docs + 1 /\ used.docs \in Nat
    OBVIOUS
  <2> QED BY <2>1, <2>2
<1>5. WarmTypes'
  BY <1>1, <1>2, <1>3, <1>4
<1>6. Connected'
  BY <1>1 DEF Connected
<1>7. Forgotten'
  BY <1>1, <1>2, <1>4 DEF Forgotten
<1>8. Recorded'
  BY <1>1 DEF Recorded
<1>9. Filled'
  BY <1>1 DEF Filled
<1>10. WholeUnlessMaimed' /\ ResetIsFinal'
  BY <1>1 DEF WholeUnlessMaimed, ResetIsFinal, NoAnswer
<1> QED BY <1>5, <1>6, <1>7, <1>8, <1>9, <1>10

LEMMA LogRowKeeps ==
  ASSUME WarmInv, LogRow
  PROVE  WarmInv'
<1>1. /\ call.op = "ingest" /\ call.at = "write" /\ call' = [call EXCEPT !.at = "post"]
      /\ (docLog' = docLog /\ Torn \in Range(docLog)) \/ docLog' = docLog \o call.left
      /\ UNCHANGED <<servers, proc, port, prepared, acked, dropped, maimed, answer, used>>
  <2>1. docLog # << >> /\ docLog[Len(docLog)] = Torn => Torn \in Range(docLog)
    BY DEF Range
  <2> QED BY <2>1 DEF LogRow, At, Go
<1>2. /\ docLog' \in Seq(Line) /\ Range(docLog) \subseteq Range(docLog')
      /\ Range(docLog') \subseteq Range(docLog) \cup Range(call.left)
      /\ Torn \in Range(docLog') \/ Range(call.left) \subseteq Range(docLog')
  <2>1. docLog \in Seq(Line) /\ call.left \in Seq(Line)
    OBVIOUS
  <2>2. Range(docLog \o call.left) = Range(docLog) \cup Range(call.left)
    BY <2>1, RangeCat
  <2>3. docLog \o call.left \in Seq(Line)
    BY <2>1
  <2> QED BY <1>1, <2>1, <2>2, <2>3
<1>3. call' \in Call /\ Legal(call') /\ call'.op = "ingest" /\ call'.at = "post" /\ call'.left = call.left
  BY <1>1
<1>4. WarmTypes'
  BY <1>1, <1>2, <1>3
<1>5. Connected'
  BY <1>1, <1>3 DEF Connected
<1>6. Forgotten'
  BY <1>1, <1>2, <1>3 DEF Forgotten
<1>7. Recorded'
  BY <1>1, <1>2, <1>3 DEF Recorded
<1>8. Filled'
  BY <1>1, <1>3 DEF Filled
<1>9. WholeUnlessMaimed' /\ ResetIsFinal'
  BY <1>1 DEF WholeUnlessMaimed, ResetIsFinal
<1> QED BY <1>4, <1>5, <1>6, <1>7, <1>8, <1>9

\* Steps of _ensure_server that start nothing.
LEMMA EnsureKeepsKeeps ==
  ASSUME WarmInv, EnsureKeeps
  PROVE  WarmInv'
<1>1. /\ call.at = "ensure" /\ port # 0
      /\ UNCHANGED <<docLog, servers, proc, port, prepared, acked, dropped, maimed, answer, used>>
  BY DEF EnsureKeeps
<1>2. /\ call' \in Call /\ Legal(call') /\ Range(call'.left) \subseteq Range(call.left)
      /\ call' = NoCall \/ call'.op = call.op
      /\ call'.at \in {"none", "reset", "health", "post"} /\ call.op # "ingest"
      /\ call'.at = "post" => call.op = "retrieve"
  <2>1. call.op = "initialize" \/ call.op = "fresh" \/ call.op = "resume" \/ call.op = "retrieve"
    BY <1>1
  <2>2. call' = AfterEnsure(FALSE)
    BY DEF EnsureKeeps
  <2>3. CASE call.op = "initialize"
    <3>1. call' = NoCall
      BY <2>2, <2>3 DEF AfterEnsure
    <3> QED BY <2>3, <3>1, RangeOf
  <2>4. CASE call.op # "initialize"
    <3>1. PICK step \in {"reset", "health", "post"} :
             /\ call' = [call EXCEPT !.at = step]
             /\ step = IF call.op = "fresh" THEN "reset" ELSE IF call.op = "resume" THEN "health" ELSE "post"
      BY <2>1, <2>2, <2>4 DEF AfterEnsure
    <3>2. call' \in Call /\ call'.at = step /\ call'.op = call.op /\ call'.left = call.left
      BY <3>1
    <3> QED BY <2>1, <2>4, <3>1, <3>2
  <2> QED BY <2>3, <2>4
<1>3. WarmTypes'
  BY <1>1, <1>2
<1>4. Connected'
  BY <1>1, <1>2 DEF Connected
<1>5. Forgotten'
  BY <1>1, <1>2 DEF Forgotten
<1>6. Recorded'
  BY <1>1, <1>2 DEF Recorded
<1>7. Filled'
  BY <1>1, <1>2 DEF Filled
<1>8. WholeUnlessMaimed' /\ ResetIsFinal'
  BY <1>1 DEF WholeUnlessMaimed, ResetIsFinal
<1> QED BY <1>3, <1>4, <1>5, <1>6, <1>7, <1>8

\* A call that raises leaves everything as it was; of a replay the server is marked.
Raised ==
    /\ call # NoCall /\ call' = NoCall
    /\ maimed' = IF call.at \in {"health", "replay"} THEN maimed \cup {port} ELSE maimed
    /\ used' \in [docs : 0..WarmDocs, runs : Nat, lapses : Nat] /\ used'.docs = used.docs
    /\ UNCHANGED <<docLog, servers, proc, port, prepared, acked, dropped, answer>>

LEMMA RaiseKeeps ==
  ASSUME WarmInv, Raised
  PROVE  WarmInv'
<1> USE DEF Raised
<1>1. maimed' \subseteq 1..MaxServers
  <2>1. call.at \in {"health", "replay"} => port \in 1..MaxServers
    BY WarmBounds DEF Connected
  <2> QED BY <2>1
<1>2. WarmTypes'
  BY <1>1
<1>3. Connected'
  BY DEF Connected
<1>4. Forgotten'
  BY RangeOf DEF Forgotten
<1>5. Recorded'
  BY DEF Recorded
<1>6. Filled'
  BY DEF Filled
<1>7. WholeUnlessMaimed' /\ ResetIsFinal'
  BY DEF WholeUnlessMaimed, ResetIsFinal
<1> QED BY <1>2, <1>3, <1>4, <1>5, <1>6, <1>7

LEMMA FailureKeeps ==
  ASSUME WarmInv, EnsureFails \/ BootFails \/ RequestFails \/ BatchUnreadable
  PROVE  WarmInv'
<1>1. Raised
  <2>1. CASE EnsureFails \/ BootFails
    BY <2>1 DEF EnsureFails, BootFails, Raise, Raised
  <2>2. CASE RequestFails
    <3>1. used' \in [docs : 0..WarmDocs, runs : Nat, lapses : Nat] /\ used'.docs = used.docs
      BY <2>2, LapseTyped DEF RequestFails
    <3> QED BY <2>2, <3>1 DEF RequestFails, Raise, Raised
  <2>3. CASE BatchUnreadable
    BY <2>3 DEF BatchUnreadable, Raise, Raised
  <2> QED BY <2>1, <2>2, <2>3
<1> QED BY <1>1, RaiseKeeps

LEMMA SpawnKeeps ==
  ASSUME WarmInv, EnsureSpawns
  PROVE  WarmInv'
<1> PICK n : n = Len(servers) + 1
  OBVIOUS
<1>1. /\ call.at = "ensure" /\ (port = 0 \/ ~Up(proc)) /\ n \in 1..MaxServers
      /\ servers' = Append(servers, [up |-> TRUE, ready |-> FALSE, docs |-> {}]) /\ proc' = n
      /\ call' = [call EXCEPT !.at = "boot"]
      /\ UNCHANGED <<docLog, port, prepared, acked, dropped, maimed, answer, used>>
  BY WarmBounds DEF EnsureSpawns, Spawned, Go
<1>2. /\ servers' \in Seq(Server) /\ Len(servers') = n
      /\ servers'[n] = [up |-> TRUE, ready |-> FALSE, docs |-> {}]
      /\ \A t \in 1..Len(servers) : servers'[t] = servers[t]
  BY <1>1, ServerAdd
<1>3. call' \in Call /\ Legal(call') /\ call'.op = call.op /\ call'.at = "boot" /\ call'.left = call.left
  <2>1. call' \in Call /\ call'.op = call.op /\ call'.at = "boot" /\ call'.left = call.left
    BY <1>1
  <2>2. call.op \in {"initialize", "fresh", "resume", "retrieve"}
    BY <1>1
  <2> QED BY <2>1, <2>2
<1>4. call.op # "ingest" /\ n \in Nat /\ port # n /\ (port # 0 => port \in 1..Len(servers))
  BY <1>1
<1>5. port # 0 => ~servers[port].up
  BY <1>1, <1>4 DEF Connected, Up
<1>6. WarmTypes'
  BY <1>1, <1>2, <1>3, <1>4
<1>7. Connected'
  BY <1>1, <1>2, <1>3, <1>4, <1>5 DEF Connected
<1>8. Forgotten'
  BY <1>1, <1>2, <1>3, <1>4 DEF Forgotten
<1>9. Recorded'
  BY <1>1, <1>3 DEF Recorded
<1>10. Filled'
  BY <1>1, <1>2, <1>3, <1>4, <1>5 DEF Filled
<1>11. WholeUnlessMaimed' /\ ResetIsFinal'
  BY <1>1 DEF WholeUnlessMaimed, ResetIsFinal
<1> QED BY <1>6, <1>7, <1>8, <1>9, <1>10, <1>11

\* The server that announces itself is empty: what the call does next fills it.
LEMMA BootedKeeps ==
  ASSUME WarmInv, Booted
  PROVE  WarmInv'
<1>1. /\ call.at = "boot" /\ proc # 0 /\ port # proc /\ servers[proc].docs = {} /\ port' = proc
      /\ UNCHANGED <<docLog, servers, proc, prepared, acked, dropped, maimed, answer, used>>
  BY DEF Booted, Serving, Up, Connected
<1>2. /\ call' \in Call /\ Legal(call') /\ Range(call'.left) \subseteq Range(call.left)
      /\ call' = NoCall \/ call'.op = call.op
      /\ call' = NoCall => call.op = "initialize"
      /\ call'.at = "reset" => call.op = "fresh"
      /\ call'.at \in {"none", "reset", "health"} /\ call.op # "ingest"
  <2>1. call.op = "initialize" \/ call.op = "fresh" \/ call.op = "resume" \/ call.op = "retrieve"
    BY <1>1
  <2>2. call' = AfterEnsure(TRUE)
    BY DEF Booted
  <2>3. CASE call.op = "initialize"
    <3>1. call' = NoCall
      BY <2>2, <2>3 DEF AfterEnsure
    <3> QED BY <2>3, <3>1, RangeOf
  <2>4. CASE call.op # "initialize"
    <3>1. PICK step \in {"reset", "health"} :
             /\ call' = [call EXCEPT !.at = step]
             /\ step = IF call.op = "fresh" THEN "reset" ELSE "health"
      BY <2>1, <2>2, <2>4 DEF AfterEnsure
    <3>2. call' \in Call /\ call'.at = step /\ call'.op = call.op /\ call'.left = call.left
      BY <3>1
    <3> QED BY <2>1, <2>4, <3>1, <3>2
  <2> QED BY <2>3, <2>4
<1>3. WarmTypes'
  BY <1>1, <1>2
<1>4. Connected'
  BY <1>1, <1>2 DEF Connected
<1>5. Forgotten'
  BY <1>1, <1>2 DEF Forgotten
<1>6. Recorded'
  BY <1>1, <1>2 DEF Recorded
<1>7. Filled'
  BY <1>1, <1>2 DEF Filled, Recorded
<1>8. WholeUnlessMaimed' /\ ResetIsFinal'
  BY <1>1 DEF WholeUnlessMaimed, ResetIsFinal
<1> QED BY <1>3, <1>4, <1>5, <1>6, <1>7, <1>8

LEMMA PortNamed ==
  ASSUME WarmInv, port # 0
  PROVE  port \in 1..Len(servers) /\ servers[port] \in Server
<1>1. servers \in Seq(Server) /\ port \in 0..Len(servers)
  OBVIOUS
<1>2. port \in 1..Len(servers)
  BY <1>1
<1> HIDE DEF Server
<1> QED BY <1>1, <1>2

\* The server at the port holds D, and nothing else about it or the others changes.
LEMMA HoldsPut ==
  ASSUME WarmInv, port # 0, NEW D \in SUBSET Document, Holds(port, D)
  PROVE  /\ servers' \in Seq(Server) /\ Len(servers') = Len(servers)
         /\ servers'[port].docs = D /\ servers'[port].up = servers[port].up
         /\ \A t \in 1..Len(servers) : t # port => servers'[t] = servers[t]
<1>1. port \in 1..Len(servers) /\ servers[port] \in Server
  BY PortNamed
<1>2. PICK v \in Server : v = [servers[port] EXCEPT !.docs = D]
  BY <1>1
<1>3. servers' = [servers EXCEPT ![port] = v]
  BY <1>2 DEF Holds
<1>4. v.docs = D /\ v.up = servers[port].up
  BY <1>1, <1>2
<1> QED BY <1>1, <1>3, <1>4, ServerPut

LEMMA ResetPostedKeeps ==
  ASSUME WarmInv, ResetPosted \/ (AnswerLost /\ call.op = "fresh")
  PROVE  WarmInv'
<1>1. /\ call.op = "fresh" /\ call.at = "reset" /\ port # 0 /\ Holds(port, {})
      /\ call' = NoCall \/ call' = [call EXCEPT !.at = "unlink"]
      /\ used' \in [docs : 0..WarmDocs, runs : Nat, lapses : Nat] /\ used'.docs = used.docs
      /\ UNCHANGED <<docLog, proc, port, prepared, acked, dropped, maimed, answer>>
  BY LapseTyped DEF ResetPosted, AnswerLost, At, Go, Raise, Serving, Up
<1>2. /\ servers' \in Seq(Server) /\ Len(servers') = Len(servers)
      /\ servers'[port].docs = {} /\ servers'[port].up = servers[port].up
      /\ \A t \in 1..Len(servers) : t # port => servers'[t] = servers[t]
  BY <1>1, HoldsPut
<1>3. /\ call' \in Call /\ Legal(call')
      /\ call' = NoCall \/ call'.op = "fresh"
      /\ call'.at \in {"none", "unlink"} /\ Range(call'.left) \subseteq Range(call.left)
  <2>1. CASE call' = NoCall
    BY <2>1, RangeOf
  <2>2. CASE call' = [call EXCEPT !.at = "unlink"]
    <3>1. call' \in Call /\ call'.op = "fresh" /\ call'.at = "unlink" /\ call'.left = call.left
      BY <1>1, <2>2
    <3> QED BY <3>1
  <2> QED BY <1>1, <2>1, <2>2
<1>4. WarmTypes'
  BY <1>1, <1>2, <1>3
<1>5. Connected'
  <2>1. proc # 0 /\ port # proc => servers[proc].docs = {} /\ servers'[proc] = servers[proc]
    BY <1>2 DEF Connected
  <2>2. port # 0 /\ port # proc => ~servers[port].up
    BY DEF Connected
  <2> QED BY <1>1, <1>2, <1>3, <2>1, <2>2 DEF Connected
<1>6. Forgotten'
  BY <1>1, <1>2, <1>3 DEF Forgotten
<1>7. Recorded'
  BY <1>1, <1>3 DEF Recorded
<1>8. Filled'
  BY <1>1, <1>2, <1>3 DEF Filled, Recorded
<1>9. WholeUnlessMaimed' /\ ResetIsFinal'
  BY <1>1 DEF WholeUnlessMaimed, ResetIsFinal
<1> QED BY <1>4, <1>5, <1>6, <1>7, <1>8, <1>9

LEMMA LogUnlinkedKeeps ==
  ASSUME WarmInv, LogUnlinked
  PROVE  WarmInv'
<1>1. /\ call.op = "fresh" /\ call.at = "unlink" /\ port # 0 /\ servers[port].docs = {} /\ acked = {}
      /\ docLog' = << >> /\ dropped' = 1..used.docs /\ prepared' = TRUE /\ call' = NoCall
      /\ UNCHANGED <<servers, proc, port, acked, maimed, answer, used>>
  BY DEF LogUnlinked, At, Connected, Forgotten, Recorded
<1>2. Range(docLog') = {} /\ Range(call'.left) = {}
  BY <1>1, RangeOf
<1>3. WarmTypes'
  BY <1>1, <1>2
<1>4. Connected'
  BY <1>1 DEF Connected
<1>5. Forgotten'
  BY <1>1, <1>2 DEF Forgotten
<1>6. Recorded'
  BY <1>1 DEF Recorded
<1>7. Filled'
  BY <1>1 DEF Filled
<1>8. WholeUnlessMaimed' /\ ResetIsFinal'
  BY <1>1 DEF WholeUnlessMaimed, ResetIsFinal
<1> QED BY <1>3, <1>4, <1>5, <1>6, <1>7, <1>8

LEMMA DocsPostedKeeps ==
  ASSUME WarmInv, DocsPosted \/ (AnswerLost /\ call.op = "ingest")
  PROVE  WarmInv'
<1>1. /\ call.op = "ingest" /\ call.at = "post" /\ port # 0 /\ prepared
      /\ Holds(port, servers[port].docs \cup Range(call.left))
      /\ call' = NoCall
      /\ acked' = acked \/ acked' = acked \cup Range(call.left)
      /\ used' \in [docs : 0..WarmDocs, runs : Nat, lapses : Nat] /\ used'.docs = used.docs
      /\ UNCHANGED <<docLog, proc, port, prepared, dropped, maimed, answer>>
  BY LapseTyped DEF DocsPosted, AnswerLost, At, Raise, Serving, Up, Recorded
<1>2. Range(call.left) \subseteq Document /\ servers[port].docs \subseteq Document
  <2>1. servers[port] \in Server
    BY <1>1, PortNamed
  <2> QED BY <1>1, <2>1
<1>3. /\ servers' \in Seq(Server) /\ Len(servers') = Len(servers)
      /\ servers'[port].docs = servers[port].docs \cup Range(call.left)
      /\ servers'[port].up = servers[port].up
      /\ \A t \in 1..Len(servers) : t # port => servers'[t] = servers[t]
  BY <1>1, <1>2, HoldsPut
<1>4. WarmTypes'
  <2>1. acked' \subseteq Document
    BY <1>1, <1>2
  <2> QED BY <1>1, <1>3, <2>1
<1>5. Connected'
  BY <1>1, <1>3 DEF Connected
<1>6. Forgotten'
  BY <1>1, <1>3, RangeOf DEF Forgotten
<1>7. Recorded'
  BY <1>1, <1>2 DEF Recorded
<1>8. Filled'
  <2>1. servers[port].up /\ port \notin maimed => acked \subseteq servers[port].docs
    BY <1>1 DEF Filled
  <2> QED BY <1>1, <1>3, <2>1 DEF Filled
<1>9. WholeUnlessMaimed' /\ ResetIsFinal'
  BY <1>1 DEF WholeUnlessMaimed, ResetIsFinal
<1> QED BY <1>4, <1>5, <1>6, <1>7, <1>8, <1>9

LEMMA QueryPostedKeeps ==
  ASSUME WarmInv, QueryPosted
  PROVE  WarmInv'
<1>1. /\ call.op = "retrieve" /\ call.at = "post" /\ port # 0 /\ servers[port].up /\ prepared
      /\ answer' = [have |-> servers[port].docs, need |-> acked, past |-> dropped, from |-> port]
      /\ call' = NoCall
      /\ UNCHANGED <<docLog, servers, proc, port, prepared, acked, dropped, maimed, used>>
  BY DEF QueryPosted, At, Raise, Serving, Up, Recorded
<1>2. WarmTypes'
  BY <1>1, RangeOf
<1>3. Connected'
  BY <1>1 DEF Connected
<1>4. Forgotten'
  BY <1>1, RangeOf DEF Forgotten
<1>5. Recorded'
  BY <1>1 DEF Recorded
<1>6. Filled'
  BY <1>1 DEF Filled
<1>7. WholeUnlessMaimed'
  BY <1>1 DEF WholeUnlessMaimed, Filled
<1>8. ResetIsFinal'
  BY <1>1 DEF ResetIsFinal, Forgotten
<1> QED BY <1>2, <1>3, <1>4, <1>5, <1>6, <1>7, <1>8

\* HealthRead and the last step of a replay: the examined server may serve.
LEMMA ReplayedKeeps ==
  ASSUME WarmInv, call.at \in {"health", "replay"}, Replayed,
         servers[port].up /\ port \notin maimed => acked \subseteq servers[port].docs,
         UNCHANGED <<docLog, servers, proc, port, acked, dropped, maimed, answer, used>>
  PROVE  WarmInv'
<1>1. /\ call.op = "resume" \/ call.op = "retrieve"
      /\ call.op = "resume" => prepared' = TRUE /\ call' = NoCall
      /\ call.op = "retrieve" => prepared' = prepared /\ call' = [call EXCEPT !.at = "post"]
  BY DEF Replayed, Go
<1>2. /\ call' \in Call /\ Legal(call') /\ Range(call'.left) \subseteq Range(call.left)
      /\ call' = NoCall \/ (call'.op = "retrieve" /\ call'.at = "post" /\ prepared')
  <2>1. CASE call.op = "resume"
    <3>1. call' = NoCall /\ NoCall \in Call /\ NoCall.left = << >> /\ Range(<< >>) = {}
      BY <1>1, <2>1, RangeOf
    <3> QED BY <3>1
  <2>2. CASE call.op = "retrieve"
    <3>1. call' \in Call /\ call'.op = "retrieve" /\ call'.at = "post" /\ call'.left = call.left
      BY <1>1, <2>2
    <3> QED BY <1>1, <2>2, <3>1 DEF Recorded
  <2> QED BY <1>1, <2>1, <2>2
<1>3. prepared' \in BOOLEAN
  BY <1>1
<1>4. WarmTypes'
  BY <1>2, <1>3
<1>5. Connected'
  BY <1>2 DEF Connected
<1>6. Forgotten'
  BY <1>2 DEF Forgotten
<1>7. Recorded'
  BY <1>2 DEF Recorded
<1>8. Filled'
  BY <1>2 DEF Filled
<1>9. WholeUnlessMaimed' /\ ResetIsFinal'
  BY DEF WholeUnlessMaimed, ResetIsFinal
<1> QED BY <1>4, <1>5, <1>6, <1>7, <1>8, <1>9

LEMMA HealthReadKeeps ==
  ASSUME WarmInv, HealthRead
  PROVE  WarmInv'
<1>1. /\ call.at = "health" /\ port # 0
      /\ UNCHANGED <<docLog, servers, proc, port, acked, dropped, maimed, answer, used>>
  BY DEF HealthRead, Connected
<1>2. CASE docLog = << >> \/ servers[port].docs # {}
  <2>1. docLog = << >> => acked = {}
    BY RangeOf DEF Recorded
  <2>2. servers[port].up /\ port \notin maimed => acked \subseteq servers[port].docs
    BY <1>1, <1>2, <2>1 DEF Filled
  <2>3. Replayed
    BY <1>2 DEF HealthRead
  <2> QED BY <1>1, <2>2, <2>3, ReplayedKeeps
<1>3. CASE docLog # << >> /\ servers[port].docs = {}
  <2>1. call' = [call EXCEPT !.at = "replay", !.left = docLog] /\ UNCHANGED prepared
    BY <1>3 DEF HealthRead
  <2>2. call' \in Call /\ call'.op = call.op /\ call'.at = "replay" /\ call'.left = docLog
    BY <2>1
  <2>3. call.op = "resume" \/ call.op = "retrieve"
    BY <1>1
  <2>4. WarmTypes'
    BY <1>1, <2>1, <2>2, <2>3
  <2>5. Connected'
    BY <1>1, <2>2 DEF Connected
  <2>6. Forgotten'
    BY <1>1, <2>2 DEF Forgotten
  <2>7. Recorded'
    BY <1>1, <2>1, <2>2, <2>3 DEF Recorded
  <2>8. Filled'
    BY <1>1, <2>2 DEF Filled
  <2>9. WholeUnlessMaimed' /\ ResetIsFinal'
    BY <1>1 DEF WholeUnlessMaimed, ResetIsFinal
  <2> QED BY <2>4, <2>5, <2>6, <2>7, <2>8, <2>9
<1> QED BY <1>2, <1>3

LEMMA BatchPostedKeeps ==
  ASSUME WarmInv, BatchPosted
  PROVE  WarmInv'
<1>1. /\ call.at = "replay" /\ port # 0 /\ servers[port].up /\ Torn \notin Range(NextBatch)
      /\ call.op = "resume" \/ call.op = "retrieve"
      /\ UNCHANGED <<docLog, proc, port, acked, dropped, maimed, answer, used>>
  BY DEF BatchPosted, Serving, Up
<1>2. servers[port] \in Server
  BY <1>1, PortNamed
<1>3. CASE call.left = << >>
  <2>1. Range(docLog) \subseteq servers[port].docs
    BY <1>1, <1>3, RangeOf DEF Filled
  <2>2. acked \subseteq servers[port].docs
    BY <1>2, <2>1 DEF Recorded
  <2>3. Replayed /\ UNCHANGED servers
    BY <1>3 DEF BatchPosted
  <2> QED BY <1>1, <2>2, <2>3, ReplayedKeeps
<1>4. CASE call.left # << >>
  <2>1. PICK n : n = IF Len(call.left) < ReplayBatch THEN Len(call.left) ELSE ReplayBatch
    OBVIOUS
  <2>2. n \in 0..Len(call.left) /\ call.left \in Seq(Line)
    BY <2>1, WarmBounds
  <2> DEFINE sent == SubSeq(call.left, 1, n)
             rest == SubSeq(call.left, n + 1, Len(call.left))
  <2>3. /\ sent \in Seq(Line) /\ Len(sent) = n /\ rest \in Seq(Line)
        /\ Range(call.left) = Range(sent) \cup Range(rest)
    BY <2>2, BatchAndRest
  <2>4. /\ Torn \notin Range(sent) /\ prepared' = prepared
        /\ Holds(port, servers[port].docs \cup Range(sent))
        /\ call' = [call EXCEPT !.left = rest]
    BY <1>1, <1>4, <2>1, <2>3 DEF BatchPosted, NextBatch
  <2> HIDE DEF sent, rest
  <2>5. servers[port].docs \cup Range(sent) \in SUBSET Document
    BY <1>2, <2>3, <2>4, RangeOf
  <2>6. /\ servers' \in Seq(Server) /\ Len(servers') = Len(servers)
        /\ servers'[port].docs = servers[port].docs \cup Range(sent)
        /\ servers'[port].up = servers[port].up
        /\ \A t \in 1..Len(servers) : t # port => servers'[t] = servers[t]
    BY <1>1, <2>4, <2>5, HoldsPut
  <2>7. call' \in Call /\ call'.op = call.op /\ call'.at = "replay" /\ call'.left = rest
    BY <1>1, <2>3, <2>4
  <2>8. WarmTypes'
    BY <1>1, <2>4, <2>6, <2>7
  <2>9. Connected'
    <3>1. proc # 0 /\ port # proc => servers[proc].docs = {} /\ servers'[proc] = servers[proc]
      BY <2>6 DEF Connected
    <3>2. port # 0 /\ port # proc => ~servers[port].up
      BY DEF Connected
    <3> QED BY <1>1, <2>6, <2>7, <3>1, <3>2 DEF Connected
  <2>10. Forgotten'
    BY <1>1, <2>3, <2>6, <2>7 DEF Forgotten
  <2>11. Recorded'
    BY <1>1, <2>4, <2>7 DEF Recorded
  <2>12. Filled'
    BY <1>1, <2>3, <2>6, <2>7 DEF Filled
  <2>13. WholeUnlessMaimed' /\ ResetIsFinal'
    BY <1>1 DEF WholeUnlessMaimed, ResetIsFinal
  <2> QED BY <2>8, <2>9, <2>10, <2>11, <2>12, <2>13
<1> QED BY <1>3, <1>4

\* A server announces itself, or dies and forgets.
LEMMA ServerChanges ==
  ASSUME WarmInv, ServerReady \/ ServerDies
  PROVE  WarmInv'
<1>1. PICK s \in 1..Len(servers), v \in Server :
         /\ servers' = [servers EXCEPT ![s] = v]
         /\ v = [up |-> FALSE, ready |-> FALSE, docs |-> {}]
            \/ (v.up = servers[s].up /\ v.docs = servers[s].docs)
         /\ UNCHANGED <<docLog, proc, port, call, prepared, acked, dropped, maimed, answer, used>>
  <2> servers \in Seq(Server) /\ DOMAIN servers = 1..Len(servers)
    OBVIOUS
  <2>1. CASE ServerDies
    BY <2>1 DEF ServerDies
  <2>2. CASE ServerReady
    <3>1. PICK s \in 1..Len(servers) :
             /\ servers' = [servers EXCEPT ![s].ready = TRUE]
             /\ UNCHANGED <<docLog, proc, port, call, prepared, acked, dropped, maimed, answer, used>>
      BY <2>2 DEF ServerReady
    <3>2. servers[s] \in Server
      <4> HIDE DEF Server
      <4> QED OBVIOUS
    <3>3. PICK v \in Server : v = [servers[s] EXCEPT !.ready = TRUE]
      BY <3>2
    <3>4. v.up = servers[s].up /\ v.docs = servers[s].docs /\ servers' = [servers EXCEPT ![s] = v]
      BY <3>1, <3>2, <3>3
    <3> QED BY <3>1, <3>4
  <2> QED BY <2>1, <2>2
<1>2. /\ servers' \in Seq(Server) /\ Len(servers') = Len(servers) /\ servers'[s] = v
      /\ \A t \in 1..Len(servers) : t # s => servers'[t] = servers[t]
  BY <1>1, ServerPut
<1>3. \A t \in 1..Len(servers) :
         \/ servers'[t].up = FALSE /\ servers'[t].docs = {}
         \/ servers'[t].up = servers[t].up /\ servers'[t].docs = servers[t].docs
  BY <1>1, <1>2
<1>4. \A t : t \in 0..Len(servers) /\ t # 0 => t \in 1..Len(servers)
  OBVIOUS
<1>5. WarmTypes'
  BY <1>1, <1>2
<1>6. Connected'
  BY <1>1, <1>2, <1>3, <1>4 DEF Connected
<1>7. Forgotten'
  <2>1. call.at = "unlink" => port # 0
    BY DEF Connected
  <2> QED BY <1>1, <1>2, <1>3, <1>4, <2>1 DEF Forgotten
<1>8. Recorded'
  BY <1>1 DEF Recorded
<1>9. Filled'
  BY <1>1, <1>2, <1>3, <1>4 DEF Filled
<1>10. WholeUnlessMaimed' /\ ResetIsFinal'
  BY <1>1 DEF WholeUnlessMaimed, ResetIsFinal
<1> QED BY <1>5, <1>6, <1>7, <1>8, <1>9, <1>10

LEMMA CleanUpKeeps ==
  ASSUME WarmInv, CleanUp
  PROVE  WarmInv'
<1>1. /\ call = NoCall /\ proc # 0 /\ proc' = 0 /\ port' = 0 /\ prepared' = FALSE
      /\ servers' = [servers EXCEPT ![proc] = [up |-> FALSE, ready |-> FALSE, docs |-> {}]]
      /\ UNCHANGED <<docLog, call, acked, dropped, maimed, answer, used>>
  BY DEF CleanUp
<1>2. servers' \in Seq(Server) /\ Len(servers') = Len(servers)
  <2>1. proc \in 1..Len(servers) /\ servers \in Seq(Server)
    BY <1>1
  <2> QED BY <1>1, <2>1, ServerPut
<1>3. WarmTypes'
  <2>1. 0 \in 0..Len(servers)
    OBVIOUS
  <2> QED BY <1>1, <1>2, <2>1
<1>4. Connected'
  BY <1>1 DEF Connected
<1>5. Forgotten'
  BY <1>1 DEF Forgotten
<1>6. Recorded'
  BY <1>1 DEF Recorded
<1>7. Filled'
  BY <1>1 DEF Filled
<1>8. WholeUnlessMaimed' /\ ResetIsFinal'
  BY <1>1 DEF WholeUnlessMaimed, ResetIsFinal
<1> QED BY <1>3, <1>4, <1>5, <1>6, <1>7, <1>8

LEMMA BenchmarkDiesKeeps ==
  ASSUME WarmInv, BenchmarkDies
  PROVE  WarmInv'
<1>1. /\ answer' = NoAnswer /\ used' = [used EXCEPT !.runs = @ + 1]
      /\ docLog' = docLog \/ docLog' = Append(docLog, Torn)
      /\ proc' = 0 /\ port' = 0 /\ call' = NoCall /\ prepared' = FALSE
      /\ UNCHANGED <<servers, acked, dropped, maimed>>
  BY DEF BenchmarkDies
<1>2. /\ docLog' \in Seq(Line)
      /\ Range(docLog') = Range(docLog) \/ Range(docLog') = Range(docLog) \cup {Torn}
  <2>1. docLog \in Seq(Line) /\ Torn \in Line
    OBVIOUS
  <2>2. Append(docLog, Torn) \in Seq(Line) /\ Range(Append(docLog, Torn)) = Range(docLog) \cup {Torn}
    BY <2>1, RangeOf
  <2> QED BY <1>1, <2>1, <2>2
<1>3. used' \in [docs : 0..WarmDocs, runs : Nat, lapses : Nat] /\ used'.docs = used.docs
  <2>1. PICK x \in Nat : x = used.runs + 1
    OBVIOUS
  <2> QED BY <1>1, <2>1, UsedPut
<1>4. Torn \notin dropped
  <2>1. \A d \in 1..used.docs : d # Torn
    OBVIOUS
  <2> QED BY <2>1
<1>5. WarmTypes'
  <2>1. 0 \in 0..Len(servers) /\ Range(<< >>) = {} /\ NoCall \in Call
    BY RangeOf
  <2> QED BY <1>1, <1>2, <1>3, <2>1
<1>6. Connected'
  BY <1>1 DEF Connected
<1>7. Forgotten'
  BY <1>1, <1>2, <1>4, RangeOf DEF Forgotten
<1>8. Recorded'
  BY <1>1, <1>2 DEF Recorded
<1>9. Filled'
  BY <1>1 DEF Filled
<1>10. WholeUnlessMaimed' /\ ResetIsFinal'
  BY <1>1 DEF WholeUnlessMaimed, ResetIsFinal, NoAnswer
<1> QED BY <1>5, <1>6, <1>7, <1>8, <1>9, <1>10

HIDE DEF WarmInv, WarmTypes, Call, Legal, NoCall, Document, Line, Torn, Server, Logged

LEMMA WarmInit_Holds ==
  ASSUME WarmInit
  PROVE  WarmInv
<1>1. /\ docLog = << >> /\ servers = << >> /\ proc = 0 /\ port = 0 /\ call = NoCall
      /\ prepared = FALSE /\ acked = {} /\ dropped = {} /\ maimed = {} /\ answer = NoAnswer
      /\ used = [docs |-> 0, runs |-> 1, lapses |-> 0]
  BY DEF WarmInit, WarmIdle
<1>2. WarmTypes
  <2>1. servers \in Seq(Server) /\ docLog \in Seq(Line) /\ Len(servers) = 0 /\ call.left \in Seq(Line)
    BY <1>1 DEF NoCall
  <2>2. Range(call.left) = {} /\ call \in Call /\ Legal(call)
    BY <1>1, <2>1, RangeOf DEF Call, NoCall, Legal
  <2>3. used \in [docs : 0..WarmDocs, runs : Nat, lapses : Nat]
    BY <1>1, WarmBounds
  <2>4. proc \in 0..Len(servers) /\ port \in 0..Len(servers) /\ Len(servers) <= MaxServers
    BY <1>1, <2>1, WarmBounds
  <2>5. /\ prepared \in BOOLEAN /\ acked \subseteq Document /\ maimed \subseteq 1..MaxServers
        /\ dropped \subseteq 1..used.docs
    BY <1>1
  <2>6. Range(call.left) \subseteq Document
    BY <2>2
  <2> QED BY <2>1, <2>2, <2>3, <2>4, <2>5, <2>6 DEF WarmTypes
<1>3. Connected /\ Forgotten /\ Recorded /\ Filled
  BY <1>1, RangeOf DEF Connected, Forgotten, Recorded, Filled, Logged, NoCall
<1>4. WholeUnlessMaimed /\ ResetIsFinal
  BY <1>1 DEF WholeUnlessMaimed, ResetIsFinal, NoAnswer
<1> QED BY <1>2, <1>3, <1>4 DEF WarmInv

LEMMA WarmNext_Keeps ==
  ASSUME WarmInv, [WarmNext]_warmVars
  PROVE  WarmInv'
<1>1. CASE UNCHANGED warmVars
  BY <1>1 DEF warmVars, WarmInv, WarmTypes, Connected, Forgotten, Recorded, Logged, Filled,
              WholeUnlessMaimed, ResetIsFinal
<1>2. CASE Initialize \/ Prepare \/ RetrieveDocs \/ IngestDocs \/ CleanUp
  BY <1>2, BeginKeeps, IngestKeeps, CleanUpKeeps
<1>3. CASE WarmStep
  <2>1. CASE EnsureKeeps \/ EnsureSpawns \/ Booted \/ LogRow \/ ResetPosted \/ LogUnlinked
    BY <2>1, EnsureKeepsKeeps, SpawnKeeps, BootedKeeps, LogRowKeeps, ResetPostedKeeps,
       LogUnlinkedKeeps
  <2>2. CASE EnsureFails \/ BootFails \/ RequestFails \/ BatchUnreadable
    BY <2>2, FailureKeeps
  <2>3. CASE AnswerLost
    <3>1. call.op = "fresh" \/ call.op = "ingest"
      BY <2>3 DEF AnswerLost, At
    <3> QED BY <2>3, <3>1, ResetPostedKeeps, DocsPostedKeeps
  <2>4. CASE HealthRead \/ BatchPosted \/ DocsPosted \/ QueryPosted
    BY <2>4, HealthReadKeeps, BatchPostedKeeps, DocsPostedKeeps, QueryPostedKeeps
  <2> QED BY <1>3, <2>1, <2>2, <2>3, <2>4 DEF WarmStep
<1>4. CASE ServerReady \/ ServerDies \/ BenchmarkDies
  BY <1>4, ServerChanges, BenchmarkDiesKeeps
<1> QED BY <1>1, <1>2, <1>3, <1>4 DEF WarmNext

\* A query is answered from all the documents whose ingestion was confirmed since the
\* last reset, unless a replay into that very server raised, and from none of before it,
\* wherever servers and benchmark processes died (csm_provider.py:98-186, 292-320).
THEOREM TheLogIsServed == WarmSpec => []ServesTheLog
<1>1. WarmInv => ServesTheLog
  <2> SUFFICES ASSUME WarmInv PROVE ServesTheLog
    OBVIOUS
  <2>1. call = NoCall \/ (call.op \in DOMAIN StepsOf /\ call.at \in StepsOf[call.op])
    BY DEF WarmInv, WarmTypes, Legal, StepsOf
  <2>2. call = NoCall \/ call.left \in Seq(Document \cup {Torn})
    BY DEF WarmInv, WarmTypes, Call, Line
  <2>3. dropped \subseteq Document
    <3>1. used.docs \in 0..WarmDocs
      BY DEF WarmInv, WarmTypes
    <3>2. 1..used.docs \subseteq 1..WarmDocs
      BY <3>1, WarmBounds
    <3> QED BY <3>2 DEF WarmInv, WarmTypes, Document
  <2>4. WarmTypeOK
    BY <2>1, <2>2, <2>3 DEF WarmInv, WarmTypes, WarmTypeOK, Server, Line
  <2> QED BY <2>4 DEF ServesTheLog, WarmInv
<1> QED BY <1>1, WarmInit_Holds, WarmNext_Keeps, PTL DEF WarmSpec

-----------------------------------------------------------------------------
(* The caches.  Without drops the positions it is given and keeps the rest *)
(* in order, because a set of naturals is ranked by how many of it are     *)
(* smaller.                                                                *)

Below(K, i) == {h \in K : h < i}

\* Of two numbers the larger has the higher rank, and every rank is below the size.
LEMMA RanksGrow ==
  ASSUME NEW K \in SUBSET Nat, IsFiniteSet(K)
  PROVE  /\ Cardinality(K) \in Nat
         /\ \A i \in K : Cardinality(Below(K, i)) \in 0..(Cardinality(K) - 1)
         /\ \A i, j \in K : i < j => Cardinality(Below(K, i)) < Cardinality(Below(K, j))
<1>1. Cardinality(K) \in Nat
  BY FS_CardinalityType
<1>2. ASSUME NEW i \in K
      PROVE  /\ IsFiniteSet(Below(K, i)) /\ Cardinality(Below(K, i)) \in Nat
             /\ Cardinality(Below(K, i)) < Cardinality(K)
  <2>1. Below(K, i) \in SUBSET K /\ i \notin Below(K, i)
    BY DEF Below
  <2>2. IsFiniteSet(Below(K, i)) /\ Cardinality(Below(K, i)) <= Cardinality(K)
        /\ Cardinality(Below(K, i)) # Cardinality(K)
    BY <2>1, FS_Subset
  <2>3. Cardinality(Below(K, i)) \in Nat
    BY <2>2, FS_CardinalityType
  <2> QED BY <1>1, <2>2, <2>3
<1>3. ASSUME NEW i \in K, NEW j \in K, i < j
      PROVE  Cardinality(Below(K, i)) < Cardinality(Below(K, j))
  <2>0. i \in Nat /\ j \in Nat /\ \A h \in K : h \in Nat
    OBVIOUS
  <2>1. Below(K, i) \in SUBSET Below(K, j) /\ i \in Below(K, j) /\ i \notin Below(K, i)
    <3>1. \A h \in K : h < i => h < j
      BY <1>3, <2>0
    <3>2. ~(i < i)
      BY <2>0
    <3> QED BY <1>3, <3>1, <3>2 DEF Below
  <2>2. /\ Cardinality(Below(K, i)) <= Cardinality(Below(K, j))
        /\ Cardinality(Below(K, i)) # Cardinality(Below(K, j))
    BY <1>2, <2>1, FS_Subset
  <2> QED BY <1>2, <2>2
<1> QED BY <1>1, <1>2, <1>3

LEMMA RanksApart ==
  ASSUME NEW K \in SUBSET Nat, IsFiniteSet(K), NEW i \in K, NEW j \in K,
         Cardinality(Below(K, i)) = Cardinality(Below(K, j))
  PROVE  i = j
<1>1. i \in Nat /\ j \in Nat
  OBVIOUS
<1>2. Cardinality(Below(K, i)) \in Int /\ Cardinality(Below(K, j)) \in Int
  BY RanksGrow
<1>3. ~(i < j) /\ ~(j < i)
  BY <1>2, RanksGrow
<1> QED BY <1>1, <1>3

\* Every rank is taken, by one number only.
LEMMA RankTaken ==
  ASSUME NEW K \in SUBSET Nat, IsFiniteSet(K), NEW n \in 0..(Cardinality(K) - 1)
  PROVE  \E i \in K : Cardinality(Below(K, i)) = n
<1> DEFINE size == Cardinality(K)
           rank == [i \in K |-> Cardinality(Below(K, i))]
<1>1. size \in Nat /\ IsFiniteSet(0..(size - 1)) /\ Cardinality(0..(size - 1)) = size
  BY RanksGrow, FS_Interval
<1>2. rank \in [K -> 0..(size - 1)]
  BY RanksGrow
<1>3. \A i, j \in K : rank[i] = rank[j] => i = j
  BY RanksApart
<1>4. rank \in Injection(K, 0..(size - 1))
  BY <1>2, <1>3 DEF Injection, IsInjective
<1>5. rank \in Surjection(K, 0..(size - 1))
  BY <1>1, <1>4, FS_Injection
<1> QED BY <1>5 DEF Surjection

OnlyFrom(c, I, d) == \A j \in DOMAIN d : \E i \in DOMAIN c \ I : d[j] = c[i]
AllOf(c, I, d) == \A i \in DOMAIN c \ I : \E j \in DOMAIN d : d[j] = c[i]

\* What is left of a cache: as many entries as were kept, and those very entries.
LEMMA WithoutKeeps ==
  ASSUME NEW S, NEW c \in Seq(S), NEW I
  PROVE  /\ Without(c, I) \in Seq(S)
         /\ Cardinality(DOMAIN c \ I) \in Nat
         /\ Len(Without(c, I)) = Cardinality(DOMAIN c \ I)
         /\ OnlyFrom(c, I, Without(c, I)) /\ AllOf(c, I, Without(c, I))
<1> DEFINE K == DOMAIN c \ I
           at(j) == CHOOSE i \in K : Cardinality({h \in K : h < i}) = j - 1
           w == [j \in 1..Cardinality(K) |-> c[at(j)]]
<1>1. DOMAIN c = 1..Len(c) /\ Len(c) \in Nat /\ c \in [1..Len(c) -> S]
  BY LenProperties
<1>2. K \in SUBSET Nat /\ IsFiniteSet(K) /\ K \subseteq DOMAIN c
  <2>1. IsFiniteSet(1..Len(c))
    BY <1>1, FS_Interval
  <2>2. IsFiniteSet(K)
    BY <1>1, <2>1, FS_Difference
  <2>3. \A i \in 1..Len(c) : i \in Nat
    BY <1>1
  <2> QED BY <1>1, <2>2, <2>3
<1>3. Cardinality(K) \in Nat
  BY <1>2, FS_CardinalityType
<1> HIDE DEF K
<1>4. ASSUME NEW j \in 1..Cardinality(K)
      PROVE  at(j) \in K /\ Cardinality(Below(K, at(j))) = j - 1
  <2>1. j - 1 \in 0..(Cardinality(K) - 1)
    BY <1>3
  <2>2. \E i \in K : Cardinality(Below(K, i)) = j - 1
    BY <1>2, <2>1, RankTaken
  <2>3. \E i \in K : Cardinality({h \in K : h < i}) = j - 1
    BY <2>2 DEF Below
  <2> QED BY <2>3 DEF Below
<1>6. Without(c, I) = w
  BY DEF Without, K
<1> HIDE DEF at
<1>5. ASSUME NEW i \in K PROVE \E j \in 1..Cardinality(K) : at(j) = i
  <2> DEFINE j == Cardinality(Below(K, i)) + 1
  <2>1. Cardinality(Below(K, i)) \in 0..(Cardinality(K) - 1)
    BY <1>2, RanksGrow
  <2>2. j \in 1..Cardinality(K) /\ Cardinality(Below(K, i)) = j - 1
    BY <1>3, <2>1
  <2>3. at(j) \in K /\ Cardinality(Below(K, at(j))) = j - 1
    BY <1>4, <2>2
  <2> HIDE DEF j
  <2>4. Cardinality(Below(K, at(j))) = Cardinality(Below(K, i))
    BY <2>2, <2>3
  <2>5. \A x, y \in K : Cardinality(Below(K, x)) = Cardinality(Below(K, y)) => x = y
    BY <1>2, RanksApart
  <2>6. at(j) = i
    BY <2>3, <2>4, <2>5
  <2> QED BY <2>2, <2>6
<1>7. \A j \in 1..Cardinality(K) : at(j) \in K /\ c[at(j)] \in S
  BY <1>1, <1>2, <1>4
<1>8. w \in Seq(S) /\ DOMAIN w = 1..Cardinality(K) /\ Len(w) = Cardinality(K)
  BY <1>3, <1>7, IsASeq
<1>9. /\ \A j \in DOMAIN w : \E i \in K : w[j] = c[i]
      /\ \A i \in K : \E j \in DOMAIN w : w[j] = c[i]
  BY <1>5, <1>7, <1>8
<1> HIDE DEF w
<1>10. OnlyFrom(c, I, w) /\ AllOf(c, I, w)
  BY <1>9 DEF OnlyFrom, AllOf, K
<1> QED BY <1>3, <1>6, <1>8, <1>10 DEF K

Held(c, d) == \A j \in DOMAIN d : \E i \in DOMAIN c : d[j] = c[i]

\* Setting a key puts the new entry in its place or at the end.
LEMMA PutKeeps ==
  ASSUME NEW S, NEW c \in Seq(S), NEW e \in S
  PROVE  /\ Put(c, e) \in Seq(S)
         /\ \A j \in DOMAIN Put(c, e) : Put(c, e)[j] = e \/ \E i \in DOMAIN c : Put(c, e)[j] = c[i]
         /\ Len(Put(c, e)) <= Len(c) + 1
         /\ Len(Put(c, e)) > Len(c) => \A i \in DOMAIN c : /\ c[i].scope # e.scope
                                                          /\ i \in DOMAIN Put(c, e)
                                                          /\ Put(c, e)[i] = c[i]
<1>1. DOMAIN c = 1..Len(c) /\ Len(c) \in Nat /\ \A i \in DOMAIN c : c[i] \in S
  BY LenProperties
<1>2. CASE \E i \in DOMAIN c : c[i].scope = e.scope
  <2> DEFINE p == [i \in DOMAIN c |-> IF c[i].scope = e.scope THEN e ELSE c[i]]
  <2>1. p \in [1..Len(c) -> S]
    BY <1>1
  <2>2. p \in Seq(S) /\ DOMAIN p = DOMAIN c /\ Len(p) = Len(c)
    BY <1>1, <2>1
  <2>3. Put(c, e) = p
    BY <1>2 DEF Put
  <2>4. \A j \in DOMAIN p : p[j] = e \/ p[j] = c[j]
    OBVIOUS
  <2> HIDE DEF p
  <2> QED BY <1>1, <2>2, <2>3, <2>4
<1>3. CASE ~ \E i \in DOMAIN c : c[i].scope = e.scope
  <2>1. Put(c, e) = Append(c, e)
    BY <1>3 DEF Put
  <2>2. /\ Append(c, e) \in Seq(S) /\ Len(Append(c, e)) = Len(c) + 1
        /\ Append(c, e)[Len(c) + 1] = e
        /\ \A i \in 1..Len(c) : Append(c, e)[i] = c[i]
        /\ DOMAIN Append(c, e) = 1..(Len(c) + 1)
    BY <1>1
  <2>3. \A j \in 1..(Len(c) + 1) : j = Len(c) + 1 \/ j \in 1..Len(c)
    BY <1>1
  <2>4. \A j \in 1..Len(c) : j \in 1..(Len(c) + 1)
    BY <1>1
  <2> QED BY <1>1, <1>3, <2>1, <2>2, <2>3, <2>4
<1> QED BY <1>2, <1>3

\* Dropping the first few of the positions J, as many as the cache is too long.
Dropped(c, J, max) == Without(c, FirstOf(J, Excess(c, max)))
LEMMA DropKeeps ==
  ASSUME NEW S, NEW c \in Seq(S), NEW J, J \subseteq DOMAIN c, NEW max \in Nat
  PROVE  /\ Dropped(c, J, max) \in Seq(S) /\ Held(c, Dropped(c, J, max))
         /\ Len(Dropped(c, J, max)) <= Len(c)
         /\ J # {} /\ Len(c) <= max + 1 => Len(Dropped(c, J, max)) <= max
         /\ J = {} => Held(Dropped(c, J, max), c)
<1> DEFINE F == FirstOf(J, Excess(c, max))
           d == Without(c, F)
<1>1. DOMAIN c = 1..Len(c) /\ Len(c) \in Nat /\ IsFiniteSet(DOMAIN c)
      /\ Cardinality(DOMAIN c) = Len(c)
  <2>1. DOMAIN c = 1..Len(c) /\ Len(c) \in Nat
    BY LenProperties
  <2>2. PICK n \in Nat : n = Len(c)
    BY <2>1
  <2>3. IsFiniteSet(1..n) /\ Cardinality(1..n) = n
    <3>1. 1 \in Int /\ n \in Int /\ (1 > n => n = 0)
      OBVIOUS
    <3> QED BY <3>1, FS_Interval
  <2> QED BY <2>1, <2>2, <2>3
<1>2. /\ d \in Seq(S) /\ Len(d) = Cardinality(DOMAIN c \ F) /\ Len(d) \in Nat
      /\ OnlyFrom(c, F, d) /\ AllOf(c, F, d)
  <2> HIDE DEF F
  <2> QED BY WithoutKeeps
<1>3. Dropped(c, J, max) = d
  BY DEF Dropped
<1>4. F \subseteq J
  BY DEF FirstOf
<1>5. (DOMAIN c \ F) \in SUBSET (DOMAIN c)
  OBVIOUS
<1>6. Len(d) <= Len(c) /\ (Len(d) = Len(c) => DOMAIN c \ F = DOMAIN c)
  BY <1>1, <1>2, <1>5, FS_Subset
<1>7. ASSUME J # {}, Len(c) = max + 1 PROVE Len(d) <= max
  <2>1. J \in SUBSET Nat /\ IsFiniteSet(J)
    <3>1. \A i \in 1..Len(c) : i \in Nat
      BY <1>1
    <3>2. IsFiniteSet(J)
      BY <1>1, FS_Subset
    <3> QED BY <1>1, <3>1, <3>2
  <2>2. 0 \in 0..(Cardinality(J) - 1)
    <3>1. Cardinality(J) \in Nat
      BY <2>1, FS_CardinalityType
    <3>2. Cardinality(J) # 0
      BY <1>7, <2>1, FS_EmptySet
    <3> QED BY <3>1, <3>2
  <2>3. PICK i \in J : Cardinality(Below(J, i)) = 0
    BY <2>1, <2>2, RankTaken
  <2>4. Excess(c, max) = 1
    BY <1>1, <1>7 DEF Excess
  <2>5. i \in F
    BY <2>3, <2>4 DEF FirstOf, Below
  <2>6. Len(d) # Len(c)
    BY <1>4, <1>6, <2>3, <2>5
  <2> QED BY <1>1, <1>2, <1>6, <1>7, <2>6
<1>8. Held(c, d) /\ (J = {} => Held(d, c))
  <2> HIDE DEF d
  <2>1. Held(c, d)
    BY <1>2 DEF Held, OnlyFrom
  <2>2. ASSUME J = {} PROVE Held(d, c)
    <3>1. DOMAIN c \ F = DOMAIN c
      BY <1>4, <2>2
    <3> QED BY <1>2, <3>1 DEF Held, AllOf
  <2> QED BY <2>1, <2>2
<1> HIDE DEF d, F
<1>9. ASSUME J # {}, Len(c) <= max + 1 PROVE Len(d) <= max
  <2>0. Len(c) \in Nat /\ max \in Nat
    BY <1>1
  <2>1. Len(c) <= max \/ Len(c) = max + 1
    BY <1>9, <2>0
  <2>2. Len(c) <= max => Len(d) <= max
    BY <1>1, <1>2, <1>6
  <2>3. Len(c) = max + 1 => Len(d) <= max
    BY <1>7, <1>9
  <2> QED BY <2>1, <2>2, <2>3
<1> QED BY <1>2, <1>3, <1>6, <1>8, <1>9

\* A cache that is trimmed after a set holds the new entry and entries it held, and
\* stays within its bound, since the entry just set is never the only one.
LEMMA TrimKeeps ==
  ASSUME NEW S, NEW c \in Seq(S), NEW e \in S, NEW max \in Nat \ {0}, NEW s, s = e.scope
  PROVE  LET stale == DropStale(Put(c, e), s, max)
             old == DropOldest(stale, s, max)
         IN /\ stale \in Seq(S) /\ \A j \in DOMAIN stale : stale[j] = e \/ stale[j] \in Range(c)
            /\ old \in Seq(S) /\ \A j \in DOMAIN old : old[j] = e \/ old[j] \in Range(c)
            /\ Len(c) <= max => Len(old) <= max
<1> DEFINE p == Put(c, e)
           J == {i \in DOMAIN p : p[i].scope # s /\ p[i].version # scopeVersion[p[i].scope]}
           stale == DropStale(p, s, max)
           L == {i \in DOMAIN stale : stale[i].scope # s}
           old == DropOldest(stale, s, max)
<1>1. /\ p \in Seq(S)
      /\ \A j \in DOMAIN p : p[j] = e \/ \E i \in DOMAIN c : p[j] = c[i]
      /\ Len(p) <= Len(c) + 1
      /\ Len(p) > Len(c) => \A i \in DOMAIN c : /\ c[i].scope # e.scope /\ i \in DOMAIN p
                                                /\ p[i] = c[i]
  BY PutKeeps
<1>2. /\ DOMAIN c = 1..Len(c) /\ Len(c) \in Nat /\ Len(p) \in Nat
      /\ \A i \in DOMAIN c : c[i] \in Range(c)
  BY <1>1, LenProperties DEF Range
<1>3. stale = Dropped(p, J, max) /\ J \subseteq DOMAIN p
  BY DEF DropStale, Dropped
<1>4. /\ stale \in Seq(S) /\ Held(p, stale) /\ Len(stale) <= Len(p) /\ Len(stale) \in Nat
      /\ J # {} /\ Len(p) <= max + 1 => Len(stale) <= max
      /\ J = {} => Held(stale, p)
  <2> HIDE DEF stale, p, J
  <2>1. /\ stale \in Seq(S) /\ Held(p, stale) /\ Len(stale) <= Len(p)
        /\ J # {} /\ Len(p) <= max + 1 => Len(stale) <= max
        /\ J = {} => Held(stale, p)
    BY <1>1, <1>3, DropKeeps
  <2> QED BY <2>1, LenProperties
<1>5. old = Dropped(stale, L, max) /\ L \subseteq DOMAIN stale
  BY DEF DropOldest, Dropped
<1>6. /\ old \in Seq(S) /\ Held(stale, old) /\ Len(old) <= Len(stale) /\ Len(old) \in Nat
      /\ L # {} /\ Len(stale) <= max + 1 => Len(old) <= max
  <2> HIDE DEF old, stale, L
  <2>1. /\ old \in Seq(S) /\ Held(stale, old) /\ Len(old) <= Len(stale)
        /\ L # {} /\ Len(stale) <= max + 1 => Len(old) <= max
    BY <1>4, <1>5, DropKeeps
  <2> QED BY <2>1, LenProperties
<1>7. /\ \A j \in DOMAIN stale : stale[j] = e \/ stale[j] \in Range(c)
      /\ \A j \in DOMAIN old : old[j] = e \/ old[j] \in Range(c)
  <2> HIDE DEF p, stale, old
  <2> QED BY <1>1, <1>2, <1>4, <1>6 DEF Held
<1>8. ASSUME Len(c) <= max, Len(stale) > max PROVE L # {}
  <2> HIDE DEF p, J, stale
  <2>1. Len(p) = max + 1 /\ Len(c) = max /\ Len(p) > Len(c) /\ J = {}
    BY <1>1, <1>2, <1>4, <1>8
  <2>2. 1 \in DOMAIN c
    BY <1>2, <2>1
  <2>3. 1 \in DOMAIN p /\ p[1].scope # e.scope
    BY <1>1, <2>1, <2>2
  <2>4. Held(stale, p)
    BY <1>4, <2>1
  <2>5. PICK j \in DOMAIN stale : p[1] = stale[j]
    BY <2>3, <2>4 DEF Held
  <2> QED BY <2>3, <2>5
<1>9. Len(c) <= max => Len(old) <= max
  <2> HIDE DEF p, J, stale, L, old
  <2> QED BY <1>1, <1>2, <1>4, <1>6, <1>8
<1> QED BY <1>4, <1>6, <1>7, <1>9

\* The caches of the artifacts and of the corpora.
LEMMA StoreKeeps ==
  ASSUME NEW k \in Kinds, cache[k] \in Seq(Entry), NEW e \in Entry
  PROVE  /\ Store(k, e) \in Seq(Entry)
         /\ \A x \in Range(Store(k, e)) : x = e \/ x \in Range(cache[k])
         /\ k # "fold" /\ Len(cache[k]) <= CacheMax => Len(Store(k, e)) <= CacheMax
<1>1. PICK c \in Seq(Entry) : c = cache[k]
  OBVIOUS
<1> DEFINE stale == DropStale(Put(c, e), e.scope, CacheMax)
           old == DropOldest(stale, e.scope, CacheMax)
<1>2. CacheMax \in Nat \ {0}
  BY ServerBounds
<1>3. /\ stale \in Seq(Entry) /\ \A j \in DOMAIN stale : stale[j] = e \/ stale[j] \in Range(c)
      /\ old \in Seq(Entry) /\ \A j \in DOMAIN old : old[j] = e \/ old[j] \in Range(c)
      /\ Len(c) <= CacheMax => Len(old) <= CacheMax
  BY <1>2, TrimKeeps
<1>4. Store(k, e) = IF k = "fold" THEN stale ELSE old
  BY <1>1 DEF Store
<1> HIDE DEF stale, old
<1> QED BY <1>1, <1>3, <1>4 DEF Range

LEMMA CorporaKeep ==
  ASSUME corpora \in Seq(CorpusEntry), NEW s \in Scopes,
         scopeVersion \in [Scopes -> 0..MaxIngests], docs \in SUBSET Doc
  PROVE  /\ CorporaAfter(s) \in Seq(CorpusEntry)
         /\ \A x \in Range(CorporaAfter(s)) :
               \/ x \in Range(corpora)
               \/ x.scope = s /\ x.version = scopeVersion[s] /\ x.src = DocsOf(s) /\ DocsOf(s) # {}
         /\ Len(corpora) <= CorpusMax => Len(CorporaAfter(s)) <= CorpusMax
<1>1. CASE CorpusHit(s) # {} \/ DocsOf(s) = {}
  BY <1>1 DEF CorporaAfter
<1>2. CASE ~(CorpusHit(s) # {} \/ DocsOf(s) = {})
  <2>1. PICK e \in CorpusEntry : e = [scope |-> s, version |-> scopeVersion[s], src |-> DocsOf(s)]
    BY DEF CorpusEntry, DocsOf
  <2>2. PICK c \in Seq(CorpusEntry) : c = corpora
    OBVIOUS
  <2> DEFINE old == DropOldest(DropStale(Put(c, e), s, CorpusMax), s, CorpusMax)
  <2>3. CorpusMax \in Nat \ {0} /\ s = e.scope
    BY <2>1, ServerBounds
  <2>4. /\ old \in Seq(CorpusEntry) /\ \A j \in DOMAIN old : old[j] = e \/ old[j] \in Range(c)
        /\ Len(c) <= CorpusMax => Len(old) <= CorpusMax
    BY <2>3, TrimKeeps
  <2>5. CorporaAfter(s) = old
    BY <1>2, <2>1, <2>2 DEF CorporaAfter
  <2> HIDE DEF old
  <2>6. \A x \in Range(old) : x = e \/ x \in Range(c)
    BY <2>4 DEF Range
  <2> QED BY <1>2, <2>1, <2>2, <2>4, <2>5, <2>6
<1> QED BY <1>1, <1>2

-----------------------------------------------------------------------------
(* The retrieval server.  A query may take one artifact at most: with two, *)
(* the second is built from a corpus taken before the first was awaited,   *)
(* and BuiltIsFresh fails (run amb_mixed).                                 *)

OnePerQuery == \A plan \in Plans : Len(plan) <= 1
FilesUnused == Active \cap DiskKinds = {}

\* Every document and version is of an ingest that happened, and what a reset dropped
\* does not come back.
Dated ==
    /\ \A s \in Scopes : scopeVersion[s] <= count.ingests
    /\ \A d \in docs \cup gone : d[1] <= count.ingests
    /\ docs \cap gone = {}

\* What was built from src for version v of scope s: it is of the documents of now, or of
\* an older version, or the memory is empty.
Current(s, v, src) ==
    /\ v <= scopeVersion[s]
    /\ v = scopeVersion[s] /\ DocsOf(s) # {} => src = DocsOf(s)

CorporaCurrent == \A e \in Range(corpora) :
    /\ e.version <= scopeVersion[e.scope]
    /\ e.version = scopeVersion[e.scope] => e.src = DocsOf(e.scope)

BuildsCurrent ==
    /\ inflight \subseteq running
    /\ \A b \in running : Current(b.scope, b.version, b.src)
    /\ \A k \in Kinds : \A e \in Range(cache[k]) : ~e.file => Current(e.scope, e.version, e.src)

\* A query that can go on holds the corpus of now; it takes one artifact.
QueryCurrent(q) ==
    /\ Len(q.todo) <= 1
    /\ q.pc = "run" /\ q.todo # << >> => q.corpus = DocsOf(q.scope) /\ DocsOf(q.scope) # {}
    /\ q.pc = "wait" => q.todo # << >> /\ q.wait \in running
    /\ q.pc # "wait" => q.wait = NoBuild
QueriesCurrent == \A r \in Reqs : QueryCurrent(req[r])

\* A build that lost its slot to a reset is of an old version or of an empty memory.
OneBuildEach ==
    /\ SingleFlight
    /\ \A b \in running \ inflight : b.version < scopeVersion[b.scope] \/ DocsOf(b.scope) = {}

AmbInv == TypeOK /\ Dated /\ CorporaCurrent /\ BuildsCurrent /\ QueriesCurrent /\ OneBuildEach
          /\ CachesBounded

\* Without the artifact files, what a query got is of its corpus, and that is of no
\* document dropped before it came.
AnswerOf(q) ==
    /\ Range(q.todo) \subseteq Active
    /\ q.pc = "idle" => q.got = {}
    /\ \A g \in q.got : g.src = q.corpus
    /\ q.corpus \cap q.before = {}
    /\ q.pc = "wait" => q.wait.src = q.corpus
NoFiles == \A k \in Kinds : \A e \in Range(cache[k]) : ~e.file
Answers == NoFiles /\ \A r \in Reqs : AnswerOf(req[r])

\* What a getter launches: builds of the scope's version of now, for artifacts that are
\* neither cached, nor in flight, nor on file.
LEMMA LaunchesAre ==
  ASSUME TypeOK, NEW K \in SUBSET Kinds, NEW s \in Scopes, NEW corpus \in SUBSET Doc,
         NEW w \in Reqs \cup Task, NEW b \in Launches(K, s, corpus, w)
  PROVE  /\ b \in Build /\ b.kind \in K /\ b.scope = s /\ b.version = scopeVersion[s]
         /\ b.src = corpus /\ b.payer = w
         /\ Absent(b.kind, s) /\ ~OnDisk(b.kind, s)
<1>1. PICK k \in K : b = NewBuild(k, s, corpus, w) /\ Absent(k, s) /\ ~OnDisk(k, s)
  BY DEF Launches
<1>2. scopeVersion[s] \in 0..MaxIngests
  BY DEF TypeOK
<1>3. b = [kind |-> k, scope |-> s, version |-> scopeVersion[s], src |-> corpus, payer |-> w]
  BY <1>1 DEF NewBuild
<1>4. b \in Build
  BY <1>2, <1>3 DEF Build
<1> QED BY <1>1, <1>3, <1>4

\* The getters fill caches from files and launch builds.
LEMMA GettersTyped ==
  ASSUME TypeOK, NEW K \in SUBSET Kinds, NEW s \in Scopes, NEW corpus \in SUBSET Doc,
         NEW w \in Reqs \cup Task, Getters(K, s, corpus, w)
  PROVE  /\ running' = running \cup Launches(K, s, corpus, w)
         /\ inflight' = inflight \cup Launches(K, s, corpus, w)
         /\ cache' \in [Kinds -> Seq(Entry)] /\ running' \subseteq Build /\ inflight' \subseteq Build
         /\ \A k \in Kinds :
              /\ \A e \in Range(cache'[k]) :
                   \/ e \in Range(cache[k])
                   \/ /\ e.file /\ k \in K /\ k \in DiskKinds
                      /\ e.scope = s /\ e.version = scopeVersion[s] /\ e.src = disk[k][s] /\ e.src # {}
              /\ k # "fold" /\ Len(cache[k]) <= CacheMax => Len(cache'[k]) <= CacheMax
<1> DEFINE new == Launches(K, s, corpus, w)
<1>1. /\ running' = running \cup new /\ inflight' = inflight \cup new
      /\ cache' = [k \in Kinds |-> IF k \in Loads(K, s) THEN Store(k, FromFile(k, s)) ELSE cache[k]]
  BY DEF Getters
<1>2. \A b \in new : b \in Build
  BY LaunchesAre
<1> HIDE DEF new
<1>3. running' \subseteq Build /\ inflight' \subseteq Build
  BY <1>1, <1>2 DEF TypeOK
<1>4. ASSUME NEW k \in Kinds
      PROVE  /\ cache'[k] \in Seq(Entry)
             /\ \A e \in Range(cache'[k]) :
                   \/ e \in Range(cache[k])
                   \/ /\ e.file /\ k \in K /\ k \in DiskKinds
                      /\ e.scope = s /\ e.version = scopeVersion[s] /\ e.src = disk[k][s] /\ e.src # {}
             /\ k # "fold" /\ Len(cache[k]) <= CacheMax => Len(cache'[k]) <= CacheMax
  <2>1. cache[k] \in Seq(Entry)
    BY DEF TypeOK
  <2>2. CASE k \notin Loads(K, s)
    BY <1>1, <2>1, <2>2
  <2>3. CASE k \in Loads(K, s)
    <3>1. k \in K /\ k \in DiskKinds /\ disk[k][s] \in SUBSET Doc /\ disk[k][s] # {}
      BY <2>3 DEF Loads, OnDisk, TypeOK
    <3>2. scopeVersion[s] \in 0..MaxIngests
      BY DEF TypeOK
    <3>3. PICK e \in Entry : /\ e = FromFile(k, s) /\ e.file /\ e.scope = s
                             /\ e.version = scopeVersion[s] /\ e.src = disk[k][s]
      <4>1. PICK f \in SUBSET Doc, v \in 0..MaxIngests : f = disk[k][s] /\ v = scopeVersion[s]
        BY <3>1, <3>2
      <4>2. FromFile(k, s) = [scope |-> s, version |-> v, src |-> f, file |-> TRUE]
        BY <4>1 DEF FromFile
      <4>3. PICK e \in Entry : e = [scope |-> s, version |-> v, src |-> f, file |-> TRUE]
        BY DEF Entry
      <4>4. e.file /\ e.scope = s /\ e.version = v /\ e.src = f
        BY <4>3
      <4> QED BY <4>1, <4>2, <4>3, <4>4
    <3>4. cache'[k] = Store(k, e)
      BY <1>1, <2>3, <3>3
    <3>5. /\ Store(k, e) \in Seq(Entry)
          /\ \A x \in Range(Store(k, e)) : x = e \/ x \in Range(cache[k])
          /\ k # "fold" /\ Len(cache[k]) <= CacheMax => Len(Store(k, e)) <= CacheMax
      BY <2>1, StoreKeeps
    <3> QED BY <3>1, <3>3, <3>4, <3>5
  <2> QED BY <2>2, <2>3
<1>5. cache' \in [Kinds -> Seq(Entry)]
  BY <1>1, <1>4
<1> QED BY <1>1, <1>3, <1>4, <1>5 DEF new

\* What they launch is of the documents of now, and no build is launched twice.
LEMMA GettersKeep ==
  ASSUME TypeOK, BuildsCurrent, OneBuildEach,
         NEW K \in SUBSET Kinds, NEW s \in Scopes, NEW corpus \in SUBSET Doc,
         corpus = DocsOf(s), corpus # {}, NEW w \in Reqs \cup Task,
         Getters(K, s, corpus, w), UNCHANGED <<docs, scopeVersion>>
  PROVE  /\ cache' \in [Kinds -> Seq(Entry)] /\ running' \subseteq Build /\ inflight' \subseteq Build
         /\ BuildsCurrent' /\ OneBuildEach' /\ (CachesBounded /\ Len(corpora') <= CorpusMax => CachesBounded')
         /\ running \subseteq running' /\ Joined(K, s, corpus, w) \subseteq running'
         /\ \A k \in Kinds : \A e \in Range(cache'[k]) :
               e \in Range(cache[k]) \/ (e.file /\ k \in K /\ k \in DiskKinds)
<1> DEFINE new == Launches(K, s, corpus, w)
<1>1. /\ running' = running \cup new /\ inflight' = inflight \cup new
      /\ cache' \in [Kinds -> Seq(Entry)] /\ running' \subseteq Build /\ inflight' \subseteq Build
  BY GettersTyped
<1>2. \A b \in new : /\ b \in Build /\ b.kind \in K /\ b.scope = s /\ b.version = scopeVersion[s]
                     /\ b.src = corpus /\ b.payer = w
                     /\ Absent(b.kind, s) /\ ~OnDisk(b.kind, s)
  BY LaunchesAre
<1> HIDE DEF new
<1>4. ASSUME NEW k \in Kinds
      PROVE  /\ \A e \in Range(cache'[k]) : e \in Range(cache[k]) \/ (e.file /\ k \in K /\ k \in DiskKinds)
             /\ k # "fold" /\ Len(cache[k]) <= CacheMax => Len(cache'[k]) <= CacheMax
  BY GettersTyped
<1>6. docs' = docs /\ scopeVersion' = scopeVersion /\ DocsOf(s)' = DocsOf(s)
      /\ \A x : DocsOf(x)' = DocsOf(x)
  BY DEF DocsOf
<1>7. scopeVersion[s] <= scopeVersion[s]
  BY DEF TypeOK
<1>8. BuildsCurrent'
  <2>1. (inflight \subseteq running)'
    BY <1>1 DEF BuildsCurrent
  <2>2. ASSUME NEW b \in running' PROVE Current(b.scope, b.version, b.src)'
    <3>1. CASE b \in running
      BY <1>6, <3>1 DEF BuildsCurrent, Current
    <3>2. CASE b \in new
      BY <1>2, <1>6, <1>7, <3>2 DEF Current
    <3> QED BY <1>1, <2>2, <3>1, <3>2
  <2>3. ASSUME NEW k \in Kinds, NEW e \in Range(cache'[k]), ~e.file
        PROVE  Current(e.scope, e.version, e.src)'
    <3>1. e \in Range(cache[k])
      BY <1>4, <2>3
    <3> QED BY <1>6, <2>3, <3>1 DEF BuildsCurrent, Current
  <2> QED BY <2>1, <2>2, <2>3 DEF BuildsCurrent
<1>9. ASSUME NEW b \in running, NEW k \in K, Absent(k, s), b.kind = k, b.scope = s,
             b.version = scopeVersion[s]
      PROVE  FALSE
  <2>1. b \notin inflight
    BY <1>9 DEF Absent, Slot
  <2>2. b.version < scopeVersion[s] \/ DocsOf(s) = {}
    BY <1>9, <2>1 DEF OneBuildEach
  <2> QED BY <1>9, <2>2 DEF TypeOK
<1>10. OneBuildEach'
  <2>1. ASSUME NEW b \in running', NEW c \in running', b.kind = c.kind, b.scope = c.scope,
               b.version = c.version
        PROVE  b = c
    <3>1. CASE b \in running /\ c \in running
      BY <2>1, <3>1 DEF OneBuildEach, SingleFlight
    <3>2. CASE b \in new /\ c \in running
      BY <1>2, <1>9, <2>1, <3>2
    <3>3. CASE b \in running /\ c \in new
      BY <1>2, <1>9, <2>1, <3>3
    <3>4. CASE b \in new /\ c \in new
      <4>1. b \in Build /\ c \in Build /\ b.src = c.src /\ b.payer = c.payer
        BY <1>2, <3>4
      <4> QED BY <2>1, <4>1 DEF Build
    <3> QED BY <1>1, <2>1, <3>1, <3>2, <3>3, <3>4
  <2>2. ASSUME NEW b \in running' \ inflight'
        PROVE  (b.version < scopeVersion[b.scope] \/ DocsOf(b.scope) = {})'
    <3>1. b \in running \ inflight
      BY <1>1
    <3> QED BY <1>6, <3>1 DEF OneBuildEach
  <2> QED BY <2>1, <2>2 DEF OneBuildEach, SingleFlight
<1>11. CachesBounded /\ Len(corpora') <= CorpusMax => CachesBounded'
  BY <1>4 DEF CachesBounded
<1>12. Joined(K, s, corpus, w) \subseteq running'
  <2>1. \A k \in Kinds : Slot(k, s) \subseteq running
    BY DEF Slot, BuildsCurrent
  <2> QED BY <1>1, <2>1 DEF Joined, new
<1> QED BY <1>1, <1>4, <1>8, <1>10, <1>11, <1>12

LEMMA Bounds ==
  /\ MaxIngests \in Nat /\ MaxResets \in Nat /\ MaxFailures \in Nat
  /\ CorpusMax \in Nat /\ CacheMax \in Nat /\ Users # {} /\ All \notin Users /\ Active \subseteq Kinds
BY ServerBounds

LEMMA EntriesTyped ==
  ASSUME TypeOK
  PROVE  /\ \A e \in Range(corpora) : e \in CorpusEntry /\ e.scope \in Scopes /\ e.version \in Nat
         /\ \A k \in Kinds : \A e \in Range(cache[k]) :
               e \in Entry /\ e.scope \in Scopes /\ e.version \in Nat
<1>1. ASSUME NEW e \in Range(corpora) PROVE e \in CorpusEntry
  <2>1. PICK c \in Seq(CorpusEntry) : c = corpora
    BY DEF TypeOK
  <2> QED BY <2>1, LenProperties DEF Range
<1>2. ASSUME NEW k \in Kinds, NEW e \in Range(cache[k]) PROVE e \in Entry
  <2>1. PICK c \in Seq(Entry) : c = cache[k]
    BY DEF TypeOK
  <2> QED BY <2>1, LenProperties DEF Range
<1>3. \A e \in CorpusEntry : e.scope \in Scopes /\ e.version \in Nat
  BY Bounds DEF CorpusEntry
<1>4. \A e \in Entry : e.scope \in Scopes /\ e.version \in Nat
  BY Bounds DEF Entry
<1> QED BY <1>1, <1>2, <1>3, <1>4

LEMMA CorpusIs ==
  ASSUME CorporaCurrent, NEW s \in Scopes
  PROVE  CorpusOf(s) = DocsOf(s)
<1>1. \A e \in CorpusHit(s) : e.src = DocsOf(s)
  BY DEF CorpusHit, CorporaCurrent
<1> QED BY <1>1 DEF CorpusOf

LEMMA QuietMeans ==
  ASSUME Quiet, NEW r \in Reqs
  PROVE  req[r].pc # "run"
BY DEF Quiet, Runnable

LEMMA AmbInit_Holds == ASSUME Init PROVE AmbInv
<1> USE ServerBounds DEF Init, Empty
<1>1. TypeOK
  <2>1. \A r \in Reqs : req[r] \in Request
    BY DEF Request, Scopes
  <2>2. req \in [Reqs -> Request] /\ corpora \in Seq(CorpusEntry) /\ cache \in [Kinds -> Seq(Entry)]
    <3>1. req \in [Reqs -> Request]
      BY <2>1
    <3>2. << >> \in Seq(CorpusEntry) /\ << >> \in Seq(Entry)
      BY EmptySeq
    <3> QED BY <3>1, <3>2
  <2>3. count \in [ingests : 0..MaxIngests, resets : 0..MaxResets, failures : 0..MaxFailures]
    OBVIOUS
  <2>4. scopeVersion \in [Scopes -> 0..MaxIngests] /\ disk \in [DiskKinds -> [Scopes -> SUBSET Doc]]
    OBVIOUS
  <2> QED BY <2>2, <2>3, <2>4 DEF TypeOK
<1>2. Dated
  BY DEF Dated
<1>3. CorporaCurrent
  BY DEF CorporaCurrent, Range
<1>4. BuildsCurrent
  BY DEF BuildsCurrent, Range
<1>5. QueriesCurrent
  BY DEF QueriesCurrent, QueryCurrent
<1>6. OneBuildEach
  BY DEF OneBuildEach, SingleFlight
<1>7. CachesBounded
  BY DEF CachesBounded
<1> QED BY <1>1, <1>2, <1>3, <1>4, <1>5, <1>6, <1>7 DEF AmbInv

\* An ingest: the documents get a number of their own, and a scope that gets none keeps
\* its version.
Ingested(U, n) ==
  /\ n = count.ingests + 1
  /\ docs' = docs \cup {<<n, u>> : u \in U}
  /\ scopeVersion' = [s \in Scopes |-> IF s \in U \cup {All}
                                       THEN scopeVersion[s] + 1 ELSE scopeVersion[s]]
  /\ pending' = pending \cup {[batch |-> n, user |-> u] : u \in U}
  /\ count' = [count EXCEPT !.ingests = n]
  /\ UNCHANGED <<corpora, cache, inflight, running, built, disk, warming, req, gone>>
Versioned(U, n) == \A s \in Scopes :
  /\ scopeVersion[s] \in 0..MaxIngests /\ scopeVersion[s] <= count.ingests
  /\ scopeVersion'[s] \in 0..MaxIngests /\ scopeVersion'[s] <= n
  /\ scopeVersion[s] <= scopeVersion'[s]
  /\ scopeVersion'[s] = scopeVersion[s] => s \notin U \cup {All} /\ DocsOf(s)' = DocsOf(s)
LEMMA IngestIs ==
  ASSUME TypeOK, Dated, Ingest
  PROVE  /\ \E U \in SUBSET Users \ {{}}, n \in 1..MaxIngests : Ingested(U, n) /\ Versioned(U, n)
         /\ TypeOK' /\ Dated'
<1>1. PICK U \in SUBSET Users \ {{}}, n \in 1..MaxIngests : Ingested(U, n)
  <2>1. count.ingests + 1 \in 1..MaxIngests
    <3>1. PICK m \in 0..MaxIngests : m = count.ingests /\ m < MaxIngests
      BY DEF Ingest, TypeOK
    <3> QED BY <3>1, Bounds
  <2>2. PICK n \in 1..MaxIngests : n = count.ingests + 1
    BY <2>1
  <2> QED BY <2>2 DEF Ingest, Ingested
<1> USE <1>1 DEF Ingested
<1>2. /\ count.ingests \in 0..MaxIngests /\ n > count.ingests /\ count'.ingests = n
      /\ count' \in [ingests : 0..MaxIngests, resets : 0..MaxResets, failures : 0..MaxFailures]
  BY <1>1 DEF TypeOK
<1>3. ASSUME NEW s \in Scopes
      PROVE  /\ scopeVersion[s] \in 0..MaxIngests /\ scopeVersion[s] <= count.ingests
             /\ scopeVersion'[s] \in 0..MaxIngests /\ scopeVersion'[s] <= n
             /\ scopeVersion[s] <= scopeVersion'[s]
             /\ scopeVersion'[s] = scopeVersion[s] =>
                  /\ s \notin U \cup {All} /\ DocsOf(s)' = DocsOf(s)
  <2>1. /\ scopeVersion[s] \in 0..MaxIngests /\ scopeVersion[s] <= count.ingests
        /\ scopeVersion'[s] = IF s \in U \cup {All} THEN scopeVersion[s] + 1 ELSE scopeVersion[s]
    BY <1>1 DEF TypeOK, Dated
  <2>2. s \notin U \cup {All} => DocsOf(s)' = DocsOf(s)
    BY <1>1 DEF DocsOf
  <2>3. PICK v \in 0..MaxIngests, m \in 0..MaxIngests : v = scopeVersion[s] /\ m = count.ingests
    BY <1>2, <2>1
  <2>4. n = m + 1 /\ v <= m /\ scopeVersion'[s] \in {v, v + 1}
        /\ (scopeVersion'[s] = v => s \notin U \cup {All})
    BY <1>1, <2>1, <2>3
  <2>5. /\ v <= m /\ scopeVersion'[s] \in 0..MaxIngests /\ scopeVersion'[s] <= n
        /\ v <= scopeVersion'[s]
    <3>1. \A x \in {v, v + 1} : x \in 0..MaxIngests /\ x <= n /\ v <= x
      BY <2>4, Bounds
    <3> QED BY <2>4, <3>1
  <2> QED BY <2>1, <2>2, <2>3, <2>4, <2>5
<1>4. TypeOK'
  <2>1. docs' \in SUBSET Doc
    <3>1. \A u \in U : <<n, u>> \in Doc
      BY <1>1 DEF Doc
    <3> QED BY <1>1, <3>1 DEF TypeOK
  <2>2. pending' \in SUBSET Task
    <3>1. \A u \in U : [batch |-> n, user |-> u] \in Task
      BY <1>1 DEF Task
    <3> QED BY <1>1, <3>1 DEF TypeOK
  <2>3. scopeVersion' \in [Scopes -> 0..MaxIngests]
    BY <1>1, <1>3
  <2> QED BY <1>1, <1>2, <2>1, <2>2, <2>3 DEF TypeOK
<1>5. Dated'
  <2>1. ASSUME NEW d \in docs' PROVE d[1] <= n /\ d \notin gone
    <3>1. CASE d \in docs
      <4>1. d[1] \in Nat /\ d[1] <= count.ingests /\ d \notin gone
        BY <3>1 DEF Dated, TypeOK, Doc
      <4> QED BY <1>2, <4>1
    <3>2. CASE d \notin docs
      <4>1. d[1] = n
        BY <1>1, <2>1, <3>2
      <4>2. d \notin gone
        BY <1>2, <4>1 DEF Dated
      <4> QED BY <4>1, <4>2
    <3> QED BY <3>1, <3>2
  <2>2. ASSUME NEW d \in gone PROVE d[1] <= n
    <3>1. d[1] \in Nat /\ d[1] <= count.ingests
      BY <2>2 DEF Dated, TypeOK, Doc
    <3> QED BY <1>2, <3>1
  <2> QED BY <1>1, <1>2, <1>3, <2>1, <2>2 DEF Dated
<1>6. Versioned(U, n)
  BY <1>3 DEF Versioned
<1> QED BY <1>4, <1>5, <1>6

\* An ingest makes what was built for the scopes it bumps old, and leaves the others alone.
LEMMA AmbIngestKeeps == ASSUME AmbInv, Ingest PROVE AmbInv'
<1> USE DEF AmbInv
<1>1. /\ TypeOK' /\ Dated'
      /\ \E U \in SUBSET Users \ {{}}, n \in 1..MaxIngests : Ingested(U, n) /\ Versioned(U, n)
  BY IngestIs
<1>2. PICK U \in SUBSET Users \ {{}}, n \in 1..MaxIngests : Ingested(U, n) /\ Versioned(U, n)
  BY <1>1
<1>3. ASSUME NEW s \in Scopes
      PROVE  /\ scopeVersion[s] \in 0..MaxIngests /\ scopeVersion'[s] \in 0..MaxIngests
             /\ scopeVersion[s] <= scopeVersion'[s]
             /\ scopeVersion'[s] = scopeVersion[s] => DocsOf(s)' = DocsOf(s)
  BY <1>2 DEF Versioned
<1>4. UNCHANGED <<corpora, cache, inflight, running, built, disk, warming, req, gone>>
  BY <1>2 DEF Ingested
<1>6. ASSUME NEW s \in Scopes, NEW v \in Nat, NEW src, Current(s, v, src)
      PROVE  Current(s, v, src)'
  <2>1. v <= scopeVersion[s]
    BY <1>6 DEF Current
  <2>2. v <= scopeVersion'[s] /\ (v = scopeVersion'[s] => v = scopeVersion[s]
                                     /\ scopeVersion'[s] = scopeVersion[s])
    BY <1>3, <2>1
  <2> QED BY <1>3, <1>6, <2>2 DEF Current
<1>7. CorporaCurrent'
  <2>1. ASSUME NEW e \in Range(corpora)
        PROVE  /\ e.version <= scopeVersion'[e.scope]
               /\ e.version = scopeVersion'[e.scope] => e.src = DocsOf(e.scope)'
    <3>1. e.scope \in Scopes /\ e.version \in Nat
      BY <2>1, EntriesTyped
    <3>2. /\ e.version <= scopeVersion[e.scope]
          /\ e.version = scopeVersion[e.scope] => e.src = DocsOf(e.scope)
      BY <2>1 DEF CorporaCurrent
    <3>3. e.version <= scopeVersion'[e.scope] /\ (e.version = scopeVersion'[e.scope] =>
             e.version = scopeVersion[e.scope] /\ scopeVersion'[e.scope] = scopeVersion[e.scope])
      BY <1>3, <3>1, <3>2
    <3> QED BY <1>3, <3>1, <3>2, <3>3
  <2> QED BY <1>4, <2>1 DEF CorporaCurrent
<1>8. BuildsCurrent'
  <2>1. ASSUME NEW b \in running PROVE Current(b.scope, b.version, b.src)'
    <3>1. b.scope \in Scopes /\ b.version \in Nat
      BY <2>1 DEF TypeOK, Build
    <3> QED BY <1>6, <2>1, <3>1 DEF BuildsCurrent
  <2>2. ASSUME NEW k \in Kinds, NEW e \in Range(cache[k]), ~e.file
        PROVE  Current(e.scope, e.version, e.src)'
    <3>1. e.scope \in Scopes /\ e.version \in Nat
      BY <2>2, EntriesTyped
    <3> QED BY <1>6, <2>2, <3>1 DEF BuildsCurrent
  <2> QED BY <1>4, <2>1, <2>2 DEF BuildsCurrent
<1>9. QueriesCurrent'
  <2>1. \A r \in Reqs : req[r].pc # "run"
    BY QuietMeans DEF Ingest
  <2> QED BY <1>4, <2>1 DEF QueriesCurrent, QueryCurrent
<1>10. OneBuildEach'
  <2>1. ASSUME NEW b \in running \ inflight
        PROVE  b.version < scopeVersion'[b.scope] \/ DocsOf(b.scope)' = {}
    <3>1. b.scope \in Scopes /\ b.version \in Nat
      BY <2>1 DEF TypeOK, Build
    <3>2. b.version < scopeVersion[b.scope] \/ DocsOf(b.scope) = {}
      BY <2>1 DEF OneBuildEach
    <3>3. b.version <= scopeVersion[b.scope]
      BY <2>1 DEF BuildsCurrent, Current
    <3> QED BY <1>3, <3>1, <3>2, <3>3
  <2> QED BY <1>4, <2>1 DEF OneBuildEach, SingleFlight
<1>11. CachesBounded'
  BY <1>4 DEF CachesBounded
<1> QED BY <1>1, <1>7, <1>8, <1>9, <1>10, <1>11

\* A reset leaves an empty memory, of which nothing is out of date.
LEMMA AmbResetKeeps == ASSUME AmbInv, Reset PROVE AmbInv'
<1> USE DEF AmbInv
<1>1. /\ docs' = {} /\ gone' = gone \cup docs /\ corpora' = << >> /\ cache' = [k \in Kinds |-> << >>]
      /\ inflight' \subseteq inflight
      /\ UNCHANGED <<scopeVersion, running, built, disk, pending, warming, req>>
      /\ count' \in [ingests : 0..MaxIngests, resets : 0..MaxResets, failures : 0..MaxFailures]
      /\ count'.ingests = count.ingests
  <2>1. PICK c \in [ingests : 0..MaxIngests, resets : 0..MaxResets, failures : 0..MaxFailures] :
           c = count /\ c.resets < MaxResets
    BY DEF Reset, TypeOK
  <2>2. /\ [c EXCEPT !.resets = @ + 1] \in
             [ingests : 0..MaxIngests, resets : 0..MaxResets, failures : 0..MaxFailures]
        /\ [c EXCEPT !.resets = @ + 1].ingests = c.ingests
    BY <2>1, Bounds
  <2> QED BY <2>1, <2>2 DEF Reset
<1>2. \A s : DocsOf(s)' = {}
  BY <1>1 DEF DocsOf
<1>3. TypeOK'
  <2>1. corpora' \in Seq(CorpusEntry) /\ cache' \in [Kinds -> Seq(Entry)]
    BY <1>1
  <2> QED BY <1>1, <2>1 DEF TypeOK
<1>4. Dated'
  BY <1>1 DEF Dated
<1>5. CorporaCurrent' /\ BuildsCurrent'
  <2>1. CorporaCurrent' /\ \A k \in Kinds : Range(cache'[k]) = {}
    BY <1>1 DEF CorporaCurrent, Range
  <2> QED BY <1>1, <1>2, <2>1 DEF BuildsCurrent, Current
<1>6. QueriesCurrent'
  <2>1. \A r \in Reqs : req[r].pc # "run"
    BY QuietMeans DEF Reset
  <2> QED BY <1>1, <2>1 DEF QueriesCurrent, QueryCurrent
<1>7. OneBuildEach'
  BY <1>1, <1>2 DEF OneBuildEach, SingleFlight
<1>8. CachesBounded'
  BY <1>1, ServerBounds DEF CachesBounded
<1> QED BY <1>3, <1>4, <1>5, <1>6, <1>7, <1>8

LEMMA CorporaStep ==
  ASSUME TypeOK, CorporaCurrent, CachesBounded, NEW s \in Scopes, corpora' = CorporaAfter(s),
         UNCHANGED <<docs, scopeVersion>>
  PROVE  corpora' \in Seq(CorpusEntry) /\ CorporaCurrent' /\ Len(corpora') <= CorpusMax
<1>1. /\ corpora' \in Seq(CorpusEntry) /\ Len(corpora') <= CorpusMax
      /\ \A x \in Range(corpora') :
            \/ x \in Range(corpora)
            \/ x.scope = s /\ x.version = scopeVersion[s] /\ x.src = DocsOf(s) /\ DocsOf(s) # {}
  BY CorporaKeep DEF TypeOK, CachesBounded
<1>2. scopeVersion' = scopeVersion /\ \A x : DocsOf(x)' = DocsOf(x)
  BY DEF DocsOf
<1>3. scopeVersion[s] <= scopeVersion[s]
  BY DEF TypeOK
<1> QED BY <1>1, <1>2, <1>3 DEF CorporaCurrent

\* A pre-warm takes the corpus of now.
Prewarmed(t, s, corpus) ==
  /\ s = t.user /\ corpus = DocsOf(s)
  /\ pending' = pending \ {t}
  /\ corpora' = CorporaAfter(s)
  /\ IF corpus = {}
     THEN UNCHANGED <<cache, inflight, running, warming>>
     ELSE /\ Getters(Active, s, corpus, t)
          /\ warming' = warming \cup {[task |-> t, builds |-> Joined(Active, s, corpus, t)]}
  /\ UNCHANGED <<docs, scopeVersion, built, disk, req, gone, count>>
LEMMA PrewarmIs ==
  ASSUME TypeOK, CorporaCurrent, PrewarmScope
  PROVE  \E t \in pending, s \in Users, corpus \in SUBSET Doc : Prewarmed(t, s, corpus)
<1>1. PICK t \in pending :
        /\ pending' = pending \ {t}
        /\ corpora' = CorporaAfter(t.user)
        /\ IF CorpusOf(t.user) = {}
           THEN UNCHANGED <<cache, inflight, running, warming>>
           ELSE /\ Getters(Active, t.user, CorpusOf(t.user), t)
                /\ warming' = warming \cup
                     {[task |-> t, builds |-> Joined(Active, t.user, CorpusOf(t.user), t)]}
        /\ UNCHANGED <<docs, scopeVersion, built, disk, req, gone, count>>
  BY DEF PrewarmScope
<1>2. PICK s \in Users : s = t.user
  BY DEF TypeOK, Task
<1>3. s \in Scopes /\ CorpusOf(s) = DocsOf(s)
  BY CorpusIs DEF Scopes
<1>4. PICK corpus \in SUBSET Doc : corpus = DocsOf(s)
  BY DEF DocsOf, TypeOK
<1>5. Prewarmed(t, s, corpus)
  BY <1>1, <1>2, <1>3, <1>4 DEF Prewarmed
<1> QED BY <1>5

LEMMA AmbPrewarmKeeps == ASSUME AmbInv, PrewarmScope PROVE AmbInv'
<1> USE DEF AmbInv
<1>1. PICK t \in pending, s \in Users, corpus \in SUBSET Doc : Prewarmed(t, s, corpus)
  BY PrewarmIs
<1> USE <1>1 DEF Prewarmed
<1>2. t \in Task /\ s \in Scopes /\ Active \in SUBSET Kinds
  BY <1>1, Bounds DEF TypeOK, Scopes
<1>3. corpora' \in Seq(CorpusEntry) /\ CorporaCurrent' /\ Len(corpora') <= CorpusMax
  BY <1>1, <1>2, CorporaStep
<1>4. \A x : DocsOf(x)' = DocsOf(x)
  BY <1>1 DEF DocsOf
<1>5. /\ cache' \in [Kinds -> Seq(Entry)] /\ running' \subseteq Build /\ inflight' \subseteq Build
      /\ BuildsCurrent' /\ OneBuildEach' /\ CachesBounded' /\ running \subseteq running'
      /\ \A w \in warming' : w.task \in Task /\ w.builds \subseteq Build
  <2>1. CASE corpus = {}
    <3>1. UNCHANGED <<cache, inflight, running, warming, docs, scopeVersion>>
      BY <1>1, <2>1
    <3>2. BuildsCurrent' /\ OneBuildEach'
      BY <1>4, <3>1 DEF BuildsCurrent, Current, OneBuildEach, SingleFlight
    <3>3. CachesBounded'
      BY <1>3, <3>1 DEF CachesBounded
    <3> QED BY <3>1, <3>2, <3>3 DEF TypeOK
  <2>2. CASE corpus # {}
    <3>1. Getters(Active, s, corpus, t) /\ UNCHANGED <<docs, scopeVersion>>
      BY <1>1, <2>2
    <3>2. t \in Reqs \cup Task
      BY <1>2
    <3>3. /\ cache' \in [Kinds -> Seq(Entry)] /\ running' \subseteq Build /\ inflight' \subseteq Build
          /\ BuildsCurrent' /\ OneBuildEach' /\ CachesBounded' /\ running \subseteq running'
          /\ Joined(Active, s, corpus, t) \subseteq running'
      BY <1>1, <1>2, <1>3, <2>2, <3>1, <3>2, GettersKeep
    <3>4. \A w \in warming' : w.task \in Task /\ w.builds \subseteq Build
      BY <1>1, <1>2, <2>2, <3>3 DEF TypeOK
    <3> QED BY <3>3, <3>4
  <2> QED BY <2>1, <2>2
<1>6. TypeOK'
  BY <1>1, <1>3, <1>5 DEF TypeOK
<1>7. Dated'
  BY <1>1 DEF Dated
<1>8. QueriesCurrent'
  BY <1>1, <1>4, <1>5 DEF QueriesCurrent, QueryCurrent
<1> QED BY <1>3, <1>5, <1>6, <1>7, <1>8

\* One request changes, to another request.
LEMMA RequestPut ==
  ASSUME TypeOK, NEW r \in Reqs, NEW q \in Request, req' = [req EXCEPT ![r] = q]
  PROVE  /\ req' \in [Reqs -> Request] /\ req'[r] = q
         /\ \A x \in Reqs : x # r => req'[x] = req[x]
BY DEF TypeOK

\* The queries stay current when one changes to one that is, and builds only start.
LEMMA QueriesPut ==
  ASSUME TypeOK, QueriesCurrent, NEW r \in Reqs, NEW q \in Request,
         req' = [req EXCEPT ![r] = q], QueryCurrent(q)', docs' = docs, running \subseteq running'
  PROVE  QueriesCurrent'
<1>1. req'[r] = q /\ \A x \in Reqs : x # r => req'[x] = req[x]
  BY RequestPut
<1>2. \A x : DocsOf(x)' = DocsOf(x)
  BY DEF DocsOf
<1>3. ASSUME NEW x \in Reqs, x # r PROVE QueryCurrent(req[x])'
  <2>1. QueryCurrent(req[x]) /\ req'[x] = req[x]
    BY <1>1, <1>3 DEF QueriesCurrent
  <2> QED BY <1>2, <2>1 DEF QueryCurrent
<1>4. QueryCurrent(req[r])'
  BY <1>1
<1> QED BY <1>3, <1>4 DEF QueriesCurrent

LEMMA PlansAre ==
  ASSUME NEW plan \in Plans
  PROVE  plan \in Seq(Kinds) /\ Range(plan) \subseteq Active
<1>1. "preference" \in Kinds /\ "fold" \in Kinds /\ Active \subseteq Kinds
  BY Bounds DEF Kinds
<1>2. Standing \in Seq(Active)
  <2>1. "preference" \in Active => <<"preference">> \in Seq(Active)
    OBVIOUS
  <2>2. "fold" \in Active => <<"fold">> \in Seq(Active)
    OBVIOUS
  <2>3. << >> \in Seq(Active)
    BY EmptySeq
  <2> QED BY <2>1, <2>2, <2>3, ConcatProperties DEF Standing
<1>3. \A i \in Active : <<i>> \o Standing \in Seq(Active)
  <2>1. \A i \in Active : <<i>> \in Seq(Active)
    OBVIOUS
  <2> QED BY <1>2, <2>1, ConcatProperties
<1>4. plan \in Seq(Active)
  BY <1>2, <1>3 DEF Plans
<1>5. Range(plan) \subseteq Active
  BY <1>4, LenProperties DEF Range
<1> QED BY <1>1, <1>4, <1>5, SeqMonotonic

\* A query comes when nothing runs and takes the corpus of now.
Came(p, s, plan, corpus) ==
  [p EXCEPT !.pc = IF corpus = {} THEN "done" ELSE "run", !.scope = s,
            !.corpus = corpus, !.todo = plan, !.before = gone]
LEMMA RetrieveIs ==
  ASSUME TypeOK, CorporaCurrent, NEW r \in Reqs, Retrieve(r)
  PROVE  \E s \in Scopes, plan \in Plans, corpus \in SUBSET Doc, q \in Request :
           /\ corpus = DocsOf(s) /\ corpora' = CorporaAfter(s)
           /\ q = Came(req[r], s, plan, corpus) /\ req' = [req EXCEPT ![r] = q]
<1>1. PICK s \in Scopes, plan \in Plans :
      /\ corpora' = CorporaAfter(s)
      /\ req' = [req EXCEPT ![r] = [@ EXCEPT !.pc = IF CorpusOf(s) = {} THEN "done" ELSE "run",
                                            !.scope = s, !.corpus = CorpusOf(s),
                                            !.todo = plan, !.before = gone]]
  BY DEF Retrieve
<1>2. PICK corpus \in SUBSET Doc : corpus = DocsOf(s) /\ corpus = CorpusOf(s)
  BY CorpusIs DEF DocsOf, TypeOK
<1>3. PICK p \in Request : p = req[r]
  BY DEF TypeOK
<1>4. PICK g \in SUBSET Doc : g = gone
  BY DEF TypeOK
<1>5. PICK pc \in {"done", "run"} : pc = IF corpus = {} THEN "done" ELSE "run"
  OBVIOUS
<1>6. [p EXCEPT !.pc = pc, !.scope = s, !.corpus = corpus, !.todo = plan, !.before = g] \in Request
  BY PlansAre DEF Request
<1>7. PICK q \in Request : q = Came(req[r], s, plan, corpus)
  BY <1>3, <1>4, <1>5, <1>6 DEF Came
<1>8. req' = [req EXCEPT ![r] = q]
  BY <1>1, <1>2, <1>7 DEF Came
<1> QED BY <1>1, <1>2, <1>7, <1>8

LEMMA AmbRetrieveKeeps ==
  ASSUME AmbInv, OnePerQuery, NEW r \in Reqs, Retrieve(r) PROVE AmbInv'
<1> USE DEF AmbInv
<1>1. PICK s \in Scopes, plan \in Plans, corpus \in SUBSET Doc, q \in Request :
           /\ corpus = DocsOf(s) /\ corpora' = CorporaAfter(s)
           /\ q = Came(req[r], s, plan, corpus) /\ req' = [req EXCEPT ![r] = q]
  BY RetrieveIs
<1>2. UNCHANGED <<docs, scopeVersion, cache, inflight, running, built, disk, pending, warming,
                  gone, count>> /\ req[r].pc = "idle"
  BY DEF Retrieve
<1>3. /\ req' \in [Reqs -> Request] /\ req'[r] = q
      /\ \A x \in Reqs : x # r => req'[x] = req[x]
  BY <1>1, RequestPut
<1>4. corpora' \in Seq(CorpusEntry) /\ CorporaCurrent' /\ Len(corpora') <= CorpusMax
  BY <1>1, <1>2, CorporaStep
<1>5. \A x : DocsOf(x)' = DocsOf(x)
  BY <1>2 DEF DocsOf
<1>6. TypeOK'
  BY <1>2, <1>3, <1>4 DEF TypeOK
<1>7. Dated'
  BY <1>2 DEF Dated
<1>8. BuildsCurrent' /\ OneBuildEach'
  BY <1>2, <1>5 DEF BuildsCurrent, Current, OneBuildEach, SingleFlight
<1>9. CachesBounded'
  BY <1>2, <1>4 DEF CachesBounded
<1>10. QueriesCurrent'
  <2>1. /\ q.scope = s /\ q.corpus = corpus /\ q.todo = plan /\ q.wait = req[r].wait
        /\ q.pc = IF corpus = {} THEN "done" ELSE "run"
    <3>1. req[r] \in Request
      BY DEF TypeOK
    <3> QED BY <1>1, <3>1 DEF Request, Came
  <2>2. Len(plan) <= 1 /\ req[r].wait = NoBuild
    BY <1>2 DEF OnePerQuery, QueriesCurrent, QueryCurrent
  <2>3. QueryCurrent(q)'
    BY <1>1, <1>5, <2>1, <2>2 DEF QueryCurrent
  <2> QED BY <1>1, <1>2, <1>3, <2>3, QueriesPut
<1> QED BY <1>4, <1>6, <1>7, <1>8, <1>9, <1>10

LEMMA JoinedAre ==
  ASSUME TypeOK, NEW k \in Kinds, NEW s \in Scopes, NEW corpus \in SUBSET Doc, NEW w \in Reqs \cup Task,
         NEW b \in Joined({k}, s, corpus, w)
  PROVE  b \in Build /\ (b \in Launches({k}, s, corpus, w) \/ b \in Slot(k, s))
<1>1. b \in Launches({k}, s, corpus, w) \/ b \in Slot(k, s)
  BY DEF Joined
<1>2. \A c \in Slot(k, s) : c \in Build
  BY DEF Slot, TypeOK
<1>3. {k} \in SUBSET Kinds
  OBVIOUS
<1>4. b \in Launches({k}, s, corpus, w) => b \in Build
  BY <1>3, LaunchesAre
<1> QED BY <1>1, <1>2, <1>4

\* A call of a getter: it leaves the query waiting for a build of it, or with what a
\* fresh entry or the file gave.
Waits(q, b) == [q EXCEPT !.pc = "wait", !.wait = b]
Takes(q, G) == [q EXCEPT !.todo = Tail(q.todo), !.got = q.got \cup G]
Taken(k, s, G) == \A g \in G :
  /\ g.kind = k
  /\ \/ \E e \in Fresh(k, s) : g.src = e.src
     \/ Fresh(k, s) = {} /\ k \in DiskKinds /\ g.src = disk[k][s]
Called(r, q, p, k, s, corpus, G) ==
  /\ q = req[r] /\ q.pc = "run" /\ q.todo # << >> /\ k = Head(q.todo)
  /\ s = q.scope /\ corpus = q.corpus
  /\ Getters({k}, s, corpus, r)
  /\ req' = [req EXCEPT ![r] = p]
  /\ UNCHANGED <<docs, scopeVersion, corpora, built, disk, pending, warming, gone, count>>
  /\ \/ \E b \in Joined({k}, s, corpus, r) : p = Waits(q, b)
     \/ p = Takes(q, G)
  /\ Taken(k, s, G)
LEMMA CallIs ==
  ASSUME TypeOK, NEW r \in Reqs, CallGetter(r)
  PROVE  \E q \in Request, p \in Request, k \in Kinds, s \in Scopes, corpus \in SUBSET Doc,
            G \in SUBSET [kind : Kinds, src : SUBSET Doc] : Called(r, q, p, k, s, corpus, G)
<1>1. PICK q \in Request : q = req[r]
  BY DEF TypeOK
<1>2. q.scope \in Scopes /\ q.corpus \in SUBSET Doc /\ q.todo \in Seq(Kinds)
  BY DEF Request
<1>3. q.pc = "run" /\ q.todo # << >>
  BY <1>1 DEF CallGetter
<1>4. Head(q.todo) \in Kinds /\ Tail(q.todo) \in Seq(Kinds)
  BY <1>2, <1>3, HeadTailProperties
<1>5. PICK k \in Kinds, s \in Scopes, corpus \in SUBSET Doc :
         k = Head(q.todo) /\ s = q.scope /\ corpus = q.corpus
  BY <1>2, <1>4
<1> DEFINE joined == Joined({k}, s, corpus, r)
           G == {[kind |-> k, src |-> e.src] :
                    e \in IF Fresh(k, s) # {} THEN Fresh(k, s) ELSE {FromFile(k, s)}}
<1>6. /\ Getters({k}, s, corpus, r)
      /\ req' = [req EXCEPT ![r] = IF joined # {} THEN Waits(q, CHOOSE b \in joined : TRUE)
                                   ELSE Takes(q, G)]
      /\ UNCHANGED <<docs, scopeVersion, corpora, built, disk, pending, warming, gone, count>>
  BY <1>1, <1>5 DEF CallGetter, Waits, Takes
<1>7. CASE joined # {}
  <2>1. PICK b \in joined : b = CHOOSE c \in joined : TRUE
    BY <1>7
  <2>2. b \in Build
    <3>1. r \in Reqs \cup Task
      OBVIOUS
    <3> QED BY <3>1, JoinedAre
  <2>3. PICK p \in Request : p = Waits(q, b)
    BY <2>2 DEF Waits, Request
  <2>4. req' = [req EXCEPT ![r] = p]
    BY <1>6, <1>7, <2>1, <2>3
  <2> HIDE DEF joined
  <2>5. \E b1 \in joined : p = Waits(q, b1)
    BY <2>1, <2>3
  <2>6. Called(r, q, p, k, s, corpus, {})
    BY <1>1, <1>3, <1>5, <1>6, <2>4, <2>5 DEF joined, Called, Taken
  <2>7. {} \in SUBSET [kind : Kinds, src : SUBSET Doc]
    OBVIOUS
  <2> QED BY <2>6, <2>7
<1>8. CASE joined = {}
  <2>1. CASE Fresh(k, s) # {}
    <3>1. G = {[kind |-> k, src |-> e.src] : e \in Fresh(k, s)}
      BY <2>1
    <3>2. \A e \in Fresh(k, s) : e.src \in SUBSET Doc
      BY EntriesTyped DEF Fresh, Entry
    <3>3. PICK H \in SUBSET [kind : Kinds, src : SUBSET Doc] : H = G
      <4>1. \A e \in Fresh(k, s) : [kind |-> k, src |-> e.src] \in [kind : Kinds, src : SUBSET Doc]
        BY <3>2
      <4>2. G \subseteq [kind : Kinds, src : SUBSET Doc]
        BY <3>1, <4>1
      <4> HIDE DEF G
      <4> QED BY <4>2
    <3> HIDE DEF G
    <3>4. Taken(k, s, H)
      BY <3>1, <3>3 DEF Taken
    <3>5. PICK p \in Request : p = Takes(q, H)
      BY <1>4 DEF Takes, Request
    <3>6. req' = [req EXCEPT ![r] = p]
      BY <1>6, <1>8, <3>3, <3>5
    <3>7. Called(r, q, p, k, s, corpus, H)
      BY <1>1, <1>3, <1>5, <1>6, <3>4, <3>5, <3>6 DEF Called
    <3> QED BY <3>7
  <2>2. CASE Fresh(k, s) = {}
    <3>1. Slot(k, s) = {} /\ Launches({k}, s, corpus, r) = {}
      BY <1>8, <2>2 DEF Joined
    <3>2. OnDisk(k, s)
      BY <2>2, <3>1 DEF Launches, Absent
    <3>3. k \in DiskKinds /\ disk[k][s] \in SUBSET Doc
      BY <3>2 DEF OnDisk, TypeOK
    <3>4. G = {[kind |-> k, src |-> disk[k][s]]}
      BY <2>2 DEF FromFile
    <3>5. PICK f \in SUBSET Doc : f = disk[k][s]
      BY <3>3
    <3>6. PICK H \in SUBSET [kind : Kinds, src : SUBSET Doc] :
             H = G /\ H = {[kind |-> k, src |-> f]}
      <4>1. [kind |-> k, src |-> f] \in [kind : Kinds, src : SUBSET Doc]
        OBVIOUS
      <4>2. G = {[kind |-> k, src |-> f]}
        BY <3>4, <3>5
      <4> HIDE DEF G
      <4> QED BY <4>1, <4>2
    <3> HIDE DEF G
    <3>7. Taken(k, s, H)
      BY <2>2, <3>3, <3>5, <3>6 DEF Taken
    <3>8. PICK p \in Request : p = Takes(q, H)
      BY <1>4 DEF Takes, Request
    <3>9. req' = [req EXCEPT ![r] = p]
      BY <1>6, <1>8, <3>6, <3>8
    <3>10. Called(r, q, p, k, s, corpus, H)
      BY <1>1, <1>3, <1>5, <1>6, <3>7, <3>8, <3>9 DEF Called
    <3> QED BY <3>10
  <2> QED BY <2>1, <2>2
<1> QED BY <1>7, <1>8

LEMMA AmbCallKeeps ==
  ASSUME AmbInv, NEW r \in Reqs, CallGetter(r) PROVE AmbInv'
<1> USE DEF AmbInv
<1>1. PICK q \in Request, p \in Request, k \in Kinds, s \in Scopes, corpus \in SUBSET Doc,
            G \in SUBSET [kind : Kinds, src : SUBSET Doc] :
           Called(r, q, p, k, s, corpus, G)
  BY CallIs
<1> USE <1>1 DEF Called
<1>2. QueryCurrent(q)
  BY <1>1 DEF QueriesCurrent
<1>3. corpus = DocsOf(s) /\ corpus # {}
  BY <1>1, <1>2 DEF QueryCurrent
<1>4. /\ cache' \in [Kinds -> Seq(Entry)] /\ running' \subseteq Build /\ inflight' \subseteq Build
      /\ BuildsCurrent' /\ OneBuildEach' /\ (CachesBounded /\ Len(corpora') <= CorpusMax => CachesBounded')
      /\ running \subseteq running' /\ Joined({k}, s, corpus, r) \subseteq running'
  <2>1. {k} \in SUBSET Kinds /\ r \in Reqs \cup Task
    OBVIOUS
  <2> QED BY <1>1, <1>3, <2>1, GettersKeep
<1>5. CachesBounded'
  BY <1>1, <1>4 DEF CachesBounded
<1>6. req' \in [Reqs -> Request]
  BY <1>1, RequestPut
<1>7. TypeOK'
  BY <1>1, <1>4, <1>6 DEF TypeOK
<1>8. Dated' /\ CorporaCurrent'
  BY <1>1 DEF Dated, CorporaCurrent, DocsOf
<1>9. QueryCurrent(p)'
  <2>1. q.todo \in Seq(Kinds)
    BY DEF Request
  <2>2. Len(q.todo) <= 1 /\ q.wait = NoBuild
    BY <1>1, <1>2 DEF QueryCurrent
  <2>3. ASSUME NEW b \in Joined({k}, s, corpus, r), p = Waits(q, b) PROVE QueryCurrent(p)'
    <3>1. p.pc = "wait" /\ p.wait = b /\ p.todo = q.todo
      BY <2>3 DEF Waits, Request
    <3> QED BY <1>1, <1>4, <2>2, <2>3, <3>1 DEF QueryCurrent
  <2>4. ASSUME p = Takes(q, G) PROVE QueryCurrent(p)'
    <3>1. p.pc = "run" /\ p.wait = NoBuild /\ p.todo = Tail(q.todo)
      BY <1>1, <2>2, <2>4 DEF Takes, Request
    <3>2. Tail(q.todo) \in Seq(Kinds) /\ Len(Tail(q.todo)) = Len(q.todo) - 1 /\ Len(q.todo) \in Nat
      BY <1>1, <2>1, HeadTailProperties, LenProperties
    <3> HIDE DEF Called
    <3>3. Len(Tail(q.todo)) = 0 /\ Tail(q.todo) = << >>
      <4>1. Len(Tail(q.todo)) \in Nat
        BY <3>2, LenProperties
      <4>2. PICK n \in Nat, m \in Nat : n = Len(q.todo) /\ m = Len(Tail(q.todo))
        BY <3>2, <4>1
      <4>3. n <= 1 /\ m = n - 1
        BY <2>2, <3>2, <4>2
      <4>4. m = 0
        BY <4>3
      <4>5. Len(Tail(q.todo)) = 0
        BY <4>2, <4>4
      <4> QED BY <3>2, <4>5, EmptySeq
    <3>4. Len(p.todo) <= 1 /\ p.todo = << >>
      <4>1. p.todo = << >>
        BY <3>1, <3>3
      <4>2. Len(p.todo) = 0
        BY <3>1, <3>3
      <4> QED BY ONLY <4>1, <4>2
    <3> QED BY <3>1, <3>4 DEF QueryCurrent
  <2> QED BY <1>1, <2>3, <2>4
<1>10. QueriesCurrent'
  BY <1>1, <1>4, <1>9, QueriesPut
<1> QED BY <1>4, <1>5, <1>7, <1>8, <1>10

LEMMA AmbAnswerKeeps ==
  ASSUME AmbInv, NEW r \in Reqs, Answer(r) PROVE AmbInv'
<1> USE DEF AmbInv
<1>1. PICK q \in Request, p \in Request :
         q = req[r] /\ p = [q EXCEPT !.pc = "done"] /\ req' = [req EXCEPT ![r] = p]
  <2>1. PICK q \in Request : q = req[r]
    BY DEF TypeOK
  <2>2. [q EXCEPT !.pc = "done"] \in Request
    BY DEF Request
  <2> QED BY <2>1, <2>2 DEF Answer
<1>2. /\ UNCHANGED <<docs, scopeVersion, corpora, cache, inflight, running, built, disk,
                     pending, warming, gone, count>>
      /\ q.pc = "run"
  BY <1>1 DEF Answer
<1>3. QueryCurrent(q)
  BY <1>1 DEF QueriesCurrent
<1>4. QueryCurrent(p)'
  <2>1. p.pc = "done" /\ p.wait = q.wait /\ p.todo = q.todo
    BY <1>1 DEF Request
  <2> QED BY <1>2, <1>3, <2>1 DEF QueryCurrent
<1>5. QueriesCurrent' /\ req' \in [Reqs -> Request]
  BY <1>1, <1>2, <1>4, QueriesPut, RequestPut
<1>6. TypeOK'
  BY <1>2, <1>5 DEF TypeOK
<1>7. Dated' /\ CorporaCurrent' /\ BuildsCurrent' /\ OneBuildEach' /\ CachesBounded'
  BY <1>2 DEF Dated, CorporaCurrent, BuildsCurrent, Current, DocsOf, OneBuildEach, SingleFlight,
              CachesBounded
<1> QED BY <1>5, <1>6, <1>7

\* A build ends and frees its slot: what is left in flight is running, and no other build
\* of its scope's version of now was.
LEMMA EndKeeps ==
  ASSUME TypeOK, BuildsCurrent, OneBuildEach, NEW b \in running,
         running' = running \ {b}, inflight' = FreeSlot(b), UNCHANGED <<docs, scopeVersion>>
  PROVE  /\ b \in Build /\ Current(b.scope, b.version, b.src)'
         /\ running' \subseteq Build /\ inflight' \subseteq Build /\ inflight' \subseteq running'
         /\ \A c \in running' : Current(c.scope, c.version, c.src)'
         /\ OneBuildEach'
<1>1. inflight \subseteq running /\ running \subseteq Build
  BY DEF BuildsCurrent, TypeOK
<1>2. inflight' = {c \in inflight : <<c.kind, c.scope, c.version>> # <<b.kind, b.scope, b.version>>}
  BY DEF FreeSlot
<1>3. \A x : DocsOf(x)' = DocsOf(x)
  BY DEF DocsOf
<1>4. \A c \in running : Current(c.scope, c.version, c.src)'
  BY <1>3 DEF BuildsCurrent, Current
<1>5. ASSUME NEW c \in running' \ inflight'
      PROVE  c.version < scopeVersion'[c.scope] \/ DocsOf(c.scope)' = {}
  <2>1. CASE c \in inflight
    <3>1. c.kind = b.kind /\ c.scope = b.scope /\ c.version = b.version
      BY <1>2, <1>5, <2>1
    <3>2. c = b
      BY <1>5, <3>1 DEF OneBuildEach, SingleFlight
    <3> QED BY <1>5, <3>2
  <2>2. CASE c \notin inflight
    BY <1>3, <1>5, <2>2 DEF OneBuildEach
  <2> QED BY <2>1, <2>2
<1>6. OneBuildEach'
  BY <1>5 DEF OneBuildEach, SingleFlight
<1> QED BY <1>1, <1>2, <1>4, <1>6

\* Who waits for a build that ends.
LEMMA WaitersAre ==
  ASSUME TypeOK, QueriesCurrent, NEW b \in running, NEW r \in Reqs
  PROVE  /\ req[r].wait = b => req[r].pc = "wait" /\ req[r].todo # << >>
         /\ req[r].wait # b /\ req[r].pc = "wait" => req[r].wait \in running \ {b}
<1>1. QueryCurrent(req[r])
  BY DEF QueriesCurrent
<1>2. b # NoBuild
  BY NoBuildApart DEF TypeOK
<1> QED BY <1>1, <1>2 DEF QueryCurrent

LEMMA ShortTail ==
  ASSUME NEW S, NEW t \in Seq(S), t # << >>, Len(t) <= 1
  PROVE  Tail(t) = << >>
<1>1. Tail(t) \in Seq(S) /\ Len(Tail(t)) = Len(t) - 1 /\ Len(t) \in Nat /\ Len(Tail(t)) \in Nat
  BY HeadTailProperties, LenProperties
<1>2. Len(Tail(t)) = 0
  BY <1>1
<1> QED BY <1>1, <1>2, EmptySeq

\* The query goes on without its first artifact, or with what the build gave it.
GoesOn(q, G) == [q EXCEPT !.pc = "run", !.wait = NoBuild, !.todo = Tail(@), !.got = @ \cup G]
LEMMA GoesOnKeeps ==
  ASSUME NEW q \in Request, q.todo # << >>, NEW G \in SUBSET [kind : Kinds, src : SUBSET Doc]
  PROVE  /\ GoesOn(q, G) \in Request
         /\ QueryCurrent(q) => QueryCurrent(GoesOn(q, G))'
<1>1. q.todo \in Seq(Kinds)
  BY DEF Request
<1>2. Tail(q.todo) \in Seq(Kinds)
  BY <1>1, HeadTailProperties
<1>3. GoesOn(q, G) \in Request
  BY <1>2 DEF GoesOn, Request
<1>4. ASSUME QueryCurrent(q) PROVE QueryCurrent(GoesOn(q, G))'
  <2>1. Tail(q.todo) = << >>
    BY <1>1, <1>4, ShortTail DEF QueryCurrent
  <2>2. PICK p : p = GoesOn(q, G)
    OBVIOUS
  <2>3. p.pc = "run" /\ p.wait = NoBuild /\ p.todo = << >>
    BY <2>1, <2>2 DEF GoesOn, Request
  <2>4. Len(p.todo) = 0
    BY <2>3
  <2>5. QueryCurrent(p)'
    BY <2>3, <2>4 DEF QueryCurrent
  <2> QED BY <2>2, <2>5
<1> QED BY <1>3, <1>4

\* The file of a build that ended is written, or it stays as it was.
LEMMA FiledKeeps ==
  ASSUME TypeOK, NEW b \in Build, Filed(b)
  PROVE  /\ disk' \in [DiskKinds -> [Scopes -> SUBSET Doc]]
         /\ built' \subseteq Build /\ built' \subseteq built \cup {b}
         /\ count' \in [ingests : 0..MaxIngests, resets : 0..MaxResets, failures : 0..MaxFailures]
         /\ count'.ingests = count.ingests
         /\ \A k \in DiskKinds, s \in Scopes :
               \/ disk'[k][s] = disk[k][s] /\ (b \in built' => b \in built \/ <<k, s>> # <<b.kind, b.scope>>)
               \/ disk'[k][s] = b.src /\ <<k, s>> = <<b.kind, b.scope>>
<1>1. /\ disk \in [DiskKinds -> [Scopes -> SUBSET Doc]] /\ built \subseteq Build
      /\ b.scope \in Scopes /\ b.src \in SUBSET Doc
  BY DEF TypeOK, Build
<1>2. PICK c \in [ingests : 0..MaxIngests, resets : 0..MaxResets, failures : 0..MaxFailures] : c = count
  BY DEF TypeOK
<1>3. CASE /\ built' = built \cup {b}
           /\ disk' = IF b.kind \in DiskKinds THEN [disk EXCEPT ![b.kind][b.scope] = b.src] ELSE disk
           /\ UNCHANGED count
  BY <1>1, <1>2, <1>3
<1>4. CASE /\ b.kind \in DiskKinds /\ count.failures < MaxFailures
           /\ count' = [count EXCEPT !.failures = @ + 1]
           /\ UNCHANGED <<built, disk>>
  <2>1. c.failures < MaxFailures /\ count' = [c EXCEPT !.failures = @ + 1]
    BY <1>2, <1>4
  <2>2. /\ [c EXCEPT !.failures = @ + 1] \in
             [ingests : 0..MaxIngests, resets : 0..MaxResets, failures : 0..MaxFailures]
        /\ [c EXCEPT !.failures = @ + 1].ingests = c.ingests
    BY <2>1, ServerBounds
  <2> QED BY <1>1, <1>2, <1>4, <2>1, <2>2
<1> QED BY <1>3, <1>4 DEF Filed

LEMMA AmbDoneKeeps == ASSUME AmbInv, BuildDone PROVE AmbInv'
<1> USE DEF AmbInv
<1>1. PICK b \in running :
        /\ running' = running \ {b} /\ Filed(b)
        /\ inflight' = FreeSlot(b)
        /\ cache' = [cache EXCEPT ![b.kind] =
              Store(b.kind, [scope |-> b.scope, version |-> b.version, src |-> b.src, file |-> FALSE])]
        /\ req' = [r \in Reqs |->
             IF req[r].wait # b THEN req[r]
             ELSE [req[r] EXCEPT !.pc = "run", !.wait = NoBuild, !.todo = Tail(@),
                                 !.got = @ \cup {[kind |-> b.kind, src |-> b.src]}]]
        /\ UNCHANGED <<docs, scopeVersion, corpora, pending, warming, gone>>
  BY DEF BuildDone
<1>2. /\ b \in Build /\ Current(b.scope, b.version, b.src)'
      /\ running' \subseteq Build /\ inflight' \subseteq Build /\ inflight' \subseteq running'
      /\ \A c \in running' : Current(c.scope, c.version, c.src)'
      /\ OneBuildEach'
  BY <1>1, EndKeeps
<1>3. b.kind \in Kinds /\ b.scope \in Scopes /\ b.version \in 0..MaxIngests /\ b.src \in SUBSET Doc
  BY <1>2 DEF Build
<1>4. PICK e \in Entry :
         e = [scope |-> b.scope, version |-> b.version, src |-> b.src, file |-> FALSE]
  BY <1>3 DEF Entry
<1>5. ASSUME NEW k \in Kinds
      PROVE  /\ cache'[k] \in Seq(Entry)
             /\ \A x \in Range(cache'[k]) : x = e \/ x \in Range(cache[k])
             /\ k # "fold" => Len(cache'[k]) <= CacheMax
  <2>1. cache[k] \in Seq(Entry) /\ cache \in [Kinds -> Seq(Entry)]
        /\ (k # "fold" => Len(cache[k]) <= CacheMax)
    BY DEF TypeOK, CachesBounded
  <2>2. cache'[k] = IF k = b.kind THEN Store(k, e) ELSE cache[k]
    BY <1>1, <1>3, <1>4, <2>1
  <2> QED BY <2>1, <2>2, StoreKeeps
<1>6. cache' \in [Kinds -> Seq(Entry)]
  <2>1. cache \in [Kinds -> Seq(Entry)]
    BY DEF TypeOK
  <2>2. DOMAIN cache' = Kinds /\ cache' = [k \in Kinds |-> cache'[k]]
    BY <1>1, <2>1
  <2> QED BY <1>5, <2>2
<1>7. /\ disk' \in [DiskKinds -> [Scopes -> SUBSET Doc]] /\ built' \subseteq Build
      /\ count' \in [ingests : 0..MaxIngests, resets : 0..MaxResets, failures : 0..MaxFailures]
      /\ count'.ingests = count.ingests
  BY <1>1, <1>2, FiledKeeps
<1>8. PICK G \in SUBSET [kind : Kinds, src : SUBSET Doc] : G = {[kind |-> b.kind, src |-> b.src]}
  <2>1. [kind |-> b.kind, src |-> b.src] \in [kind : Kinds, src : SUBSET Doc]
    BY <1>3
  <2> QED BY <2>1
<1>9. ASSUME NEW r \in Reqs PROVE req'[r] \in Request /\ QueryCurrent(req[r])'
  <2>1. PICK q \in Request : q = req[r] /\ QueryCurrent(q)
    BY DEF TypeOK, QueriesCurrent
  <2>2. CASE q.wait # b
    <3>1. req'[r] = q
      BY <1>1, <2>1, <2>2
    <3>2. q.pc = "wait" => q.wait \in running'
      BY <1>1, <2>1, <2>2, WaitersAre
    <3>3. \A x : DocsOf(x)' = DocsOf(x)
      BY <1>1 DEF DocsOf
    <3>4. QueryCurrent(q)'
      BY <2>1, <3>2, <3>3 DEF QueryCurrent
    <3> QED BY <2>1, <3>1, <3>4
  <2>3. CASE q.wait = b
    <3>1. req'[r] = GoesOn(q, G)
      BY <1>1, <1>8, <2>1, <2>3 DEF GoesOn
    <3>2. q.todo # << >>
      BY <2>1, <2>3, WaitersAre
    <3>3. GoesOn(q, G) \in Request /\ QueryCurrent(GoesOn(q, G))'
      BY <2>1, <3>2, GoesOnKeeps
    <3> QED BY <3>1, <3>3
  <2> QED BY <2>2, <2>3
<1>10. req' \in [Reqs -> Request] /\ QueriesCurrent'
  BY <1>1, <1>9 DEF QueriesCurrent
<1>11. TypeOK'
  BY <1>1, <1>2, <1>6, <1>7, <1>10 DEF TypeOK
<1>12. Dated' /\ CorporaCurrent'
  BY <1>1, <1>7 DEF Dated, CorporaCurrent, DocsOf
<1>13. BuildsCurrent'
  <2>1. ASSUME NEW k \in Kinds, NEW x \in Range(cache'[k]), ~x.file
        PROVE  Current(x.scope, x.version, x.src)'
    <3>1. CASE x = e
      BY <1>2, <1>4, <3>1
    <3>2. CASE x \in Range(cache[k])
      <4>1. Current(x.scope, x.version, x.src)
        BY <2>1, <3>2 DEF BuildsCurrent
      <4> QED BY <1>1, <4>1 DEF Current, DocsOf
    <3> QED BY <1>5, <2>1, <3>1, <3>2
  <2> QED BY <1>2, <2>1 DEF BuildsCurrent
<1>14. CachesBounded'
  BY <1>1, <1>5 DEF CachesBounded
<1> QED BY <1>2, <1>10, <1>11, <1>12, <1>13, <1>14

LEMMA AmbFailsKeeps == ASSUME AmbInv, BuildFails PROVE AmbInv'
<1> USE DEF AmbInv
<1>1. PICK b \in running :
        /\ running' = running \ {b} /\ inflight' = FreeSlot(b)
        /\ count' = [count EXCEPT !.failures = @ + 1] /\ count.failures < MaxFailures
        /\ req' = [r \in Reqs |->
             IF req[r].wait # b THEN req[r]
             ELSE IF b.kind \in DiskKinds
                  THEN [req[r] EXCEPT !.pc = "run", !.wait = NoBuild, !.todo = Tail(@)]
                  ELSE [req[r] EXCEPT !.pc = "failed", !.wait = NoBuild]]
        /\ UNCHANGED <<docs, scopeVersion, corpora, cache, built, disk, pending, warming, gone>>
  BY DEF BuildFails
<1>2. /\ running' \subseteq Build /\ inflight' \subseteq Build /\ inflight' \subseteq running'
      /\ \A c \in running' : Current(c.scope, c.version, c.src)'
      /\ OneBuildEach'
  BY <1>1, EndKeeps
<1>3. /\ count' \in [ingests : 0..MaxIngests, resets : 0..MaxResets, failures : 0..MaxFailures]
      /\ count'.ingests = count.ingests
  <2>1. PICK c \in [ingests : 0..MaxIngests, resets : 0..MaxResets, failures : 0..MaxFailures] :
           c = count /\ c.failures < MaxFailures
    BY <1>1 DEF TypeOK
  <2>2. /\ [c EXCEPT !.failures = @ + 1] \in
             [ingests : 0..MaxIngests, resets : 0..MaxResets, failures : 0..MaxFailures]
        /\ [c EXCEPT !.failures = @ + 1].ingests = c.ingests
    BY <2>1, Bounds
  <2> QED BY <1>1, <2>1, <2>2
<1>4. ASSUME NEW r \in Reqs PROVE req'[r] \in Request /\ QueryCurrent(req[r])'
  <2>1. PICK q \in Request : q = req[r] /\ QueryCurrent(q)
    BY DEF TypeOK, QueriesCurrent
  <2>2. CASE q.wait # b
    <3>1. req'[r] = q
      BY <1>1, <2>1, <2>2
    <3>2. q.pc = "wait" => q.wait \in running'
      BY <1>1, <2>1, <2>2, WaitersAre
    <3>3. \A x : DocsOf(x)' = DocsOf(x)
      BY <1>1 DEF DocsOf
    <3>4. QueryCurrent(q)'
      BY <2>1, <3>2, <3>3 DEF QueryCurrent
    <3> QED BY <2>1, <3>1, <3>4
  <2>3. CASE q.wait = b /\ b.kind \in DiskKinds
    <3>1. req'[r] = GoesOn(q, {})
      <4>1. req'[r] = [q EXCEPT !.pc = "run", !.wait = NoBuild, !.todo = Tail(@)]
        BY <1>1, <2>1, <2>3
      <4>2. q.got \cup {} = q.got
        OBVIOUS
      <4> QED BY <4>1, <4>2 DEF GoesOn, Request
    <3>2. q.todo # << >>
      BY <2>1, <2>3, WaitersAre
    <3>3. {} \in SUBSET [kind : Kinds, src : SUBSET Doc]
      OBVIOUS
    <3>4. GoesOn(q, {}) \in Request /\ QueryCurrent(GoesOn(q, {}))'
      BY <2>1, <3>2, <3>3, GoesOnKeeps
    <3> QED BY <3>1, <3>4
  <2>4. CASE q.wait = b /\ b.kind \notin DiskKinds
    <3>1. PICK p : p = [q EXCEPT !.pc = "failed", !.wait = NoBuild]
      OBVIOUS
    <3>2. req'[r] = p
      BY <1>1, <2>1, <2>4, <3>1
    <3>3. p \in Request /\ p.pc = "failed" /\ p.wait = NoBuild /\ p.todo = q.todo
      BY <3>1 DEF Request
    <3>4. QueryCurrent(p)'
      BY <2>1, <3>3 DEF QueryCurrent
    <3> QED BY <3>2, <3>3, <3>4
  <2> QED BY <2>2, <2>3, <2>4
<1>5. req' \in [Reqs -> Request] /\ QueriesCurrent'
  BY <1>1, <1>4 DEF QueriesCurrent
<1>6. TypeOK'
  BY <1>1, <1>2, <1>3, <1>5 DEF TypeOK
<1>7. Dated' /\ CorporaCurrent' /\ BuildsCurrent' /\ CachesBounded'
  BY <1>1, <1>2, <1>3 DEF Dated, CorporaCurrent, BuildsCurrent, Current, DocsOf, CachesBounded
<1> QED BY <1>2, <1>5, <1>6, <1>7

LEMMA AmbNext_Keeps == ASSUME AmbInv, OnePerQuery, [Next]_vars PROVE AmbInv'
<1>1. CASE UNCHANGED vars
  <2> USE <1>1 DEF vars, AmbInv
  <2>1. TypeOK'
    BY DEF TypeOK
  <2>2. Dated' /\ CorporaCurrent' /\ CachesBounded'
    BY DEF Dated, CorporaCurrent, CachesBounded, DocsOf
  <2>3. BuildsCurrent' /\ OneBuildEach'
    BY DEF BuildsCurrent, Current, OneBuildEach, SingleFlight, DocsOf
  <2>4. QueriesCurrent'
    BY DEF QueriesCurrent, QueryCurrent, DocsOf
  <2> QED BY <2>1, <2>2, <2>3, <2>4
<1>2. CASE Arrive
  BY <1>2, AmbIngestKeeps, AmbResetKeeps, AmbRetrieveKeeps DEF Arrive
<1>3. CASE Continue
  BY <1>3, AmbPrewarmKeeps, AmbCallKeeps, AmbAnswerKeeps DEF Continue
<1> QED BY <1>1, <1>2, <1>3, AmbDoneKeeps, AmbFailsKeeps DEF Next, Rest

LEMMA AmbAlways == ASSUME OnePerQuery PROVE Spec => []AmbInv
BY AmbInit_Holds, AmbNext_Keeps, PTL DEF Spec

\* A cache entry that a query would be served as fresh was built from the documents the
\* scope has now, whatever ingest or reset raced the build, as long as a query takes one
\* artifact at most (amb-csm-server.ts:99-103, 248-250).
THEOREM BuiltStaysFresh == ASSUME OnePerQuery PROVE Spec => []BuiltIsFresh
<1>1. AmbInv => BuiltIsFresh
  BY DEF AmbInv, BuildsCurrent, Current, BuiltIsFresh
<1> QED BY <1>1, AmbAlways, PTL

\* No artifact of a version is built twice at a time, and the bounded caches keep their
\* bound (amb-csm-server.ts:205-224, 265-314).
THEOREM WorkIsBounded == ASSUME OnePerQuery PROVE Spec => []WorkBounded
<1>1. AmbInv => WorkBounded
  BY DEF AmbInv, OneBuildEach, WorkBounded
<1> QED BY <1>1, AmbAlways, PTL

-----------------------------------------------------------------------------
(* Without the artifact files.                                             *)

LEMMA PlansWithoutFiles == ASSUME FilesUnused PROVE OnePerQuery
<1>1. "preference" \notin Active /\ "fold" \notin Active
  BY DEF FilesUnused, DiskKinds
<1>2. Standing = << >>
  BY <1>1 DEF Standing
<1>3. ASSUME NEW i \in Active PROVE Len(<<i>> \o Standing) <= 1
  <2>1. <<i>> \in Seq(Active) /\ << >> \in Seq(Active) /\ Len(<<i>>) = 1 /\ Len(<< >>) = 0
    OBVIOUS
  <2>2. Len(<<i>> \o << >>) = 1
    BY <2>1, ConcatProperties
  <2>3. Len(<<i>> \o Standing) = 1
    BY <1>2, <2>2
  <2> QED BY ONLY <2>3
<1>4. Len(Standing) <= 1
  <2>1. Len(Standing) = 0
    BY <1>2
  <2> QED BY ONLY <2>1
<1>5. ASSUME NEW plan \in Plans PROVE Len(plan) <= 1
  BY <1>3, <1>4 DEF Plans
<1> QED BY <1>5 DEF OnePerQuery

LEMMA AnswersPut ==
  ASSUME TypeOK, Answers, NEW r \in Reqs, NEW q \in Request,
         req' = [req EXCEPT ![r] = q], AnswerOf(q), NoFiles'
  PROVE  Answers'
BY RequestPut DEF Answers

\* What is left to ask for is part of what was.
LEMMA TailIn ==
  ASSUME NEW S, NEW t \in Seq(S), t # << >>
  PROVE  Head(t) \in Range(t) /\ Range(Tail(t)) \subseteq Range(t)
<1>1. /\ Tail(t) \in Seq(S) /\ Len(Tail(t)) = Len(t) - 1 /\ Len(t) \in Nat /\ Len(t) # 0
      /\ \A i \in 1..Len(Tail(t)) : Tail(t)[i] = t[i + 1]
      /\ DOMAIN t = 1..Len(t) /\ DOMAIN Tail(t) = 1..Len(Tail(t))
  BY HeadTailProperties, LenProperties, EmptySeq
<1>2. \A i \in 1..Len(Tail(t)) : i + 1 \in 1..Len(t)
  BY <1>1
<1>3. 1 \in DOMAIN t /\ Head(t) = t[1]
  BY <1>1
<1> QED BY <1>1, <1>2, <1>3 DEF Range

LEMMA GoesOnAnswers ==
  ASSUME NEW q \in Request, AnswerOf(q), q.todo # << >>,
         NEW G \in SUBSET [kind : Kinds, src : SUBSET Doc], \A g \in G : g.src = q.corpus
  PROVE  AnswerOf(GoesOn(q, G)) /\ (q.pc = "run" => AnswerOf(Takes(q, G)))
<1>1. q.todo \in Seq(Kinds) /\ Range(Tail(q.todo)) \subseteq Active
  BY TailIn DEF Request, AnswerOf
<1>2. ASSUME NEW p, p.todo = Tail(q.todo), p.pc = "run", p.got = q.got \cup G,
             p.corpus = q.corpus, p.before = q.before
      PROVE  AnswerOf(p)
  BY <1>1, <1>2 DEF AnswerOf
<1>3. AnswerOf(GoesOn(q, G))
  <2>1. PICK p : p = GoesOn(q, G)
    OBVIOUS
  <2>2. /\ p.todo = Tail(q.todo) /\ p.pc = "run" /\ p.got = q.got \cup G
        /\ p.corpus = q.corpus /\ p.before = q.before
    BY <2>1 DEF GoesOn, Request
  <2> QED BY <1>2, <2>1, <2>2
<1>4. ASSUME q.pc = "run" PROVE AnswerOf(Takes(q, G))
  <2>1. PICK p : p = Takes(q, G)
    OBVIOUS
  <2>2. /\ p.todo = Tail(q.todo) /\ p.pc = "run" /\ p.got = q.got \cup G
        /\ p.corpus = q.corpus /\ p.before = q.before
    BY <1>4, <2>1 DEF Takes, Request
  <2> QED BY <1>2, <2>1, <2>2
<1> QED BY <1>3, <1>4

LEMMA AnswersNext ==
  ASSUME FilesUnused, AmbInv, Answers, Next PROVE Answers'
<1> USE DEF AmbInv
<1>1. CASE Ingest \/ Rest
  BY <1>1 DEF Ingest, Rest, vars, Answers, NoFiles
<1>2. CASE Reset
  <2>1. cache' = [k \in Kinds |-> << >>] /\ req' = req
    BY <1>2 DEF Reset
  <2> QED BY <2>1 DEF Answers, NoFiles, Range
<1>3. CASE PrewarmScope
  <2>1. PICK t \in pending, s \in Users, corpus \in SUBSET Doc : Prewarmed(t, s, corpus)
    BY <1>3, PrewarmIs
  <2>2. t \in Reqs \cup Task /\ s \in Scopes /\ Active \in SUBSET Kinds
    BY <2>1, Bounds DEF TypeOK, Scopes
  <2>3. corpus # {} => \A k \in Kinds : \A e \in Range(cache'[k]) :
               e \in Range(cache[k]) \/ (e.file /\ k \in Active /\ k \in DiskKinds)
    BY <2>1, <2>2, GettersKeep DEF Prewarmed
  <2>4. corpus = {} => cache' = cache
    BY <2>1 DEF Prewarmed
  <2>5. NoFiles'
    BY <2>3, <2>4 DEF NoFiles, Answers, FilesUnused
  <2> QED BY <2>1, <2>5 DEF Prewarmed, Answers
<1>4. ASSUME NEW r \in Reqs, Retrieve(r) PROVE Answers'
  <2>1. PICK s \in Scopes, plan \in Plans, corpus \in SUBSET Doc, q \in Request :
           /\ corpus = DocsOf(s) /\ corpora' = CorporaAfter(s)
           /\ q = Came(req[r], s, plan, corpus) /\ req' = [req EXCEPT ![r] = q]
    BY <1>4, RetrieveIs
  <2>2. req[r].pc = "idle" /\ cache' = cache
    BY <1>4 DEF Retrieve
  <2>3. PICK p \in Request : p = req[r]
    BY DEF TypeOK
  <2>4. AnswerOf(p) /\ p.got = {}
    BY <2>2, <2>3 DEF Answers, AnswerOf
  <2>5. /\ q.todo = plan /\ q.got = {} /\ q.corpus = corpus /\ q.before = gone
        /\ q.pc # "wait"
    BY <2>1, <2>3, <2>4 DEF Came, Request
  <2>6. corpus \cap gone = {}
    BY <2>1 DEF Dated, DocsOf
  <2>7. AnswerOf(q)
    BY <2>5, <2>6, PlansAre DEF AnswerOf
  <2> QED BY <2>1, <2>2, <2>7, AnswersPut DEF Answers, NoFiles
<1>5. ASSUME NEW r \in Reqs, CallGetter(r) PROVE Answers'
  <2>1. PICK q \in Request, p \in Request, k \in Kinds, s \in Scopes, corpus \in SUBSET Doc,
            G \in SUBSET [kind : Kinds, src : SUBSET Doc] :
           Called(r, q, p, k, s, corpus, G)
    BY <1>5, CallIs
  <2>2. /\ q = req[r] /\ q.pc = "run" /\ q.todo # << >> /\ k = Head(q.todo)
        /\ s = q.scope /\ corpus = q.corpus
        /\ Getters({k}, s, corpus, r) /\ req' = [req EXCEPT ![r] = p]
        /\ docs' = docs /\ scopeVersion' = scopeVersion
        /\ (p = Takes(q, G) \/ \E b \in Joined({k}, s, corpus, r) : p = Waits(q, b))
        /\ Taken(k, s, G)
    BY <2>1 DEF Called
  <2>3. QueryCurrent(q) /\ AnswerOf(q)
    BY <2>2 DEF QueriesCurrent, Answers
  <2>4. corpus = DocsOf(s) /\ corpus # {}
    BY <2>2, <2>3 DEF QueryCurrent
  <2>5. k \in Active /\ k \notin DiskKinds
    <3>1. q.todo \in Seq(Kinds)
      BY DEF Request
    <3> QED BY <2>2, <2>3, <3>1, TailIn DEF AnswerOf, FilesUnused
  <2>6. \A x \in Kinds : \A e \in Range(cache'[x]) :
               e \in Range(cache[x]) \/ (e.file /\ x \in {k} /\ x \in DiskKinds)
    <3>1. {k} \in SUBSET Kinds /\ r \in Reqs \cup Task
      OBVIOUS
    <3> QED BY <2>2, <2>4, <3>1, GettersKeep
  <2>7. NoFiles'
    BY <2>5, <2>6 DEF NoFiles, Answers
  <2>8. \A g \in G : g.src = corpus
    <3>1. \A e \in Fresh(k, s) : e.src = DocsOf(s)
      BY <2>4 DEF Fresh, Answers, NoFiles, BuildsCurrent, Current
    <3> QED BY <2>2, <2>4, <2>5, <3>1 DEF Taken
  <2>9. ASSUME NEW b \in Joined({k}, s, corpus, r), p = Waits(q, b) PROVE AnswerOf(p)
    <3>1. b.src = corpus
      <4>1. r \in Reqs \cup Task /\ {k} \in SUBSET Kinds
        OBVIOUS
      <4>2. b \in Launches({k}, s, corpus, r) => b.src = corpus
        BY <4>1, LaunchesAre
      <4>3. b \in Slot(k, s) => b.src = DocsOf(s)
        BY <2>4 DEF Slot, BuildsCurrent, Current
      <4> QED BY <2>4, <4>1, <4>2, <4>3, JoinedAre
    <3>2. /\ p.pc = "wait" /\ p.wait = b /\ p.todo = q.todo /\ p.got = q.got /\ p.corpus = corpus
          /\ p.before = q.before
      BY <2>2, <2>9 DEF Waits, Request
    <3> QED BY <2>2, <2>3, <3>1, <3>2 DEF AnswerOf
  <2>10. p = Takes(q, G) => AnswerOf(p)
    BY <2>2, <2>3, <2>8, GoesOnAnswers
  <2> QED BY <2>2, <2>7, <2>9, <2>10, AnswersPut
<1>6. ASSUME NEW r \in Reqs, Answer(r) PROVE Answers'
  <2>1. PICK q \in Request : q = req[r]
    BY DEF TypeOK
  <2>2. PICK p \in Request : p = [q EXCEPT !.pc = "done"]
    BY DEF Request
  <2>3. AnswerOf(q)
    BY <2>1 DEF Answers
  <2>4. /\ p.pc = "done" /\ p.todo = q.todo /\ p.got = q.got /\ p.corpus = q.corpus
        /\ p.before = q.before
    BY <2>2 DEF Request
  <2>5. AnswerOf(p)
    BY <2>3, <2>4 DEF AnswerOf
  <2>6. req' = [req EXCEPT ![r] = p] /\ cache' = cache
    BY <1>6, <2>1, <2>2 DEF Answer
  <2> QED BY <2>5, <2>6, AnswersPut DEF Answers, NoFiles
<1>7. CASE BuildDone
  <2>1. PICK b \in running :
        /\ cache' = [cache EXCEPT ![b.kind] =
              Store(b.kind, [scope |-> b.scope, version |-> b.version, src |-> b.src, file |-> FALSE])]
        /\ req' = [r \in Reqs |->
             IF req[r].wait # b THEN req[r]
             ELSE [req[r] EXCEPT !.pc = "run", !.wait = NoBuild, !.todo = Tail(@),
                                 !.got = @ \cup {[kind |-> b.kind, src |-> b.src]}]]
    BY <1>7 DEF BuildDone
  <2>2. b \in Build /\ b.kind \in Kinds /\ b.scope \in Scopes /\ b.version \in 0..MaxIngests
        /\ b.src \in SUBSET Doc
    BY DEF TypeOK, Build
  <2>3. PICK e \in Entry :
           e = [scope |-> b.scope, version |-> b.version, src |-> b.src, file |-> FALSE]
    BY <2>2 DEF Entry
  <2>4. ASSUME NEW k \in Kinds, NEW x \in Range(cache'[k]) PROVE ~x.file
    <3>1. cache[k] \in Seq(Entry) /\ cache \in [Kinds -> Seq(Entry)]
      BY DEF TypeOK
    <3>2. cache'[k] = IF k = b.kind THEN Store(k, e) ELSE cache[k]
      BY <2>1, <2>2, <2>3, <3>1
    <3>3. x = e \/ x \in Range(cache[k])
      BY <2>4, <3>1, <3>2, StoreKeeps
    <3> QED BY <2>3, <3>3 DEF Answers, NoFiles
  <2>5. PICK G \in SUBSET [kind : Kinds, src : SUBSET Doc] : G = {[kind |-> b.kind, src |-> b.src]}
    <3>1. [kind |-> b.kind, src |-> b.src] \in [kind : Kinds, src : SUBSET Doc]
      BY <2>2
    <3> QED BY <3>1
  <2>6. ASSUME NEW r \in Reqs PROVE AnswerOf(req[r])'
    <3>1. PICK q \in Request : q = req[r] /\ AnswerOf(q)
      BY DEF TypeOK, Answers
    <3>2. CASE q.wait # b
      BY <2>1, <3>1, <3>2
    <3>3. CASE q.wait = b
      <4>1. req'[r] = GoesOn(q, G)
        BY <2>1, <2>5, <3>1, <3>3 DEF GoesOn
      <4>2. q.todo # << >> /\ q.pc = "wait"
        BY <3>1, <3>3, WaitersAre
      <4>3. \A g \in G : g.src = q.corpus
        BY <2>5, <3>1, <3>3, <4>2 DEF AnswerOf
      <4>4. AnswerOf(GoesOn(q, G))
        BY <3>1, <4>2, <4>3, GoesOnAnswers
      <4> QED BY <4>1, <4>4
    <3> QED BY <3>2, <3>3
  <2> QED BY <2>4, <2>6 DEF Answers, NoFiles
<1>8. CASE BuildFails
  <2>1. PICK b \in running :
        /\ cache' = cache
        /\ req' = [r \in Reqs |->
             IF req[r].wait # b THEN req[r]
             ELSE IF b.kind \in DiskKinds
                  THEN [req[r] EXCEPT !.pc = "run", !.wait = NoBuild, !.todo = Tail(@)]
                  ELSE [req[r] EXCEPT !.pc = "failed", !.wait = NoBuild]]
    BY <1>8 DEF BuildFails
  <2>2. ASSUME NEW r \in Reqs PROVE AnswerOf(req[r])'
    <3>1. PICK q \in Request : q = req[r] /\ AnswerOf(q)
      BY DEF TypeOK, Answers
    <3>2. CASE q.wait # b
      BY <2>1, <3>1, <3>2
    <3>3. CASE q.wait = b /\ b.kind \in DiskKinds
      <4>1. req'[r] = GoesOn(q, {})
        <5>1. req'[r] = [q EXCEPT !.pc = "run", !.wait = NoBuild, !.todo = Tail(@)]
          BY <2>1, <3>1, <3>3
        <5>2. q.got \cup {} = q.got
          OBVIOUS
        <5> QED BY <5>1, <5>2 DEF GoesOn, Request
      <4>2. q.todo # << >>
        BY <3>1, <3>3, WaitersAre
      <4>3. {} \in SUBSET [kind : Kinds, src : SUBSET Doc]
        OBVIOUS
      <4>4. AnswerOf(GoesOn(q, {}))
        BY <3>1, <4>2, <4>3, GoesOnAnswers
      <4> QED BY <4>1, <4>4
    <3>4. CASE q.wait = b /\ b.kind \notin DiskKinds
      <4>1. PICK p : p = [q EXCEPT !.pc = "failed", !.wait = NoBuild]
        OBVIOUS
      <4>2. req'[r] = p
        BY <2>1, <3>1, <3>4, <4>1
      <4>3. /\ p.pc = "failed" /\ p.todo = q.todo /\ p.got = q.got /\ p.corpus = q.corpus
            /\ p.before = q.before
        BY <4>1 DEF Request
      <4>4. AnswerOf(p)
        BY <3>1, <4>3 DEF AnswerOf
      <4> QED BY <4>2, <4>4
    <3> QED BY <3>2, <3>3, <3>4
  <2> QED BY <2>1, <2>2 DEF Answers, NoFiles
<1> QED BY <1>1, <1>2, <1>3, <1>4, <1>5, <1>6, <1>7, <1>8 DEF Next, Arrive, Continue

\* An answer's artifacts describe the very documents it was searched in, and none from
\* before a reset, as long as no artifact is kept in a file (amb-csm-server.ts:544-602).
THEOREM AnswersStayCurrent == ASSUME FilesUnused PROVE Spec => []AnswersCurrent
<1>1. Init => Answers
  <2> SUFFICES ASSUME Init PROVE Answers
    OBVIOUS
  <2>1. \A k \in Kinds : cache[k] = << >>
    BY DEF Init, Empty
  <2>2. \A r \in Reqs : /\ req[r].todo = << >> /\ req[r].got = {} /\ req[r].corpus = {}
                        /\ req[r].pc = "idle"
    BY DEF Init, Empty
  <2> QED BY <2>1, <2>2 DEF Answers, NoFiles, AnswerOf, Range
<1>2. AmbInv /\ Answers /\ [Next]_vars => Answers'
  <2>1. UNCHANGED vars /\ Answers => Answers'
    BY DEF vars, Answers, NoFiles
  <2> QED BY <2>1, AnswersNext
<1>3. AmbInv /\ Answers => AnswersCurrent
  <2> SUFFICES ASSUME AmbInv, Answers PROVE AnswersCurrent
    OBVIOUS
  <2>1. ASSUME NEW r \in Reqs, req[r].pc = "done"
        PROVE  /\ \A g \in req[r].got : g.src = req[r].corpus
               /\ req[r].corpus \cap req[r].before = {}
    BY DEF Answers, AnswerOf
  <2>2. AnswerConsistent /\ ResetForgets
    BY <2>1 DEF AnswerConsistent, ResetForgets
  <2> QED BY <2>2 DEF AnswersCurrent, AmbInv
<1>4. OnePerQuery
  BY PlansWithoutFiles
<1>5. Spec => []AmbInv
  BY <1>4, AmbAlways
<1> QED BY <1>1, <1>2, <1>3, <1>5, PTL DEF Spec

-----------------------------------------------------------------------------
(* As the BEAM harness uses the server: a unit's documents come once and   *)
(* stay, and all that was ever built, loaded or filed of a unit was built  *)
(* from them.                                                              *)

Unit(s, v, src) == s \in Users /\ v = 1 /\ scopeVersion[s] = 1 /\ src = DocsOf(s) /\ src # {}
UnitMemory ==
    /\ Dated /\ gone = {}
    /\ \A u \in Users : scopeVersion[u] = IF DocsOf(u) = {} THEN 0 ELSE 1
UnitCaches ==
    /\ \A e \in Range(corpora) : Unit(e.scope, e.version, e.src)
    /\ \A k \in Kinds : \A e \in Range(cache[k]) : Unit(e.scope, e.version, e.src)

\* A build runs in its slot until its file is written; then it is never needed again.
UnitBuilds ==
    /\ running = inflight /\ SingleFlight
    /\ \A b \in running \cup built : Unit(b.scope, b.version, b.src) /\ b.kind \in Active
    /\ \A b \in running : disk[b.kind][b.scope] = {}
    /\ \A b \in built : disk[b.kind][b.scope] # {}
    /\ NoDoubleBuild
UnitFiles == \A k \in DiskKinds, s \in Scopes : disk[k][s] # {} => Unit(s, 1, disk[k][s])
UnitQuery(q) ==
    /\ Range(q.todo) \subseteq Active
    /\ q.pc \in {"run", "wait"} => Unit(q.scope, 1, q.corpus)
    /\ q.pc = "wait" => q.todo # << >>
    /\ q.pc # "wait" => q.wait = NoBuild
UnitInv == TypeOK /\ UnitMemory /\ UnitCaches /\ UnitBuilds /\ UnitFiles
           /\ \A r \in Reqs : UnitQuery(req[r])

LEMMA UnitStays ==
  ASSUME docs' = docs, scopeVersion' = scopeVersion
  PROVE  /\ \A x : DocsOf(x)' = DocsOf(x)
         /\ \A s, v, src : Unit(s, v, src)' <=> Unit(s, v, src)
         /\ \A q : UnitQuery(q)' <=> UnitQuery(q)
         /\ UnitMemory /\ gone' = gone /\ count'.ingests = count.ingests => UnitMemory'
<1>1. \A x : DocsOf(x)' = DocsOf(x)
  BY DEF DocsOf
<1>2. \A s, v, src : Unit(s, v, src)' <=> Unit(s, v, src)
  BY <1>1 DEF Unit
<1>3. \A q : UnitQuery(q)' <=> UnitQuery(q)
  BY <1>2 DEF UnitQuery
<1>4. UnitMemory /\ gone' = gone /\ count'.ingests = count.ingests => UnitMemory'
  BY <1>1 DEF UnitMemory, Dated
<1> QED BY <1>1, <1>2, <1>3, <1>4

\* Under the harness an ingest brings the documents of new units only.
LEMMA UnitIngestKeeps == ASSUME UnitInv, Ingest, PerUnit PROVE UnitInv'
<1> USE DEF UnitInv
<1>1. /\ TypeOK' /\ Dated'
      /\ \E U \in SUBSET Users \ {{}}, n \in 1..MaxIngests : Ingested(U, n) /\ Versioned(U, n)
  BY IngestIs DEF UnitMemory
<1>2. PICK U \in SUBSET Users \ {{}}, n \in 1..MaxIngests : Ingested(U, n) /\ Versioned(U, n)
  BY <1>1
<1>3. UNCHANGED <<corpora, cache, inflight, running, built, disk, warming, req, gone>>
  BY <1>2 DEF Ingested
<1>4. ASSUME NEW u \in U
      PROVE  /\ u \in Users /\ scopeVersion[u] = 0 /\ scopeVersion'[u] = 1
             /\ DocsOf(u)' # {}
  <2>1. u \in Users /\ u \in Scopes
    BY DEF Scopes
  <2>2. scopeVersion'[u] = scopeVersion[u] + 1 /\ scopeVersion[u] \in Nat
    BY <1>2, <2>1, Bounds DEF Ingested, Versioned
  <2>3. scopeVersion'[u] <= 1
    BY <2>1 DEF PerUnit
  <2>4. <<n, u>> \in docs' /\ <<n, u>>[2] = u
    BY <1>2 DEF Ingested
  <2>5. DocsOf(u)' # {}
    BY <2>4 DEF DocsOf
  <2> QED BY <2>1, <2>2, <2>3, <2>5
<1>5. ASSUME NEW u \in Users, u \notin U
      PROVE  scopeVersion'[u] = scopeVersion[u] /\ DocsOf(u)' = DocsOf(u)
  <2>1. u \in Scopes /\ u # All
    BY Bounds DEF Scopes
  <2>2. scopeVersion'[u] = scopeVersion[u]
    BY <1>2, <1>5, <2>1 DEF Ingested
  <2> QED BY <1>2, <2>1, <2>2 DEF Versioned
<1>6. UnitMemory'
  BY <1>1, <1>3, <1>4, <1>5 DEF UnitMemory
<1>7. ASSUME NEW s, NEW v, NEW src, Unit(s, v, src) PROVE Unit(s, v, src)'
  <2>1. s \notin U
    BY <1>4, <1>7 DEF Unit
  <2> QED BY <1>5, <1>7, <2>1 DEF Unit
<1>8. UnitCaches' /\ UnitFiles'
  BY <1>3, <1>7 DEF UnitCaches, UnitFiles
<1>9. UnitBuilds'
  BY <1>3, <1>7 DEF UnitBuilds, SingleFlight, NoDoubleBuild
<1>10. ASSUME NEW r \in Reqs PROVE UnitQuery(req[r])'
  BY <1>3, <1>7 DEF UnitQuery
<1> QED BY <1>1, <1>6, <1>8, <1>9, <1>10

\* The getters launch what has no file yet, and load what has one.
LEMMA UnitGetters ==
  ASSUME UnitInv, Active \subseteq DiskKinds, NEW K \in SUBSET Active, NEW s \in Users,
         NEW corpus \in SUBSET Doc, corpus = DocsOf(s), corpus # {}, NEW w \in Reqs \cup Task,
         Getters(K, s, corpus, w), UNCHANGED <<docs, scopeVersion, built, disk>>
  PROVE  /\ cache' \in [Kinds -> Seq(Entry)] /\ running' \subseteq Build /\ inflight' \subseteq Build
         /\ UnitBuilds' /\ UnitFiles'
         /\ \A k \in Kinds : \A e \in Range(cache'[k]) : Unit(e.scope, e.version, e.src)'
         /\ Joined(K, s, corpus, w) \subseteq Build
<1> DEFINE new == Launches(K, s, corpus, w)
<1>0. TypeOK
  BY DEF UnitInv
<1>1. K \in SUBSET Kinds /\ s \in Scopes /\ DiskKinds \subseteq Kinds
  BY Bounds DEF Scopes, DiskKinds, Kinds
<1>a. /\ running' = running \cup new /\ inflight' = inflight \cup new
      /\ cache' \in [Kinds -> Seq(Entry)] /\ running' \subseteq Build /\ inflight' \subseteq Build
  BY <1>0, <1>1, GettersTyped
<1>b. \A k \in Kinds : \A e \in Range(cache'[k]) :
           \/ e \in Range(cache[k])
           \/ /\ e.file /\ k \in K /\ k \in DiskKinds
              /\ e.scope = s /\ e.version = scopeVersion[s] /\ e.src = disk[k][s] /\ e.src # {}
  <2> HIDE DEF new
  <2> QED BY <1>0, <1>1, GettersTyped
<1>2. /\ running' = running \cup new /\ inflight' = inflight \cup new
      /\ cache' \in [Kinds -> Seq(Entry)] /\ running' \subseteq Build /\ inflight' \subseteq Build
      /\ \A k \in Kinds : \A e \in Range(cache'[k]) :
           \/ e \in Range(cache[k])
           \/ /\ e.file /\ k \in K /\ k \in DiskKinds
              /\ e.scope = s /\ e.version = scopeVersion[s] /\ e.src = disk[k][s] /\ e.src # {}
  BY <1>a, <1>b
<1> USE DEF UnitInv
<1>3. \A b \in new : /\ b \in Build /\ b.kind \in K /\ b.scope = s /\ b.version = scopeVersion[s]
                     /\ b.src = corpus /\ b.payer = w
                     /\ Absent(b.kind, s) /\ ~OnDisk(b.kind, s)
  BY <1>1, LaunchesAre
<1> HIDE DEF new
<1>4. scopeVersion[s] = 1 /\ Unit(s, 1, corpus)
  BY DEF UnitMemory, Unit
<1>5. /\ \A a, v, src : Unit(a, v, src)' <=> Unit(a, v, src)
  BY UnitStays
<1>6. \A k \in Kinds : \A e \in Range(cache'[k]) : Unit(e.scope, e.version, e.src)'
  <2> SUFFICES ASSUME NEW k \in Kinds, NEW e \in Range(cache'[k]) PROVE Unit(e.scope, e.version, e.src)
    BY <1>5
  <2>1. CASE e \in Range(cache[k])
    BY <2>1 DEF UnitCaches
  <2>2. CASE k \in DiskKinds /\ e.scope = s /\ e.version = scopeVersion[s] /\ e.src = disk[k][s] /\ e.src # {}
    BY <1>1, <1>4, <2>2 DEF UnitFiles
  <2> QED BY <1>2, <2>1, <2>2
<1>7. \A b \in new : Unit(b.scope, b.version, b.src) /\ b.kind \in Active /\ disk[b.kind][b.scope] = {}
  BY <1>3, <1>4 DEF OnDisk
<1>8. ASSUME NEW b \in new, NEW c \in running, b.kind = c.kind, b.scope = c.scope, b.version = c.version
      PROVE  FALSE
  <2>1. c \in inflight
    BY DEF UnitBuilds
  <2>2. c \in Slot(b.kind, s)
    BY <1>3, <1>8, <2>1 DEF Slot
  <2> QED BY <1>3, <2>2 DEF Absent
<1>9. SingleFlight'
  <2> SUFFICES ASSUME NEW b \in running', NEW c \in running', b.kind = c.kind, b.scope = c.scope,
                      b.version = c.version
               PROVE  b = c
    BY DEF SingleFlight
  <2>1. CASE b \in running /\ c \in running
    BY <2>1 DEF UnitBuilds, SingleFlight
  <2>2. CASE b \in new /\ c \in running
    BY <1>8, <2>2
  <2>3. CASE b \in running /\ c \in new
    BY <1>8, <2>3
  <2>4. CASE b \in new /\ c \in new
    <3>1. b \in Build /\ c \in Build /\ b.src = c.src /\ b.payer = c.payer
      BY <1>3, <2>4
    <3> QED BY <3>1 DEF Build
  <2> QED BY <1>2, <2>1, <2>2, <2>3, <2>4
<1>10. UnitBuilds'
  <2>1. running' = inflight'
    BY <1>2 DEF UnitBuilds
  <2>2. \A b \in running' \cup built' : Unit(b.scope, b.version, b.src)' /\ b.kind \in Active
    BY <1>2, <1>5, <1>7 DEF UnitBuilds
  <2>3. /\ \A b \in running' : disk'[b.kind][b.scope] = {}
        /\ \A b \in built' : disk'[b.kind][b.scope] # {}
    BY <1>2, <1>7 DEF UnitBuilds
  <2>4. NoDoubleBuild'
    BY DEF UnitBuilds, NoDoubleBuild
  <2> QED BY <1>9, <2>1, <2>2, <2>3, <2>4 DEF UnitBuilds
<1>11. UnitFiles'
  BY <1>5 DEF UnitFiles
<1>12. Joined(K, s, corpus, w) \subseteq Build
  BY <1>1, <1>3 DEF Joined, new, Slot, TypeOK
<1> QED BY <1>2, <1>6, <1>10, <1>11, <1>12

LEMMA UnitCorpora ==
  ASSUME UnitInv
  PROVE  /\ CorporaCurrent
         /\ \A s \in Users : corpora' = CorporaAfter(s) /\ UNCHANGED <<docs, scopeVersion>> =>
               /\ corpora' \in Seq(CorpusEntry)
               /\ \A e \in Range(corpora') : Unit(e.scope, e.version, e.src)'
<1> USE DEF UnitInv
<1>1. CorporaCurrent
  <2>1. \A e \in Range(corpora) : Unit(e.scope, e.version, e.src)
    BY DEF UnitCaches
  <2>2. \A s, v, src : Unit(s, v, src) => v = 1 /\ v = scopeVersion[s] /\ src = DocsOf(s) /\ 1 <= 1
    BY DEF Unit
  <2> QED BY <2>1, <2>2 DEF CorporaCurrent
<1>2. ASSUME NEW s \in Users, corpora' = CorporaAfter(s), UNCHANGED <<docs, scopeVersion>>
      PROVE  /\ corpora' \in Seq(CorpusEntry)
             /\ \A e \in Range(corpora') : Unit(e.scope, e.version, e.src)'
  <2>1. s \in Scopes
    BY DEF Scopes
  <2>2. /\ corpora' \in Seq(CorpusEntry)
        /\ \A x \in Range(corpora') :
              \/ x \in Range(corpora)
              \/ x.scope = s /\ x.version = scopeVersion[s] /\ x.src = DocsOf(s) /\ DocsOf(s) # {}
    BY <1>2, <2>1, CorporaKeep DEF TypeOK
  <2>3. DocsOf(s) # {} => Unit(s, scopeVersion[s], DocsOf(s))
    BY DEF UnitMemory, Unit
  <2>4. \A a, v, src : Unit(a, v, src)' <=> Unit(a, v, src)
    BY <1>2, UnitStays
  <2> QED BY <2>2, <2>3, <2>4 DEF UnitCaches
<1> QED BY <1>1, <1>2

LEMMA UnitPrewarmKeeps ==
  ASSUME UnitInv, Active \subseteq DiskKinds, PrewarmScope PROVE UnitInv'
<1> USE DEF UnitInv
<1>1. PICK t \in pending, s \in Users, corpus \in SUBSET Doc : Prewarmed(t, s, corpus)
  BY UnitCorpora, PrewarmIs
<1>2. /\ corpus = DocsOf(s) /\ pending' = pending \ {t} /\ corpora' = CorporaAfter(s)
      /\ UNCHANGED <<docs, scopeVersion, built, disk, req, gone, count>>
  BY <1>1 DEF Prewarmed
<1>3. /\ corpora' \in Seq(CorpusEntry)
      /\ \A e \in Range(corpora') : Unit(e.scope, e.version, e.src)'
  BY <1>2, UnitCorpora
<1>4. /\ \A a, v, src : Unit(a, v, src)' <=> Unit(a, v, src)
      /\ \A q : UnitQuery(q)' <=> UnitQuery(q)
      /\ UnitMemory'
  BY <1>2, UnitStays
<1>5. /\ cache' \in [Kinds -> Seq(Entry)] /\ running' \subseteq Build /\ inflight' \subseteq Build
      /\ UnitBuilds' /\ UnitFiles'
      /\ \A k \in Kinds : \A e \in Range(cache'[k]) : Unit(e.scope, e.version, e.src)'
      /\ \A w \in warming' : w.task \in Task /\ w.builds \subseteq Build
  <2>1. CASE corpus = {}
    <3>1. UNCHANGED <<cache, inflight, running, warming>>
      BY <1>1, <2>1 DEF Prewarmed
    <3>2. UnitBuilds'
      BY <1>2, <1>4, <3>1 DEF UnitBuilds, SingleFlight, NoDoubleBuild
    <3>3. UnitFiles'
      BY <1>2, <1>4 DEF UnitFiles
    <3> QED BY <1>4, <3>1, <3>2, <3>3 DEF TypeOK, UnitCaches
  <2>2. CASE corpus # {}
    <3>1. /\ Getters(Active, s, corpus, t)
          /\ warming' = warming \cup {[task |-> t, builds |-> Joined(Active, s, corpus, t)]}
      BY <1>1, <2>2 DEF Prewarmed
    <3>2. t \in Task /\ t \in Reqs \cup Task /\ Active \in SUBSET Active
      BY <1>1 DEF TypeOK
    <3>3. /\ cache' \in [Kinds -> Seq(Entry)] /\ running' \subseteq Build /\ inflight' \subseteq Build
          /\ UnitBuilds' /\ UnitFiles'
          /\ \A k \in Kinds : \A e \in Range(cache'[k]) : Unit(e.scope, e.version, e.src)'
          /\ Joined(Active, s, corpus, t) \subseteq Build
      BY <1>2, <2>2, <3>1, <3>2, UnitGetters
    <3>4. \A w \in warming' : w.task \in Task /\ w.builds \subseteq Build
      BY <3>1, <3>2, <3>3 DEF TypeOK
    <3> QED BY <3>3, <3>4
  <2> QED BY <2>1, <2>2
<1>6. TypeOK'
  BY <1>2, <1>3, <1>5 DEF TypeOK
<1>7. UnitCaches'
  BY <1>3, <1>5 DEF UnitCaches
<1> QED BY <1>2, <1>4, <1>5, <1>6, <1>7

\* When only a query changes, to one that holds its unit.
LEMMA UnitRequestKeeps ==
  ASSUME UnitInv, NEW r \in Reqs, NEW q \in Request, req' = [req EXCEPT ![r] = q], UnitQuery(q),
         UNCHANGED <<docs, scopeVersion, cache, inflight, running, built, disk, pending, warming,
                     gone, count>>,
         corpora' \in Seq(CorpusEntry), \A e \in Range(corpora') : Unit(e.scope, e.version, e.src)'
  PROVE  UnitInv'
<1> USE DEF UnitInv
<1>1. /\ \A a, v, src : Unit(a, v, src)' <=> Unit(a, v, src)
      /\ \A p : UnitQuery(p)' <=> UnitQuery(p)
      /\ UnitMemory'
  BY UnitStays
<1>2. req' \in [Reqs -> Request] /\ req'[r] = q /\ \A x \in Reqs : x # r => req'[x] = req[x]
  BY RequestPut
<1>3. TypeOK'
  BY <1>2 DEF TypeOK
<1>4. UnitCaches' /\ UnitFiles'
  BY <1>1 DEF UnitCaches, UnitFiles
<1>5. UnitBuilds'
  BY <1>1 DEF UnitBuilds, SingleFlight, NoDoubleBuild
<1>6. ASSUME NEW x \in Reqs PROVE UnitQuery(req[x])'
  <2>1. PICK p : p = req'[x]
    OBVIOUS
  <2>2. UnitQuery(p)
    BY <1>2, <2>1
  <2>3. UnitQuery(p)'
    BY <1>1, <2>2
  <2> QED BY <2>1, <2>3
<1> QED BY <1>1, <1>3, <1>4, <1>5, <1>6

LEMMA UnitRetrieveKeeps ==
  ASSUME UnitInv, PerUnit, NEW r \in Reqs, Retrieve(r) PROVE UnitInv'
<1> USE DEF UnitInv
<1>1. PICK s \in Scopes, plan \in Plans, corpus \in SUBSET Doc, q \in Request :
           /\ corpus = DocsOf(s) /\ corpora' = CorporaAfter(s)
           /\ q = Came(req[r], s, plan, corpus) /\ req' = [req EXCEPT ![r] = q]
  BY UnitCorpora, RetrieveIs
<1>2. UNCHANGED <<docs, scopeVersion, cache, inflight, running, built, disk, pending, warming,
                  gone, count>> /\ req[r].pc = "idle"
  BY DEF Retrieve
<1>3. PICK p \in Request : p = req[r] /\ p.pc = "idle" /\ UnitQuery(p)
  BY <1>2 DEF TypeOK
<1>4. /\ q.pc = IF corpus = {} THEN "done" ELSE "run"
      /\ q.scope = s /\ q.corpus = corpus /\ q.todo = plan /\ q.wait = p.wait
  BY <1>1, <1>3 DEF Came, Request
<1>5. s \in Users
  <2>1. req'[r] = q
    BY <1>1, RequestPut
  <2> QED BY <1>4, <2>1 DEF PerUnit
<1>6. corpora' \in Seq(CorpusEntry) /\ \A e \in Range(corpora') : Unit(e.scope, e.version, e.src)'
  BY <1>1, <1>2, <1>5, UnitCorpora
<1>7. corpus # {} => Unit(s, 1, corpus)
  BY <1>1, <1>5 DEF Unit, UnitMemory
<1>8. UnitQuery(q)
  BY <1>3, <1>4, <1>7, PlansAre DEF UnitQuery
<1> QED BY <1>1, <1>2, <1>6, <1>8, UnitRequestKeeps

LEMMA UnitAnswerKeeps == ASSUME UnitInv, NEW r \in Reqs, Answer(r) PROVE UnitInv'
<1> USE DEF UnitInv
<1>1. PICK q \in Request : q = req[r] /\ UnitQuery(q)
  BY DEF TypeOK
<1>2. PICK p \in Request : p = [q EXCEPT !.pc = "done"]
  BY DEF Request
<1>3. p.pc = "done" /\ p.wait = q.wait /\ p.todo = q.todo /\ q.pc = "run"
  BY <1>1, <1>2 DEF Request, Answer
<1>4. UnitQuery(p)
  BY <1>1, <1>3 DEF UnitQuery
<1>5. /\ UNCHANGED <<docs, scopeVersion, corpora, cache, inflight, running, built, disk, pending,
                     warming, gone, count>>
      /\ req' = [req EXCEPT ![r] = p]
  BY <1>1, <1>2 DEF Answer
<1>6. \A a, v, src : Unit(a, v, src)' <=> Unit(a, v, src)
  BY <1>5, UnitStays
<1>7. corpora' \in Seq(CorpusEntry) /\ \A e \in Range(corpora') : Unit(e.scope, e.version, e.src)'
  BY <1>5, <1>6 DEF TypeOK, UnitCaches
<1> QED BY <1>4, <1>5, <1>7, UnitRequestKeeps

LEMMA UnitGoesOn ==
  ASSUME NEW q \in Request, UnitQuery(q), q.todo # << >>, q.pc \in {"run", "wait"}, NEW G
  PROVE  UnitQuery(GoesOn(q, G)) /\ (q.pc = "run" => UnitQuery(Takes(q, G)))
<1>1. q.todo \in Seq(Kinds) /\ Range(Tail(q.todo)) \subseteq Active
  BY TailIn DEF Request, UnitQuery
<1>2. ASSUME NEW p, p.todo = Tail(q.todo), p.pc = "run", p.wait = NoBuild,
             p.scope = q.scope, p.corpus = q.corpus
      PROVE  UnitQuery(p)
  BY <1>1, <1>2 DEF UnitQuery
<1>3. UnitQuery(GoesOn(q, G))
  <2>1. PICK p : p = GoesOn(q, G)
    OBVIOUS
  <2>2. /\ p.todo = Tail(q.todo) /\ p.pc = "run" /\ p.wait = NoBuild
        /\ p.scope = q.scope /\ p.corpus = q.corpus
    BY <2>1 DEF GoesOn, Request
  <2> QED BY <1>2, <2>1, <2>2
<1>4. ASSUME q.pc = "run" PROVE UnitQuery(Takes(q, G))
  <2>1. PICK p : p = Takes(q, G)
    OBVIOUS
  <2>2. /\ p.todo = Tail(q.todo) /\ p.pc = "run" /\ p.wait = q.wait
        /\ p.scope = q.scope /\ p.corpus = q.corpus
    BY <1>4, <2>1 DEF Takes, Request
  <2>3. q.wait = NoBuild
    BY <1>4 DEF UnitQuery
  <2> QED BY <1>2, <2>1, <2>2, <2>3
<1> QED BY <1>3, <1>4

LEMMA UnitCallKeeps ==
  ASSUME UnitInv, Active \subseteq DiskKinds, NEW r \in Reqs, CallGetter(r) PROVE UnitInv'
<1> USE DEF UnitInv
<1>1. PICK q \in Request, p \in Request, k \in Kinds, s \in Scopes, corpus \in SUBSET Doc,
            G \in SUBSET [kind : Kinds, src : SUBSET Doc] :
           Called(r, q, p, k, s, corpus, G)
  BY CallIs
<1>2. /\ q = req[r] /\ q.pc = "run" /\ q.todo # << >> /\ k = Head(q.todo)
      /\ s = q.scope /\ corpus = q.corpus
      /\ Getters({k}, s, corpus, r) /\ req' = [req EXCEPT ![r] = p]
      /\ UNCHANGED <<docs, scopeVersion, corpora, built, disk, pending, warming, gone, count>>
      /\ (p = Takes(q, G) \/ \E b \in Joined({k}, s, corpus, r) : p = Waits(q, b))
  BY <1>1 DEF Called
<1>3. UnitQuery(q)
  BY <1>2
<1>4. s \in Users /\ corpus = DocsOf(s) /\ corpus # {} /\ k \in Active
  <2>1. q.todo \in Seq(Kinds)
    BY DEF Request
  <2>2. k \in Active
    BY <1>2, <1>3, <2>1, TailIn DEF UnitQuery
  <2> QED BY <1>2, <1>3, <2>2 DEF UnitQuery, Unit
<1>5. /\ cache' \in [Kinds -> Seq(Entry)] /\ running' \subseteq Build /\ inflight' \subseteq Build
      /\ UnitBuilds' /\ UnitFiles'
      /\ \A x \in Kinds : \A e \in Range(cache'[x]) : Unit(e.scope, e.version, e.src)'
      /\ Joined({k}, s, corpus, r) \subseteq Build
  <2>1. {k} \in SUBSET Active /\ r \in Reqs \cup Task
    BY <1>4
  <2> QED BY <1>2, <1>4, <2>1, UnitGetters
<1>6. /\ \A a, v, src : Unit(a, v, src)' <=> Unit(a, v, src)
      /\ \A x : UnitQuery(x)' <=> UnitQuery(x)
      /\ UnitMemory'
  BY <1>2, UnitStays
<1>7. UnitQuery(p)
  <2>1. ASSUME NEW b \in Joined({k}, s, corpus, r), p = Waits(q, b) PROVE UnitQuery(p)
    <3>1. p.pc = "wait" /\ p.todo = q.todo /\ p.scope = q.scope /\ p.corpus = q.corpus
      BY <2>1 DEF Waits, Request
    <3> QED BY <1>2, <1>3, <3>1 DEF UnitQuery
  <2>2. p = Takes(q, G) => UnitQuery(p)
    BY <1>2, <1>3, UnitGoesOn
  <2> QED BY <1>2, <2>1, <2>2
<1>8. req' \in [Reqs -> Request] /\ req'[r] = p /\ \A x \in Reqs : x # r => req'[x] = req[x]
  BY <1>2, RequestPut
<1>9. ASSUME NEW x \in Reqs PROVE UnitQuery(req[x])'
  <2>1. PICK y : y = req'[x]
    OBVIOUS
  <2>2. UnitQuery(y)
    BY <1>7, <1>8, <2>1
  <2> QED BY <1>6, <2>1, <2>2
<1>10. TypeOK'
  BY <1>2, <1>5, <1>8 DEF TypeOK
<1>11. UnitCaches'
  BY <1>2, <1>5, <1>6 DEF UnitCaches
<1> QED BY <1>5, <1>6, <1>9, <1>10, <1>11

\* A build ends: no other build of its artifact and unit runs or ever ended well.
LEMMA UnitEnds ==
  ASSUME UnitInv, NEW b \in running
  PROVE  /\ FreeSlot(b) = running \ {b} /\ b \in Build /\ b.kind \in Active
         /\ Unit(b.scope, b.version, b.src)
         /\ \A c \in running \ {b} : <<c.kind, c.scope>> # <<b.kind, b.scope>>
         /\ \A c \in built : <<c.kind, c.scope>> # <<b.kind, b.scope>>
<1> USE DEF UnitInv
<1>1. b \in Build /\ b.kind \in Active /\ Unit(b.scope, b.version, b.src)
  BY DEF TypeOK, UnitBuilds
<1>2. \A c \in running \cup built : c.version = 1
  BY DEF UnitBuilds, Unit
<1>3. \A c \in running \ {b} : <<c.kind, c.scope>> # <<b.kind, b.scope>>
  BY <1>2 DEF UnitBuilds, SingleFlight
<1>4. \A c \in built : <<c.kind, c.scope>> # <<b.kind, b.scope>>
  BY DEF UnitBuilds
<1>5. FreeSlot(b) = running \ {b}
  BY <1>3 DEF FreeSlot, UnitBuilds
<1> QED BY <1>1, <1>3, <1>4, <1>5

LEMMA UnitWaiters ==
  ASSUME UnitInv, NEW b \in running, NEW r \in Reqs, req[r].wait = b
  PROVE  req[r].pc = "wait" /\ req[r].todo # << >>
<1>1. UnitQuery(req[r])
  BY DEF UnitInv
<1>2. b # NoBuild
  BY NoBuildApart DEF UnitInv, TypeOK
<1> QED BY <1>1, <1>2 DEF UnitQuery

LEMMA UnitDoneKeeps ==
  ASSUME UnitInv, Active \subseteq DiskKinds, BuildDone PROVE UnitInv'
<1> USE DEF UnitInv
<1>1. PICK b \in running :
        /\ running' = running \ {b} /\ Filed(b)
        /\ inflight' = FreeSlot(b)
        /\ cache' = [cache EXCEPT ![b.kind] =
              Store(b.kind, [scope |-> b.scope, version |-> b.version, src |-> b.src, file |-> FALSE])]
        /\ req' = [r \in Reqs |->
             IF req[r].wait # b THEN req[r]
             ELSE [req[r] EXCEPT !.pc = "run", !.wait = NoBuild, !.todo = Tail(@),
                                 !.got = @ \cup {[kind |-> b.kind, src |-> b.src]}]]
        /\ UNCHANGED <<docs, scopeVersion, corpora, pending, warming, gone>>
  BY DEF BuildDone
<1>2. /\ FreeSlot(b) = running \ {b} /\ b \in Build /\ b.kind \in Active
      /\ Unit(b.scope, b.version, b.src)
      /\ \A c \in running \ {b} : <<c.kind, c.scope>> # <<b.kind, b.scope>>
      /\ \A c \in built : <<c.kind, c.scope>> # <<b.kind, b.scope>>
  BY UnitEnds
<1>3. b.kind \in DiskKinds /\ b.kind \in Kinds /\ b.scope \in Scopes /\ b.version \in 0..MaxIngests
      /\ b.src \in SUBSET Doc /\ b.src # {} /\ b.version = 1
  BY <1>2 DEF Build, Unit
<1>4. /\ \A a, v, src : Unit(a, v, src)' <=> Unit(a, v, src)
      /\ \A x : UnitQuery(x)' <=> UnitQuery(x)
      /\ UnitMemory'
  <2>1. count'.ingests = count.ingests
    BY <1>1, <1>2, FiledKeeps
  <2> QED BY <1>1, <2>1, UnitStays
<1>5. PICK e \in Entry :
         e = [scope |-> b.scope, version |-> b.version, src |-> b.src, file |-> FALSE]
  BY <1>3 DEF Entry
<1>6. ASSUME NEW k \in Kinds
      PROVE  /\ cache'[k] \in Seq(Entry)
             /\ \A x \in Range(cache'[k]) : x = e \/ x \in Range(cache[k])
  <2>1. cache[k] \in Seq(Entry) /\ cache \in [Kinds -> Seq(Entry)]
    BY DEF TypeOK
  <2>2. cache'[k] = IF k = b.kind THEN Store(k, e) ELSE cache[k]
    BY <1>1, <1>3, <1>5, <2>1
  <2> QED BY <2>1, <2>2, StoreKeeps
<1>7. cache' \in [Kinds -> Seq(Entry)]
  <2>1. cache \in [Kinds -> Seq(Entry)]
    BY DEF TypeOK
  <2>2. DOMAIN cache' = Kinds /\ cache' = [k \in Kinds |-> cache'[k]]
    BY <1>1, <2>1
  <2> QED BY <1>6, <2>2
<1>8. /\ disk' \in [DiskKinds -> [Scopes -> SUBSET Doc]]
      /\ disk'[b.kind][b.scope] = b.src \/ disk'[b.kind][b.scope] = disk[b.kind][b.scope]
      /\ b \in built' => disk'[b.kind][b.scope] = b.src
      /\ built' \subseteq built \cup {b}
      /\ \A k \in DiskKinds, s \in Scopes : <<k, s>> # <<b.kind, b.scope>> => disk'[k][s] = disk[k][s]
  <2>1. b \notin built /\ b \in Build /\ TypeOK /\ Filed(b)
    BY <1>1, <1>2
  <2>2. /\ disk' \in [DiskKinds -> [Scopes -> SUBSET Doc]] /\ built' \subseteq built \cup {b}
        /\ \A k \in DiskKinds, s \in Scopes :
              \/ disk'[k][s] = disk[k][s] /\ (b \in built' => b \in built \/ <<k, s>> # <<b.kind, b.scope>>)
              \/ disk'[k][s] = b.src /\ <<k, s>> = <<b.kind, b.scope>>
    BY ONLY <2>1, FiledKeeps
  <2>3. \/ disk'[b.kind][b.scope] = disk[b.kind][b.scope] /\ b \notin built'
        \/ disk'[b.kind][b.scope] = b.src
    BY <1>3, <2>1, <2>2
  <2>4. ASSUME NEW k \in DiskKinds, NEW s \in Scopes, <<k, s>> # <<b.kind, b.scope>>
        PROVE  disk'[k][s] = disk[k][s]
    BY <2>2, <2>4
  <2> QED BY <2>2, <2>3, <2>4
<1>9. \A c \in running \cup built : c.kind \in DiskKinds /\ c.scope \in Scopes
  BY DEF UnitBuilds, TypeOK, Build
<1>10. UnitBuilds'
  <2>1. running' = inflight' /\ SingleFlight'
    <3>1. running' = inflight' /\ running' \subseteq running
      BY <1>1, <1>2
    <3> QED BY <3>1 DEF UnitBuilds, SingleFlight
  <2>2. \A c \in running' \cup built' : Unit(c.scope, c.version, c.src)' /\ c.kind \in Active
    BY <1>1, <1>4, <1>2, <1>8 DEF UnitBuilds
  <2>3. ASSUME NEW c \in running' PROVE disk'[c.kind][c.scope] = {}
    <3>1. c \in running /\ <<c.kind, c.scope>> # <<b.kind, b.scope>>
      BY <1>1, <1>2
    <3>2. disk[c.kind][c.scope] = {}
      BY <3>1 DEF UnitBuilds
    <3> QED BY <1>8, <1>9, <3>1, <3>2
  <2>4. ASSUME NEW c \in built' PROVE disk'[c.kind][c.scope] # {}
    <3>1. CASE c = b
      BY <1>3, <1>8, <2>4, <3>1
    <3>2. CASE c \in built
      <4>1. disk[c.kind][c.scope] # {} /\ <<c.kind, c.scope>> # <<b.kind, b.scope>>
        BY <1>2, <3>2 DEF UnitBuilds
      <4> QED BY <1>8, <1>9, <3>2, <4>1
    <3> QED BY <1>8, <2>4, <3>1, <3>2
  <2>5. NoDoubleBuild'
    BY <1>8, <1>2 DEF UnitBuilds, NoDoubleBuild
  <2> QED BY <2>1, <2>2, <2>3, <2>4, <2>5 DEF UnitBuilds
<1>11. UnitFiles'
  <2>1. ASSUME NEW k \in DiskKinds, NEW s \in Scopes, disk'[k][s] # {} PROVE Unit(s, 1, disk[k][s])'
    <3>1. PICK f : f = disk'[k][s]
      OBVIOUS
    <3>2. CASE <<k, s>> = <<b.kind, b.scope>>
      <4>1. s = b.scope /\ (f = b.src \/ f = disk[k][s])
        BY <1>8, <3>1, <3>2
      <4>2. Unit(s, 1, f)
        BY <1>2, <1>3, <2>1, <3>1, <4>1 DEF UnitFiles
      <4>3. Unit(s, 1, f)'
        BY <1>4, <4>2
      <4> QED BY <3>1, <4>3
    <3>3. CASE <<k, s>> # <<b.kind, b.scope>>
      <4>1. f = disk[k][s]
        BY <1>8, <3>1, <3>3
      <4>2. Unit(s, 1, f)
        BY <2>1, <3>1, <4>1 DEF UnitFiles
      <4>3. Unit(s, 1, f)'
        BY <1>4, <4>2
      <4> QED BY <3>1, <4>3
    <3> QED BY <3>2, <3>3
  <2> QED BY <2>1 DEF UnitFiles
<1>12. UnitCaches'
  <2>1. ASSUME NEW k \in Kinds, NEW x \in Range(cache'[k]) PROVE Unit(x.scope, x.version, x.src)
    <3>1. x = e \/ x \in Range(cache[k])
      BY <1>6, <2>1
    <3> QED BY <1>2, <1>5, <3>1 DEF UnitCaches
  <2> QED BY <1>1, <1>4, <2>1 DEF UnitCaches
<1>13. PICK G \in SUBSET [kind : Kinds, src : SUBSET Doc] : G = {[kind |-> b.kind, src |-> b.src]}
  <2>1. [kind |-> b.kind, src |-> b.src] \in [kind : Kinds, src : SUBSET Doc]
    BY <1>3
  <2> QED BY <2>1
<1>14. ASSUME NEW r \in Reqs PROVE req'[r] \in Request /\ UnitQuery(req[r])'
  <2>1. PICK q \in Request : q = req[r] /\ UnitQuery(q)
    BY DEF TypeOK
  <2>2. PICK p : p = req'[r]
    OBVIOUS
  <2>3. CASE q.wait # b
    <3>1. p = q
      BY <1>1, <2>1, <2>2, <2>3
    <3> QED BY <1>4, <2>1, <2>2, <3>1
  <2>4. CASE q.wait = b
    <3>1. p = GoesOn(q, G)
      BY <1>1, <1>13, <2>1, <2>2, <2>4 DEF GoesOn
    <3>2. q.todo # << >> /\ q.pc = "wait"
      BY <2>1, <2>4, UnitWaiters
    <3>3. p \in Request /\ UnitQuery(p)
      BY <2>1, <3>1, <3>2, GoesOnKeeps, UnitGoesOn
    <3> QED BY <1>4, <2>2, <3>3
  <2> QED BY <2>3, <2>4
<1>15. req' \in [Reqs -> Request]
  BY <1>1, <1>14
<1>16. TypeOK'
  <2>1. running' \subseteq Build /\ inflight' \subseteq Build
    BY <1>1, <1>2 DEF TypeOK
  <2>2. /\ built' \subseteq Build
        /\ count' \in [ingests : 0..MaxIngests, resets : 0..MaxResets, failures : 0..MaxFailures]
    BY <1>1, <1>2, FiledKeeps
  <2> QED BY <1>1, <1>7, <1>8, <1>15, <2>2, <2>1 DEF TypeOK
<1> QED BY <1>4, <1>10, <1>11, <1>12, <1>14, <1>16

LEMMA UnitFailsKeeps ==
  ASSUME UnitInv, Active \subseteq DiskKinds, BuildFails PROVE UnitInv'
<1> USE DEF UnitInv
<1>1. PICK b \in running :
        /\ running' = running \ {b} /\ inflight' = FreeSlot(b)
        /\ count' = [count EXCEPT !.failures = @ + 1] /\ count.failures < MaxFailures
        /\ req' = [r \in Reqs |->
             IF req[r].wait # b THEN req[r]
             ELSE IF b.kind \in DiskKinds
                  THEN [req[r] EXCEPT !.pc = "run", !.wait = NoBuild, !.todo = Tail(@)]
                  ELSE [req[r] EXCEPT !.pc = "failed", !.wait = NoBuild]]
        /\ UNCHANGED <<docs, scopeVersion, corpora, cache, built, disk, pending, warming, gone>>
  BY DEF BuildFails
<1>2. FreeSlot(b) = running \ {b} /\ b \in Build /\ b.kind \in Active
  BY UnitEnds
<1>3. /\ count' \in [ingests : 0..MaxIngests, resets : 0..MaxResets, failures : 0..MaxFailures]
      /\ count'.ingests = count.ingests
  <2>1. PICK c \in [ingests : 0..MaxIngests, resets : 0..MaxResets, failures : 0..MaxFailures] :
           c = count /\ c.failures < MaxFailures
    BY <1>1 DEF TypeOK
  <2>2. /\ [c EXCEPT !.failures = @ + 1] \in
             [ingests : 0..MaxIngests, resets : 0..MaxResets, failures : 0..MaxFailures]
        /\ [c EXCEPT !.failures = @ + 1].ingests = c.ingests
    BY <2>1, Bounds
  <2> QED BY <1>1, <2>1, <2>2
<1>4. /\ \A a, v, src : Unit(a, v, src)' <=> Unit(a, v, src)
      /\ \A x : UnitQuery(x)' <=> UnitQuery(x)
      /\ UnitMemory'
  BY <1>1, <1>3, UnitStays
<1>5. UnitCaches' /\ UnitFiles'
  BY <1>1, <1>4 DEF UnitCaches, UnitFiles
<1>6. UnitBuilds'
  <2>1. running' = inflight' /\ running' \subseteq running /\ built' = built /\ disk' = disk
    BY <1>1, <1>2
  <2>2. SingleFlight' /\ NoDoubleBuild'
    BY <2>1 DEF UnitBuilds, SingleFlight, NoDoubleBuild
  <2>3. /\ \A c \in running' \cup built' : Unit(c.scope, c.version, c.src)' /\ c.kind \in Active
        /\ \A c \in running' : disk'[c.kind][c.scope] = {}
        /\ \A c \in built' : disk'[c.kind][c.scope] # {}
    BY <1>4, <2>1 DEF UnitBuilds
  <2> QED BY <2>1, <2>2, <2>3 DEF UnitBuilds
<1>7. ASSUME NEW r \in Reqs PROVE req'[r] \in Request /\ UnitQuery(req[r])'
  <2>1. PICK q \in Request : q = req[r] /\ UnitQuery(q)
    BY DEF TypeOK
  <2>2. PICK p : p = req'[r]
    OBVIOUS
  <2>3. CASE q.wait # b
    <3>1. p = q
      BY <1>1, <2>1, <2>2, <2>3
    <3> QED BY <1>4, <2>1, <2>2, <3>1
  <2>4. CASE q.wait = b
    <3>1. p = GoesOn(q, {})
      <4>1. p = [q EXCEPT !.pc = "run", !.wait = NoBuild, !.todo = Tail(@)]
        BY <1>1, <1>2, <2>1, <2>2, <2>4
      <4>2. q.got \cup {} = q.got
        OBVIOUS
      <4> QED BY <4>1, <4>2 DEF GoesOn, Request
    <3>2. q.todo # << >> /\ q.pc = "wait"
      BY <2>1, <2>4, UnitWaiters
    <3>3. {} \in SUBSET [kind : Kinds, src : SUBSET Doc]
      OBVIOUS
    <3>4. p \in Request /\ UnitQuery(p)
      BY <2>1, <3>1, <3>2, <3>3, GoesOnKeeps, UnitGoesOn
    <3> QED BY <1>4, <2>2, <3>4
  <2> QED BY <2>3, <2>4
<1>8. req' \in [Reqs -> Request]
  BY <1>1, <1>7
<1>9. TypeOK'
  BY <1>1, <1>2, <1>3, <1>8 DEF TypeOK
<1> QED BY <1>4, <1>5, <1>6, <1>7, <1>9

LEMMA UnitInit_Holds == ASSUME Init PROVE UnitInv
<1>1. AmbInv
  BY AmbInit_Holds
<1>2. /\ docs = {} /\ gone = {} /\ corpora = << >> /\ running = {} /\ inflight = {} /\ built = {}
      /\ \A k \in Kinds : cache[k] = << >>
      /\ \A s \in Scopes : scopeVersion[s] = 0
      /\ \A k \in DiskKinds, s \in Scopes : disk[k][s] = {}
      /\ \A r \in Reqs : req[r].pc = "idle" /\ req[r].todo = << >> /\ req[r].wait = NoBuild
  BY DEF Init, Empty
<1>3. \A u \in Users : u \in Scopes /\ DocsOf(u) = {}
  BY <1>2 DEF Scopes, DocsOf
<1>4. UnitMemory
  BY <1>1, <1>2, <1>3 DEF UnitMemory, AmbInv
<1>5. UnitCaches /\ UnitBuilds /\ UnitFiles
  BY <1>2 DEF UnitCaches, UnitBuilds, UnitFiles, Range, SingleFlight, NoDoubleBuild
<1>6. \A r \in Reqs : UnitQuery(req[r])
  BY <1>2 DEF UnitQuery, Range
<1> QED BY <1>1, <1>4, <1>5, <1>6 DEF UnitInv, AmbInv

LEMMA UnitNext_Keeps ==
  ASSUME UnitInv, Active \subseteq DiskKinds, MaxResets = 0, [Next /\ PerUnit]_vars
  PROVE  UnitInv'
<1>1. CASE UNCHANGED vars
  <2> USE <1>1 DEF vars, UnitInv
  <2>1. /\ \A a, v, src : Unit(a, v, src)' <=> Unit(a, v, src)
        /\ \A x : UnitQuery(x)' <=> UnitQuery(x)
        /\ UnitMemory'
    BY UnitStays
  <2>2. TypeOK'
    BY DEF TypeOK
  <2>3. UnitCaches' /\ UnitFiles' /\ UnitBuilds'
    BY <2>1 DEF UnitCaches, UnitFiles, UnitBuilds, SingleFlight, NoDoubleBuild
  <2>4. ASSUME NEW x \in Reqs PROVE UnitQuery(req[x])'
    <3>1. PICK p : p = req[x] /\ p = req'[x]
      OBVIOUS
    <3> QED BY <2>1, <3>1
  <2> QED BY <2>1, <2>2, <2>3, <2>4
<1>2. CASE Reset
  <2>1. count.resets \in 0..0 /\ count.resets < 0
    BY <1>2 DEF UnitInv, TypeOK, Reset
  <2> QED BY <2>1
<1>3. CASE Rest
  BY <1>1, <1>3 DEF Rest
<1> QED BY <1>1, <1>2, <1>3, UnitIngestKeeps, UnitRetrieveKeeps, UnitPrewarmKeeps, UnitCallKeeps,
           UnitAnswerKeeps, UnitDoneKeeps, UnitFailsKeeps DEF Next, Arrive, Continue

\* Under the BEAM harness, which ingests every unit once and asks of one unit at a time,
\* an artifact kept in a file is built once for its unit, and what is loaded from the file
\* is of the unit's documents (amb-fact-registry.ts:100-160, amb-preference-profile.ts:99-160).
THEOREM ArtifactsAreSound ==
  ASSUME Active \subseteq DiskKinds, MaxResets = 0
  PROVE  SpecPerUnit => []ArtifactsSound
<1>1. UnitInv => ArtifactsSound
  <2> SUFFICES ASSUME UnitInv PROVE ArtifactsSound
    OBVIOUS
  <2>1. \A k \in Kinds : \A e \in Range(cache[k]) : Unit(e.scope, e.version, e.src)
    BY DEF UnitInv, UnitCaches
  <2>2. LoadedIsFresh
    BY <2>1 DEF LoadedIsFresh, Unit
  <2> QED BY <2>2 DEF UnitInv, UnitBuilds, ArtifactsSound
<1> QED BY <1>1, UnitInit_Holds, UnitNext_Keeps, PTL DEF SpecPerUnit
=============================================================================
