------------------------------- MODULE Citations -------------------------------
(***************************************************************************)
(* What the model calls of ask() show and what may be cited: the ranked    *)
(* event index of a probe and the verdicts of one or of many shards        *)
(* (probe.ts), the event digest and the grounded claims of a recall        *)
(* (recall.ts, digestSelection.ts), the packet (synthesize.ts), and the    *)
(* forgiving reading of replies (providerJson.ts, schemas.ts).             *)
(*                                                                         *)
(* Shards and event ids are numbers; ids repeat in every shard.  A text is *)
(* the set of its terms and its fragments: a length and a score each.      *)
(***************************************************************************)
EXTENDS Selection, SequencesExt

CONSTANTS
    CtWorlds,       \* bound: shards, their events, budgets and switches explored
    CtSolos,        \* bound: replies to a probe of one shard
    CtBatches,      \* bound: replies to a probe of several
    CtRecalls,      \* bound: replies to a recall
    CtPackets,      \* bound: replies to the synthesis
    CtTerms,        \* the terms of texts and tags
    CtQuery,        \* the terms of the question
    TagCost,        \* what the tags add to a line of the index
    PerEvent,       \* perEventChars
    AnchorScore     \* the score of a fragment with a citation in it

ASSUME CitationConstants ==
    /\ {TagCost, PerEvent, AnchorScore} \subseteq Nat /\ IsFiniteSet(CtQuery)

CtFragment == [len : Nat, score : 0..AnchorScore]
CtEvent == [id : Nat, text : SUBSET CtTerms, tags : SUBSET CtTerms, head : Nat, frags : Seq(CtFragment)]
CtVerdict == [shard : Nat, knows : BOOLEAN, ids : Seq(Nat)]
CtClaim(Refs) == [good : BOOLEAN, support : Seq(Refs)]

\* A world holds the events of the shards asked.  Replies are well formed once parsed;
\* what they name is free.  No fragment outranks one with a citation in it.
ASSUME CitationInputs ==
    /\ \A w \in CtWorlds :
         /\ DOMAIN w.events \subseteq Nat /\ w.shards \in Seq(DOMAIN w.events)
         /\ \A s \in DOMAIN w.events : w.events[s] \in Seq(CtEvent)
         /\ {w.indexBudget, w.digestBudget} \subseteq Nat /\ w.signals \in BOOLEAN
    /\ CtSolos \subseteq [parts : Seq([valid : BOOLEAN, knows : BOOLEAN, ids : Seq(Nat)])]
    /\ CtBatches \subseteq [parts : Seq([valid : BOOLEAN, verdicts : Seq(CtVerdict)])]
    /\ CtRecalls \subseteq [parts : Seq([valid : BOOLEAN, echo : Nat, claims : Seq(CtClaim(Nat))])]
    /\ CtPackets \subseteq [parts : Seq([valid : BOOLEAN, claims : Seq(CtClaim(Nat \X Nat))])]

VARIABLES
    ctWorld,    \* shards in requested order, events of each, budgets, switches
    ctStage,
    ctIndex,    \* the ids a probe sees, per shard
    ctHeard,    \* history: the replies taken as data
    ctVerdicts, \* the probe results, in order
    ctDigest,   \* the ids a recall sees, per shard
    ctClaims,   \* the recall results, in order
    ctPacket    \* the claims of the packet: sets of sources <<shard, id>>

citationVars == <<ctWorld, ctStage, ctIndex, ctHeard, ctVerdicts, ctDigest, ctClaims, ctPacket>>

CtBlank == /\ ctIndex = << >> /\ ctHeard = << >> /\ ctVerdicts = << >> /\ ctDigest = << >>
           /\ ctClaims = << >> /\ ctPacket = << >>
CtIdle == ctWorld = << >> /\ ctStage = "idle" /\ CtBlank
CtInit == ctWorld \in CtWorlds /\ ctStage = "asked" /\ CtBlank

-----------------------------------------------------------------------------
ShardEvents(s) == ctWorld.events[s]
EventIds(s) == {e.id : e \in ToSet(ShardEvents(s))}
EventOf(s, id) == CHOOSE e \in ToSet(ShardEvents(s)) : e.id = id
IdOrder(s) == [id \in EventIds(s) |-> id]

\* The ids that are of events of the shard.
OfShard(s, ids) == ItemsAt(ids, {i \in DOMAIN ids : ids[i] \in EventIds(s)})

\* All events carry the same tags: they tell nothing and are left out of the index.
UniformTags(s) ==
    Len(ShardEvents(s)) > 1 /\ \A d, e \in ToSet(ShardEvents(s)) : d.tags = e.tags

\* A tag that is asked for counts twice, a term of the text once.
Relevance(s) ==
    [id \in EventIds(s) |->
       LET e == EventOf(s, id)
       IN 2 * Cardinality(e.tags \cap CtQuery) + Cardinality(e.text \cap CtQuery)]

IndexLine(s) ==
    [id \in EventIds(s) |->
       LET e == EventOf(s, id)
       IN e.head + (IF e.tags # {} /\ ~UniformTags(s) THEN TagCost ELSE 0)]

\* Slip: the events are listed in the order of their ids.
CompactEventIndex_ById(s) ==
    PackToBudget(SetToSortSeq(EventIds(s), <), IndexLine(s), ctWorld.indexBudget, 0)

\* The most relevant events whose lines fit.
CompactEventIndex(s) ==
    PackToBudget(Ranked(EventIds(s), Relevance(s), IdOrder(s)), IndexLine(s), ctWorld.indexBudget, 0)

ShowIndex ==
    /\ ctStage = "asked"
    /\ ctStage' = "shown"
    /\ ctIndex' = [i \in DOMAIN ctWorld.shards |-> CompactEventIndex(ctWorld.shards[i])]
    /\ UNCHANGED <<ctWorld, ctHeard, ctVerdicts, ctDigest, ctClaims, ctPacket>>

-----------------------------------------------------------------------------
\* What a reply holds: the value if it validates, the last element that does of an array.
Salvage(reply) ==
    LET ok == {i \in DOMAIN reply.parts : reply.parts[i].valid}
    IN IF ok = {} THEN {} ELSE {reply.parts[Max(ok)]}

\* completeAndValidate: the second attempt is taken when the first holds nothing.
Attempts(Replies) ==
    UNION {IF Salvage(first) # {} THEN {Salvage(first)} ELSE {Salvage(second) : second \in Replies}
             : first \in Replies}

\* Slip: the last verdict about a shard wins, and its ids are taken on trust.
BatchVerdict_Trusting(s, verdicts) ==
    LET about == {i \in DOMAIN verdicts : verdicts[i].shard = s}
    IN IF about = {} THEN [shard |-> s, knows |-> FALSE, ids |-> << >>]
       ELSE [shard |-> s, knows |-> verdicts[Min(about)].knows, ids |-> verdicts[Min(about)].ids]

\* The first verdict about a shard, with the ids it has; an explicit no if there is none.
BatchVerdict(s, verdicts) ==
    LET about == {i \in DOMAIN verdicts : verdicts[i].shard = s}
    IN IF about = {} THEN [shard |-> s, knows |-> FALSE, ids |-> << >>]
       ELSE [shard |-> s, knows |-> verdicts[Min(about)].knows,
             ids |-> OfShard(s, verdicts[Min(about)].ids)]

SoloVerdict(s, reply) == [shard |-> s, knows |-> reply.knows, ids |-> reply.ids]

\* The first shard alone and the others in one call; the ids of a call for one shard
\* are not compared with its events.
ProbeShards ==
    /\ ctStage = "shown"
    /\ \E solo \in Attempts(CtSolos), batch \in Attempts(CtBatches) :
         /\ ctStage' = IF solo = {} \/ batch = {} THEN "failed" ELSE "probed"
         /\ ctHeard' = IF solo = {} \/ batch = {} THEN << >>
                       ELSE (CHOOSE b \in batch : TRUE).verdicts
         /\ ctVerdicts' = IF solo = {} \/ batch = {} THEN << >>
                          ELSE [i \in DOMAIN ctWorld.shards |->
                                  IF i = 1 THEN SoloVerdict(ctWorld.shards[1], CHOOSE r \in solo : TRUE)
                                  ELSE BatchVerdict(ctWorld.shards[i], ctHeard')]
    /\ UNCHANGED <<ctWorld, ctIndex, ctDigest, ctClaims, ctPacket>>

-----------------------------------------------------------------------------
Salience(s) == [i \in DOMAIN ShardEvents(s) |->
                  Cardinality((ShardEvents(s)[i].text \cup ShardEvents(s)[i].tags) \cap CtQuery)]

\* Slip: with salience on, the hint is forgotten.
OrderCandidates_NoHint(s, hint) ==
    LET places == DOMAIN ShardEvents(s)
        order == IF ctWorld.signals THEN Ranked(places, Salience(s), [i \in places |-> i])
                 ELSE [i \in places |-> i]
        ids == [i \in DOMAIN order |-> ShardEvents(s)[order[i]].id]
        hinted == IF ctWorld.signals THEN {} ELSE {i \in DOMAIN ids : Contains(hint, ids[i])}
    IN ItemsAt(ids, hinted) \o ItemsAt(ids, DOMAIN ids \ hinted)

\* By salience or as stored; hinted events first, in that order.
OrderCandidates(s, hint) ==
    LET places == DOMAIN ShardEvents(s)
        order == IF ctWorld.signals THEN Ranked(places, Salience(s), [i \in places |-> i])
                 ELSE [i \in places |-> i]
        ids == [i \in DOMAIN order |-> ShardEvents(s)[order[i]].id]
        hinted == {i \in DOMAIN ids : Contains(hint, ids[i])}
    IN ItemsAt(ids, hinted) \o ItemsAt(ids, DOMAIN ids \ hinted)

\* The places the fragments S take, with the space behind each.
Spent(frags, S) ==
    SumTo([n \in DOMAIN frags |-> IF n \in S THEN frags[n].len + 1 ELSE 0], Len(frags))

\* The length of the fragments S with spaces between them.
JoinedLength(frags, S) == IF S = {} THEN 0 ELSE Spent(frags, S) - 1

\* Slip: the first fragment that does not fit ends the excerpt.
KeptFragments_Breaks(frags, max) ==
    LET ranked == Ranked(DOMAIN frags, [i \in DOMAIN frags |-> frags[i].score], [i \in DOMAIN frags |-> i])
        kept[n \in 0..Len(frags)] ==
          IF n = 0 THEN {}
          ELSE IF Spent(frags, {ranked[m] : m \in 1..n}) > max THEN kept[n - 1]
          ELSE kept[n - 1] \cup {ranked[n]}
    IN kept[Len(frags)]

\* The best fragments that fit, with a place for the space behind each.
KeptFragments(frags, max) ==
    LET ranked == Ranked(DOMAIN frags, [i \in DOMAIN frags |-> frags[i].score], [i \in DOMAIN frags |-> i])
        kept[n \in 0..Len(frags)] ==
          IF n = 0 THEN {}
          ELSE IF Spent(frags, kept[n - 1] \cup {ranked[n]}) > max THEN kept[n - 1]
          ELSE kept[n - 1] \cup {ranked[n]}
    IN kept[Len(frags)]

\* The length of an event's body: the head of it, or with signals its kept fragments.
BodyLength(e) ==
    LET kept == KeptFragments(e.frags, PerEvent)
        whole == JoinedLength(e.frags, DOMAIN e.frags)
    IN IF whole <= PerEvent THEN whole
       ELSE IF ~ctWorld.signals \/ Len(e.frags) <= 1 \/ kept = {} THEN PerEvent
       ELSE JoinedLength(e.frags, kept)

\* selectEventDigest: the candidates in order until a line does not fit.
EventDigest(s, hint) ==
    PackToBudget(OrderCandidates(s, hint), [id \in EventIds(s) |-> 1 + BodyLength(EventOf(s, id))],
                 ctWorld.digestBudget, 0)

\* Every shard whose probe knows is recalled (the cut is AskPipeline's).
Recalled == ItemsAt(ctVerdicts, {i \in DOMAIN ctVerdicts : ctVerdicts[i].knows})

TakeDigests ==
    /\ ctStage = "probed"
    /\ ctStage' = "digested"
    /\ ctDigest' = [i \in DOMAIN Recalled |-> EventDigest(Recalled[i].shard, Recalled[i].ids)]
    /\ UNCHANGED <<ctWorld, ctIndex, ctHeard, ctVerdicts, ctClaims, ctPacket>>

\* Slip: one malformed claim fails the schema of the reply.
WellFormed_Strict(claims) == IF \A c \in ToSet(claims) : c.good THEN claims ELSE << >>
WellFormed(claims) == ItemsAt(claims, {i \in DOMAIN claims : claims[i].good})

\* Slip: the support of a claim is taken on trust when the model echoes the right shard.
Grounded_IfEchoed(s, reply) ==
    LET claims == WellFormed(reply.claims)
        mine(ids) == IF reply.echo = s THEN ids ELSE OfShard(s, ids)
    IN [shard |-> s, claims |-> [i \in DOMAIN claims |-> mine(claims[i].support)],
        echoes |-> reply.echo # s,
        dropped |-> \E i \in DOMAIN claims : mine(claims[i].support) # claims[i].support]

\* A recall is the call's shard with the support its events bear out; what was echoed or
\* made up is recorded as a conflict.
Grounded(s, reply) ==
    LET claims == WellFormed(reply.claims)
    IN [shard |-> s, claims |-> [i \in DOMAIN claims |-> OfShard(s, claims[i].support)],
        echoes |-> reply.echo # s,
        dropped |-> \E i \in DOMAIN claims : OfShard(s, claims[i].support) # claims[i].support]

\* A recall is made for every selected shard; each gets a reply of its own.
RecallShards ==
    /\ ctStage = "digested"
    /\ \E replies \in [DOMAIN Recalled -> Attempts(CtRecalls)] :
         /\ ctStage' = IF \E i \in DOMAIN replies : replies[i] = {} THEN "failed" ELSE "recalled"
         /\ ctHeard' = IF \E i \in DOMAIN replies : replies[i] = {} THEN << >>
                       ELSE [i \in DOMAIN replies |-> CHOOSE r \in replies[i] : TRUE]
         /\ ctClaims' = [i \in DOMAIN ctHeard' |-> Grounded(Recalled[i].shard, ctHeard'[i])]
    /\ UNCHANGED <<ctWorld, ctIndex, ctVerdicts, ctDigest, ctPacket>>

\* Slip: sources carry the id and not its shard's events.
PacketFromSingleRecall_FirstShard(r) ==
    [i \in DOMAIN r.claims |-> {<<ctWorld.shards[1], id>> : id \in ToSet(r.claims[i])}]

PacketFromSingleRecall(r) ==
    [i \in DOMAIN r.claims |-> {<<r.shard, id>> : id \in ToSet(r.claims[i])}]

\* No recall, no claims; one, its claims; more, what the synthesiser writes, whose
\* sources are only read as strings.
MakePacket ==
    /\ ctStage = "recalled"
    /\ IF Len(ctClaims) <= 1
       THEN /\ ctStage' = "packed"
            /\ ctPacket' = IF ctClaims = << >> THEN << >> ELSE PacketFromSingleRecall(ctClaims[1])
       ELSE \E reply \in Attempts(CtPackets) :
              /\ ctStage' = IF reply = {} THEN "failed" ELSE "packed"
              /\ ctPacket' = IF reply = {} THEN << >>
                             ELSE [i \in DOMAIN WellFormed((CHOOSE r \in reply : TRUE).claims) |->
                                     ToSet(WellFormed((CHOOSE r \in reply : TRUE).claims)[i].support)]
    /\ UNCHANGED <<ctWorld, ctIndex, ctHeard, ctVerdicts, ctDigest, ctClaims>>

CtNext == ShowIndex \/ ProbeShards \/ TakeDigests \/ RecallShards \/ MakePacket

-----------------------------------------------------------------------------
\* No event is kept out of a probe's index for a less relevant one: a shard whose late
\* events answer the question is not judged by its early ones.
IndexShowsBest ==
    \A i \in DOMAIN ctIndex : LET s == ctWorld.shards[i] IN
      \A shown \in ToSet(ctIndex[i]), out \in EventIds(s) \ ToSet(ctIndex[i]) :
        Relevance(s)[shown] >= Relevance(s)[out]

\* A batched probe yields one verdict per shard in the router's order, whatever the model
\* left out, repeated or made up: what it said first of that shard, or no, and never an
\* id of another shard.
VerdictPerShard ==
    ctStage = "probed" =>
      /\ [i \in DOMAIN ctVerdicts |-> ctVerdicts[i].shard] = ctWorld.shards
      /\ \A i \in DOMAIN ctVerdicts : i > 1 =>
           LET v == ctVerdicts[i]
               said == ItemsAt(ctHeard, {j \in DOMAIN ctHeard : ctHeard[j].shard = v.shard})
           IN /\ ToSet(v.ids) \subseteq EventIds(v.shard)
              /\ v.knows <=> said # << >> /\ said[1].knows

\* No event is shown to a recall while one that the probe pointed at is not.
HintsLead ==
    \A i \in DOMAIN ctDigest :
      LET hint == ToSet(Recalled[i].ids) \cap EventIds(Recalled[i].shard)
      IN ToSet(ctDigest[i]) \subseteq hint \/ hint \subseteq ToSet(ctDigest[i])

\* The excerpt of a long event fits, nothing it leaves out would still fit beside it, and
\* a fragment with a citation gives way only to others with one.
ExcerptWhole ==
    ctStage = "digested" =>
      \A e \in UNION {ToSet(ShardEvents(s)) : s \in ToSet(ctWorld.shards)} :
        LET kept == KeptFragments(e.frags, PerEvent)
            anchored == {i \in DOMAIN e.frags : e.frags[i].score = AnchorScore}
        IN /\ Spent(e.frags, kept) <= PerEvent
           /\ \A i \in (DOMAIN e.frags) \ kept : Spent(e.frags, kept \cup {i}) > PerEvent
           /\ \A i \in anchored \ kept : Spent(e.frags, (kept \cap anchored) \cup {i}) > PerEvent

\* Invariant 7: a recall cites only events of the snapshot it was made against, and every
\* id it drops or shard it corrects leaves a conflict.
RecallGrounded ==
    \A i \in DOMAIN ctClaims : LET r == ctClaims[i] IN
      /\ r.shard = Recalled[i].shard
      /\ \A ids \in ToSet(r.claims) : ToSet(ids) \subseteq EventIds(r.shard)
      /\ ctStage = "recalled" =>
           /\ r.dropped <=> \E c \in ToSet(ctHeard[i].claims) :
                                c.good /\ ~(ToSet(c.support) \subseteq EventIds(r.shard))
           /\ r.echoes <=> ctHeard[i].echo # r.shard

\* A malformed claim costs itself and no other.
OneBadClaim ==
    ctStage = "recalled" =>
      \A i \in DOMAIN ctClaims :
        Len(ctClaims[i].claims) = Cardinality({j \in DOMAIN ctHeard[i].claims : ctHeard[i].claims[j].good})

\* The packet of one recall cites events that exist, each in the shard that was recalled.
SinglePacketGrounded ==
    ctStage = "packed" /\ Len(ctClaims) = 1 =>
      \A ref \in UNION ToSet(ctPacket) :
        ref[1] = ctClaims[1].shard /\ ref[2] \in EventIds(ref[1])

\* Probe, recall and packet: the best is shown, and what comes back is about what was
\* asked and cites only what exists.
CitationsSound ==
    /\ IndexShowsBest /\ VerdictPerShard /\ HintsLead /\ ExcerptWhole
    /\ RecallGrounded /\ OneBadClaim /\ SinglePacketGrounded
=============================================================================
