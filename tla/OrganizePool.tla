----------------------------- MODULE OrganizePool -----------------------------
(***************************************************************************)
(* The write-time passes over one conversation                             *)
(* (src/eval/baselines/csm.ts): organised memory, fact registry and        *)
(* preference profile.  The events are packed into chunks, a pool of       *)
(* workers sends one call per chunk, and one more call merges the answers. *)
(*                                                                         *)
(* An event is its size in tokens; a chunk is the sequence of the numbers  *)
(* of its events, and the text a call returns is the chunk it was given.   *)
(***************************************************************************)
EXTENDS Integers, Sequences, FiniteSets, FiniteSetsExt, SequencesExt

CONSTANTS
    Sizes,          \* token estimates an event may have
    MaxEvents,      \* bound: events of a conversation
    ChunkTokens, SinglePassTokens,
    MapConcurrency

ASSUME PoolConstants ==
    /\ Sizes \subseteq Nat /\ MaxEvents \in Nat
    /\ ChunkTokens \in Nat \ {0} /\ SinglePassTokens \in Nat \ {0}
    /\ MapConcurrency \in Nat \ {0}

VARIABLES
    pass,       \* the pass: its kind, events, chunks and outcome
    hands,      \* the workers of mapWithConcurrency: the chunk each has, or a word
    nextItem, aborted, results,
    calls,      \* history: model calls sent
    late        \* history: calls sent once one had failed

poolVars == <<pass, hands, nextItem, aborted, results, calls, late>>

PassKinds == {"memory", "facts", "preferences"}
Hands == 1..MapConcurrency
Missing == << >>        \* a result that has not come
Unclaimed == 0          \* a worker between two items
Left == -1              \* a worker that returned
Threw == -2             \* a worker that threw

NoPass == [step |-> "idle", kind |-> "facts", sizes |-> << >>, chunks |-> << >>, text |-> << >>]

PoolInit ==
    /\ pass = NoPass
    /\ hands = [h \in Hands |-> Left] /\ nextItem = 1 /\ aborted = FALSE /\ results = << >>
    /\ calls = 0 /\ late = 0

-----------------------------------------------------------------------------
Tokens(sizes, chunk) ==
    LET sum[i \in 0..Len(chunk)] == IF i = 0 THEN 0 ELSE sum[i - 1] + sizes[chunk[i]]
    IN  sum[Len(chunk)]
Everything(sizes) == [i \in 1..Len(sizes) |-> i]

\* The chunks that are closed, and the open one, after all events: an event goes to
\* the open chunk unless that one would outgrow the budget.
Packed(sizes, max) ==
    LET packed[i \in 0..Len(sizes)] ==
          IF i = 0 THEN [closed |-> << >>, open |-> << >>]
          ELSE LET so == packed[i - 1] IN
               IF so.open # << >> /\ Tokens(sizes, so.open) + sizes[i] > max
               THEN [closed |-> Append(so.closed, so.open), open |-> <<i>>]
               ELSE [so EXCEPT !.open = Append(@, i)]
    IN  packed[Len(sizes)]

(* Slips.                                                                  *)

\* The chunk in hand is not closed when the events end.
ChunkByTokenBudget_NoTail(sizes, max) == Packed(sizes, max).closed

\* The pool as it was: the other workers go on after a failure.
ClaimItem_Forever(h) ==
    /\ pass.step \in {"mapping", "failed"} /\ hands[h] = Unclaimed
    /\ nextItem' = nextItem + 1
    /\ IF nextItem > Len(pass.chunks)
       THEN hands' = [hands EXCEPT ![h] = Left] /\ UNCHANGED <<calls, late>>
       ELSE /\ hands' = [hands EXCEPT ![h] = nextItem]
            /\ calls' = calls + 1 /\ late' = IF aborted THEN late + 1 ELSE late
    /\ UNCHANGED <<pass, aborted, results>>

-----------------------------------------------------------------------------
\* Events in order into chunks within the budget; an event above it stands alone.
ChunkByTokenBudget(sizes, max) ==
    LET last == Packed(sizes, max)
    IN  IF last.open = << >> THEN last.closed ELSE Append(last.closed, last.open)

\* mapWithConcurrency is called: as many workers as there are items, at most.
StartMap(kind, sizes, chunks) ==
    /\ pass' = [NoPass EXCEPT !.step = "mapping", !.kind = kind, !.sizes = sizes, !.chunks = chunks]
    /\ results' = [i \in 1..Len(chunks) |-> Missing]
    /\ hands' = [h \in Hands |-> IF h <= Max({1, Len(chunks)}) THEN Unclaimed ELSE Left]
    /\ UNCHANGED <<nextItem, aborted, calls, late>>

Small(sizes) == Tokens(sizes, Everything(sizes)) <= SinglePassTokens

\* A small conversation is organised by one call that is also the answer ...
OrganizeMemory(sizes) ==
    /\ pass.step = "idle"
    /\ IF Small(sizes)
       THEN /\ pass' = [NoPass EXCEPT !.step = "merging", !.kind = "memory", !.sizes = sizes,
                                      !.chunks = <<Everything(sizes)>>]
            /\ results' = <<Everything(sizes)>>
            /\ calls' = 1
            /\ UNCHANGED <<hands, nextItem, aborted, late>>
       ELSE StartMap("memory", sizes, ChunkByTokenBudget(sizes, ChunkTokens))

\* ... while facts and preferences of a small one are a single chunk that is
\* mapped and merged like the others.
OrganizeFacts(sizes) ==
    /\ pass.step = "idle"
    /\ StartMap("facts", sizes, IF Small(sizes) THEN <<Everything(sizes)>>
                                ELSE ChunkByTokenBudget(sizes, ChunkTokens))

OrganizePreferences(sizes) ==
    /\ pass.step = "idle"
    /\ StartMap("preferences", sizes, IF Small(sizes) THEN <<Everything(sizes)>>
                                      ELSE ChunkByTokenBudget(sizes, ChunkTokens))

\* A worker takes the next item unless one has failed, and sends its call.
ClaimItem(h) ==
    /\ pass.step \in {"mapping", "failed"} /\ hands[h] = Unclaimed
    /\ IF aborted
       THEN hands' = [hands EXCEPT ![h] = Left] /\ UNCHANGED <<nextItem, calls, late>>
       ELSE /\ nextItem' = nextItem + 1
            /\ IF nextItem > Len(pass.chunks)
               THEN hands' = [hands EXCEPT ![h] = Left] /\ UNCHANGED <<calls, late>>
               ELSE /\ hands' = [hands EXCEPT ![h] = nextItem]
                    /\ calls' = calls + 1 /\ late' = IF aborted THEN late + 1 ELSE late
    /\ UNCHANGED <<pass, aborted, results>>

\* The call of an item is answered.
SegmentAnswered(h) ==
    /\ hands[h] > 0
    /\ results' = [results EXCEPT ![hands[h]] = pass.chunks[hands[h]]]
    /\ hands' = [hands EXCEPT ![h] = Unclaimed]
    /\ UNCHANGED <<pass, nextItem, aborted, calls, late>>

\* It fails: the pass fails at once, and no worker takes another item.
SegmentFails(h) ==
    /\ hands[h] > 0
    /\ aborted' = TRUE
    /\ hands' = [hands EXCEPT ![h] = Threw]
    /\ pass' = [pass EXCEPT !.step = "failed"]
    /\ UNCHANGED <<nextItem, results, calls, late>>

\* Every worker has returned: the answers, in the order of the chunks, go into
\* the call that merges them.
StartMerge ==
    /\ pass.step = "mapping" /\ \A h \in Hands : hands[h] = Left
    /\ pass' = [pass EXCEPT !.step = "merging"]
    /\ calls' = calls + 1
    /\ UNCHANGED <<hands, nextItem, aborted, results, late>>

Merged ==
    /\ pass.step = "merging"
    /\ \/ pass' = [pass EXCEPT !.step = "done", !.text = FlattenSeq(results)]
       \/ pass' = [pass EXCEPT !.step = "failed"]
    /\ UNCHANGED <<hands, nextItem, aborted, results, calls, late>>

PoolNext ==
    \/ \E sizes \in BoundedSeq(Sizes, MaxEvents) :
          OrganizeMemory(sizes) \/ OrganizeFacts(sizes) \/ OrganizePreferences(sizes)
    \/ \E h \in Hands : ClaimItem(h) \/ SegmentAnswered(h) \/ SegmentFails(h)
    \/ StartMerge \/ Merged

PoolSpec == PoolInit /\ [][PoolNext]_poolVars

-----------------------------------------------------------------------------
\* A pass that is done has merged every event exactly once and in order, out of
\* chunks within the budget, at the price of one call per chunk and one to merge;
\* no interleaving of the workers shows (csm.ts:596-684, 2142-2195).
MergedWhole ==
    pass.step = "done" =>
        /\ pass.text = Everything(pass.sizes)
        /\ \A i \in 1..Len(pass.chunks) :
              Len(pass.chunks[i]) <= 1 \/ Tokens(pass.sizes, pass.chunks[i]) <= ChunkTokens
                                       \/ Small(pass.sizes)
        /\ calls = IF pass.kind = "memory" /\ Small(pass.sizes) THEN 1 ELSE Len(pass.chunks) + 1

\* Once a call has failed no other is begun, nothing is merged, and at most
\* MapConcurrency - 1 calls in flight are paid for in vain (csm.ts:2166-2170).
FailsFast ==
    aborted =>
        /\ late = 0
        /\ pass.step = "failed"
        /\ Cardinality({h \in Hands : hands[h] > 0}) <= MapConcurrency - 1
=============================================================================
