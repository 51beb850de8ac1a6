------------------------------ MODULE ShardLog ------------------------------
(***************************************************************************)
(* What the durable memory promises, with no files in it: every shard is   *)
(* an append-only log of events that is created once, grows while it is    *)
(* active and is closed for good when it is frozen; a write whose success  *)
(* was reported is in the log.                                             *)
(***************************************************************************)
EXTENDS Integers, Sequences

CONSTANTS Shards, Events

VARIABLES
    status,   \* of each shard
    log,      \* the events of each shard, oldest first
    promised  \* <<shard, event>> whose write was reported as done

vars == <<status, log, promised>>

Holds(s, e) == \E i \in 1..Len(log[s]) : log[s][i] = e

TypeOK ==
    /\ status \in [Shards -> {"none", "active", "frozen"}]
    /\ log \in [Shards -> Seq(Events)]
    /\ promised \subseteq Shards \X Events

Init ==
    /\ status = [s \in Shards |-> "none"]
    /\ log = [s \in Shards |-> << >>]
    /\ promised = {}

Create(s) ==
    /\ status[s] = "none"
    /\ status' = [status EXCEPT ![s] = "active"]
    /\ UNCHANGED <<log, promised>>

\* One event joins the log of one shard, and no log ever holds it twice.
Append1(s, e) ==
    /\ status[s] = "active"
    /\ \A t \in Shards : ~Holds(t, e)
    /\ log' = [log EXCEPT ![s] = Append(@, e)]
    /\ UNCHANGED <<status, promised>>

Freeze(s) ==
    /\ status[s] = "active"
    /\ status' = [status EXCEPT ![s] = "frozen"]
    /\ UNCHANGED <<log, promised>>

\* Success is reported only for an event the log holds.
Report(s, e) ==
    /\ Holds(s, e)
    /\ promised' = promised \cup {<<s, e>>}
    /\ UNCHANGED <<status, log>>

Next == \E s \in Shards :
    \/ Create(s) \/ Freeze(s)
    \/ \E e \in Events : Append1(s, e) \/ Report(s, e)

Spec == Init /\ [][Next]_vars
=============================================================================
