------------------------ MODULE InteractionCollector ------------------------
(***************************************************************************)
(* The map from messages to collectors of                                  *)
(* youmubot-prelude/src/interaction_collector.rs, and the threads it runs  *)
(* on.                                                                     *)
(*                                                                         *)
(* The hook keeps a reference into a shard of the map while it waits for   *)
(* Discord's answer.  Inserting into or removing from that shard stops the *)
(* thread, not only the task, until the reference is gone; and only a      *)
(* thread that is not stopped can let the hook go on.                      *)
(***************************************************************************)
EXTENDS Naturals, FiniteSets

CONSTANTS
    Paginated,      \* messages with a pagination
    Shards,         \* shards of the map
    Presses,        \* button presses, each handled once
    Workers,        \* threads of the runtime
    CollectorFaults \* "ack"

ASSUME CollectorAssumption ==
    /\ Workers \in Nat \ {0}
    /\ CollectorFaults \subseteq {"ack"}

VARIABLES
    shard,          \* the shard of each message, by its hash
    collector,      \* the life of each message's collector
    call,           \* the hook's run for each press
    received        \* presses in the collector's channel

collectorVars == <<shard, collector, call, received>>

NoCall == [at |-> "none"]
Call == {NoCall} \cup [at : {"ready", "acking", "acked", "failed", "done"}, msg : Paginated]

CollectorInit ==
    /\ shard \in [Paginated -> Shards]
    /\ collector = [m \in Paginated |-> "none"]
    /\ call = [p \in Presses |-> NoCall]
    /\ received = [m \in Paginated |-> {}]

-----------------------------------------------------------------------------

(* Hooks that hold a reference into the shard of a message.                *)
Readers(m) ==
    {p \in Presses : /\ call[p].at \in {"acking", "acked", "failed"}
                     /\ shard[call[p].msg] = shard[m]}

(* Threads that stand still in the map.                                    *)
Stopped == {m \in Paginated : collector[m] \in {"inserting", "removing"}}

CollectorTypeOK ==
    /\ shard \in [Paginated -> Shards]
    /\ collector \in [Paginated -> {"none", "inserting", "open", "removing", "closed"}]
    /\ call \in [Presses -> Call]
    /\ received \in [Paginated -> SUBSET Presses]
    /\ Cardinality(Stopped) <= Workers

(* A variant with one thread too many.                                     *)
ThreadFreeTooLate == Cardinality(Stopped) <= Workers

(* A task goes on only on a thread of its own.                             *)
ThreadFree == Cardinality(Stopped) < Workers

Registered(m) == collector[m] \in {"open", "removing"}

-----------------------------------------------------------------------------
(* Collectors *)

(* create_collector, and the guard's drop: the thread stops in the map.    *)
Create(m) ==
    /\ ThreadFree
    /\ collector[m] = "none"
    /\ collector' = [collector EXCEPT ![m] = "inserting"]
    /\ UNCHANGED <<shard, call, received>>

Drop(m) ==
    /\ ThreadFree
    /\ collector[m] = "open"
    /\ collector' = [collector EXCEPT ![m] = "removing"]
    /\ UNCHANGED <<shard, call, received>>

(* A variant whose removal does not wait for the references.               *)
LockShardAtOnce(m) ==
    /\ m \in Stopped
    /\ collector' = [collector EXCEPT ![m] = IF @ = "inserting" THEN "open" ELSE "closed"]
    /\ UNCHANGED <<shard, call, received>>

(* The shard is locked for writing, and the thread goes on.                *)
LockShard(m) ==
    /\ m \in Stopped
    /\ Readers(m) = {}
    /\ collector' = [collector EXCEPT ![m] = IF @ = "inserting" THEN "open" ELSE "closed"]
    /\ UNCHANGED <<shard, call, received>>

-----------------------------------------------------------------------------
(* InteractionHook::call *)

(* The user presses a button: Discord shows it from the first rendering on *)
(* until after the last.                                                   *)
Press(p, m) ==
    /\ call[p] = NoCall
    /\ collector[m] \in {"open", "removing", "closed"}
    /\ call' = [call EXCEPT ![p] = [at |-> "ready", msg |-> m]]
    /\ UNCHANGED <<shard, collector, received>>

(* The collector is looked up, and the acknowledgement sent.               *)
Acknowledge(p) ==
    /\ ThreadFree
    /\ call[p].at = "ready"
    /\ call' = [call EXCEPT ![p].at = IF Registered(call[p].msg) THEN "acking" ELSE "done"]
    /\ UNCHANGED <<shard, collector, received>>

Answer(p) ==
    /\ call[p].at = "acking"
    /\ \/ call' = [call EXCEPT ![p].at = "acked"]
       \/ "ack" \in CollectorFaults /\ call' = [call EXCEPT ![p].at = "failed"]
    /\ UNCHANGED <<shard, collector, received>>

Forward(p) ==
    /\ ThreadFree
    /\ call[p].at = "acked"
    /\ received' = [received EXCEPT ![call[p].msg] = @ \cup {p}]
    /\ call' = [call EXCEPT ![p].at = "done"]
    /\ UNCHANGED <<shard, collector>>

(* A variant in which a failure keeps the reference.                       *)
FailKeeping(p) ==
    /\ ThreadFree
    /\ call[p].at = "failed"
    /\ UNCHANGED collectorVars

Fail(p) ==
    /\ ThreadFree
    /\ call[p].at = "failed"
    /\ call' = [call EXCEPT ![p].at = "done"]
    /\ UNCHANGED <<shard, collector, received>>

-----------------------------------------------------------------------------

CollectorNext ==
    \/ \E m \in Paginated : Create(m) \/ Drop(m) \/ LockShard(m)
    \/ \E p \in Presses, m \in Paginated : Press(p, m)
    \/ \E p \in Presses : Acknowledge(p) \/ Answer(p) \/ Forward(p) \/ Fail(p)

CollectorSpec == CollectorInit /\ [][CollectorNext]_collectorVars

(* Discord answers, free threads run the tasks that can go on, and a lock  *)
(* that is free is taken.                                                  *)
CollectorFairness ==
    /\ \A m \in Paginated : WF_collectorVars(LockShard(m))
    /\ \A p \in Presses : WF_collectorVars(Acknowledge(p)) /\ WF_collectorVars(Answer(p))
                          /\ SF_collectorVars(Forward(p)) /\ SF_collectorVars(Fail(p))

FairCollector == CollectorSpec /\ CollectorFairness

-----------------------------------------------------------------------------
(* Properties *)

(* While a hook waits for Discord the table of its message is not touched, *)
(* so that what it found is still there when it goes on (call's ch).       *)
FoundStays ==
    \A p \in Presses :
        call[p].at \in {"acking", "acked"} => Registered(call[p].msg)

(* A collector that stands still in the map gets its shard and goes on,    *)
(* unless every thread of the runtime comes to stand still beside it: a    *)
(* failed acknowledgement too gives its reference back (create_collector,  *)
(* Drop, call).                                                            *)
NobodyStuck == \A m \in Paginated : m \in Stopped ~> (m \notin Stopped \/ ~ThreadFree)
=============================================================================
