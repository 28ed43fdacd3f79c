------------------------------ MODULE Ratelimit ------------------------------
(***************************************************************************)
(* The rate-limited value of youmubot-prelude/src/ratelimit.rs.            *)
(*                                                                         *)
(* A channel holds one message for each use that is allowed now.  A borrow *)
(* takes a message; dropping the guard starts a task that sleeps for the   *)
(* waiting time and then puts a message back.                              *)
(***************************************************************************)
EXTENDS Integers, FiniteSets

CONSTANTS
    Borrowers,      \* tasks that borrow the value, one guard each
    Sleepers,       \* tasks that a dropped guard may start, used again
    Count,          \* count: uses in a waiting time
    WaitTime,       \* wait_time
    MaxNow          \* bound on the clock

ASSUME RatelimitAssumption ==
    /\ IsFiniteSet(Borrowers)
    /\ IsFiniteSet(Sleepers)
    /\ Count \in Nat \ {0}
    /\ Cardinality(Sleepers) >= Count
    /\ WaitTime \in Nat \ {0}
    /\ MaxNow \in Nat

VARIABLES
    now,
    tokens,         \* messages in the channel
    holding,        \* borrowers with a guard
    asleep,         \* tasks that sleep
    dropped         \* when each task was last started by a drop

ratelimitVars == <<now, tokens, holding, asleep, dropped>>

RatelimitTypeOK ==
    /\ now \in 0..MaxNow
    /\ tokens \in 0..Count
    /\ holding \in SUBSET Borrowers
    /\ asleep \in SUBSET Sleepers
    /\ dropped \in [Sleepers -> Int]

RatelimitInit ==
    /\ now = 0
    /\ tokens = Count
    /\ holding = {}
    /\ asleep = {}
    /\ dropped = [s \in Sleepers |-> -WaitTime]

-----------------------------------------------------------------------------

PassTime ==
    /\ now < MaxNow
    /\ now' = now + 1
    /\ UNCHANGED <<tokens, holding, asleep, dropped>>

(* borrow: waits for a message.                                            *)
Borrow(b) ==
    /\ b \in Borrowers \ holding
    /\ tokens > 0
    /\ tokens' = tokens - 1
    /\ holding' = holding \cup {b}
    /\ UNCHANGED <<now, asleep, dropped>>

(* A variant that puts the message back when the guard is dropped.         *)
DropGuardAtOnce(b) ==
    /\ b \in holding
    /\ holding' = holding \ {b}
    /\ tokens' = tokens + 1
    /\ \E s \in Sleepers \ asleep : dropped' = [dropped EXCEPT ![s] = now]
    /\ UNCHANGED <<now, asleep>>

(* RatelimitGuard::drop                                                    *)
DropGuard(b) ==
    /\ b \in holding
    /\ holding' = holding \ {b}
    /\ \E s \in Sleepers \ asleep :
          /\ asleep' = asleep \cup {s}
          /\ dropped' = [dropped EXCEPT ![s] = now]
    /\ UNCHANGED <<now, tokens>>

(* A task wakes up, in time or late, and sends its message; it would wait  *)
(* for a place in the channel.                                             *)
WakeUp(s) ==
    /\ s \in asleep
    /\ dropped[s] + WaitTime <= now
    /\ tokens < Count
    /\ tokens' = tokens + 1
    /\ asleep' = asleep \ {s}
    /\ UNCHANGED <<now, holding, dropped>>

RatelimitNext ==
    \/ PassTime
    \/ \E b \in Borrowers : Borrow(b) \/ DropGuard(b)
    \/ \E s \in Sleepers : WakeUp(s)

RatelimitSpec == RatelimitInit /\ [][RatelimitNext]_ratelimitVars

-----------------------------------------------------------------------------
(* Properties *)

Recent == {s \in Sleepers : dropped[s] + WaitTime > now}

(* The value is used at most `count` times in `wait_time`, counted from    *)
(* the moment a use is over: the uses under way and those that ended less  *)
(* than the waiting time ago (borrow's comment, and what its guard does).  *)
UsesAreLimited == Cardinality(holding) + Cardinality(Recent) <= Count

(* What makes it inductive: no message is lost or sent twice, and a use    *)
(* that ended lately still has its task.                                   *)
TokensAreKept == tokens + Cardinality(holding) + Cardinality(asleep) = Count

RecentAreAsleep == Recent \subseteq asleep
=============================================================================
