---------------------------- MODULE RoleWatchers ----------------------------
(***************************************************************************)
(* Role messages: youmubot-core/src/community/roles.rs.                    *)
(*                                                                         *)
(* A role message is stored in the database and served by a handler task   *)
(* that gives its role to the members who react.  The map of watchers owns *)
(* the handlers: dropping a watcher sends on its channel of capacity zero, *)
(* and the handler ends when it receives.  Until then the thread stands    *)
(* still, not only the task.  Commands that post, update and delete role   *)
(* messages run concurrently with the handlers and, on other threads, with *)
(* each other.                                                             *)
(*                                                                         *)
(* Every message offers one role; a message with several is as many        *)
(* independent ones as far as the handlers are concerned.                  *)
(***************************************************************************)
EXTENDS Naturals, Sequences, FiniteSets

CONSTANTS
    Messages,       \* messages the bot may post
    Members,        \* members who react
    Handlers,       \* handler tasks, reused once they have ended: a bound
    Commands,       \* concurrent invocations of the commands
    NoHandler,      \* no watcher in the map
    Threads,        \* threads of the runtime
    Faults,         \* requests that may fail: "edit", "member", "role"
    MaxReactions    \* bound on the reactions of a run

ASSUME RoleWatchersAssumption ==
    /\ Messages # {}
    /\ NoHandler \notin Handlers
    /\ Threads \in Nat \ {0} /\ IsFiniteSet(Commands)
    /\ Faults \subseteq {"edit", "member", "role"}
    /\ MaxReactions \in Nat

VARIABLES
    posted,         \* messages that exist on Discord
    stored,         \* Roles[guild].reaction_messages, saved on every change
    toInit,         \* Watchers::init: messages found at startup
    watchers,       \* Watchers::watchers
    handler,        \* the handler tasks
    command,        \* the commands in progress
    reacted,        \* <<m, u>>: u's reaction is on m
    holds,          \* <<m, u>>: u has the role of m
    reactions,      \* history: number of reactions so far
    disturbed,      \* history: messages with a reaction that was missed,
                    \* dropped or failed
    contended       \* history: messages with two commands at once

discord == <<posted, reacted, holds, reactions>>
vars == <<discord, stored, toInit, watchers, handler, command, disturbed, contended>>

Reaction == Members \X BOOLEAN

NoTask == [state |-> "free", msg |-> CHOOSE m \in Messages : TRUE,
           cancelled |-> FALSE, queue |-> <<>>]
NoCommand == [kind |-> "none", step |-> "none", msg |-> NoTask.msg]

Live == {"spawned", "idle", "member", "role"}
Busy == {"member", "role"}

TypeOK ==
    /\ posted \subseteq Messages
    /\ stored \subseteq posted
    /\ toInit \subseteq posted
    /\ watchers \in [Messages -> Handlers \cup {NoHandler}]
    /\ handler \in [Handlers -> [state : Live \cup {"free", "ended"}, msg : Messages,
                                 cancelled : BOOLEAN, queue : Seq(Reaction)]]
    /\ command \in [Commands -> [kind : {"none", "add", "update", "delete"},
                                 step : {"none", "forget", "unwatch", "wait",
                                         "edit", "store", "watch"},
                                 msg : Messages]]
    /\ reacted \subseteq Messages \X Members
    /\ holds \subseteq Messages \X Members
    /\ reactions \in 0..MaxReactions
    /\ disturbed \subseteq Messages
    /\ contended \subseteq Messages

Init ==
    /\ stored \in SUBSET Messages
    /\ posted = stored
    /\ toInit = stored
    /\ watchers = [m \in Messages |-> NoHandler]
    /\ handler = [h \in Handlers |-> NoTask]
    /\ command = [c \in Commands |-> NoCommand]
    /\ reacted = {}
    /\ holds = {}
    /\ reactions = 0
    /\ disturbed = {}
    /\ contended = {}

(* Commands that stand still in Watcher::drop, each with a thread: the     *)
(* handler they wait for was never polled.                                 *)
Blocked == {c \in Commands : command[c].step = "wait"}

(* A task goes on only on a thread of its own.                             *)
ThreadLeft == Cardinality(Blocked) < Threads

-----------------------------------------------------------------------------
(* Reactions *)

(* A subscribed handler of the message is given each reaction: it is in    *)
(* the queue from when it was made.                                        *)
Subscribed(h, m) == handler[h].msg = m /\ handler[h].state \in {"idle"} \cup Busy

React(m, u) ==
    LET add == <<m, u>> \notin reacted
        serving == {h \in Handlers : Subscribed(h, m)}
    IN  /\ m \in posted
        /\ reactions < MaxReactions
        /\ reactions' = reactions + 1
        /\ reacted' = IF add THEN reacted \cup {<<m, u>>} ELSE reacted \ {<<m, u>>}
        /\ handler' = [h \in Handlers |->
                         IF h \in serving
                         THEN [handler[h] EXCEPT !.queue = Append(@, <<u, add>>)]
                         ELSE handler[h]]
        /\ disturbed' = IF \E h \in serving : ~handler[h].cancelled
                        THEN disturbed ELSE disturbed \cup {m}
        /\ UNCHANGED <<posted, stored, toInit, watchers, command, holds, contended>>

-----------------------------------------------------------------------------
(* Handler tasks *)

(* A task that has ended leaves its watcher, if any, without a receiver.   *)
End(h) ==
    [handler EXCEPT ![h] = IF watchers[@.msg] = h
                           THEN [NoTask EXCEPT !.state = "ended", !.msg = handler[h].msg]
                           ELSE NoTask]

(* What a command does once its watcher is dropped: an update goes on with *)
(* setup, a deletion is done.                                              *)
Unblocked(c) ==
    IF command[c].kind = "update" THEN [command[c] EXCEPT !.step = "edit"] ELSE NoCommand

(* A variant whose first poll only waits for reactions.                    *)
FirstPollDeaf(h) ==
    /\ handler[h].state = "spawned"
    /\ handler' = [handler EXCEPT ![h].state = "idle"]
    /\ UNCHANGED <<discord, stored, toInit, watchers, command, disturbed, contended>>

(* The first poll of a task subscribes it and makes its receiver ready: a  *)
(* cancellation that waits for it is received at once.                     *)
FirstPoll(h) ==
    /\ handler[h].state = "spawned"
    /\ handler' = IF handler[h].cancelled THEN End(h)
                  ELSE [handler EXCEPT ![h].state = "idle"]
    /\ command' = [c \in Commands |->
                     IF /\ handler[h].cancelled
                        /\ command[c].step = "wait"
                        /\ command[c].msg = handler[h].msg
                     THEN Unblocked(c) ELSE command[c]]
    /\ UNCHANGED <<discord, stored, toInit, watchers, disturbed, contended>>

(* select polls the receiver first.                                        *)
Cancelled(h) ==
    /\ handler[h].state = "idle"
    /\ handler[h].cancelled
    /\ handler' = End(h)
    /\ UNCHANGED <<discord, stored, toInit, watchers, command, disturbed, contended>>

TakeReaction(h) ==
    /\ handler[h].state = "idle"
    /\ ~handler[h].cancelled
    /\ handler[h].queue # <<>>
    /\ handler' = [handler EXCEPT ![h].state = "member"]
    /\ UNCHANGED <<discord, stored, toInit, watchers, command, disturbed, contended>>

(* A variant that treats an unknown member as an error.                    *)
MemberUnknownEnds(h) ==
    /\ "member" \in Faults
    /\ handler[h].state = "member"
    /\ handler' = End(h)
    /\ disturbed' = disturbed \cup {handler[h].msg}
    /\ UNCHANGED <<discord, stored, toInit, watchers, command, contended>>

(* handle_reaction: a reaction whose member cannot be fetched is passed    *)
(* over.                                                                   *)
MemberUnknown(h) ==
    /\ "member" \in Faults
    /\ handler[h].state = "member"
    /\ handler' = [handler EXCEPT ![h].state = "idle", ![h].queue = Tail(@)]
    /\ disturbed' = disturbed \cup {handler[h].msg}
    /\ UNCHANGED <<discord, stored, toInit, watchers, command, contended>>

(* The message is looked up in the database after the member was fetched;  *)
(* a message that is not there ends the task.                              *)
FindRole(h) ==
    /\ handler[h].state = "member"
    /\ IF handler[h].msg \in stored
       THEN /\ handler' = [handler EXCEPT ![h].state = "role"]
            /\ UNCHANGED disturbed
       ELSE /\ handler' = End(h)
            /\ disturbed' = disturbed \cup {handler[h].msg}
    /\ UNCHANGED <<discord, stored, toInit, watchers, command, contended>>

(* A variant that handles the latest reaction first.                       *)
ChangeRoleLatest(h) ==
    LET m == handler[h].msg
        r == handler[h].queue[Len(handler[h].queue)]
    IN  /\ handler[h].state = "role"
        /\ handler' = [handler EXCEPT ![h].state = "idle",
                                      ![h].queue = SubSeq(@, 1, Len(@) - 1)]
        /\ holds' = IF r[2] THEN holds \cup {<<m, r[1]>>} ELSE holds \ {<<m, r[1]>>}
        /\ UNCHANGED <<posted, reacted, reactions, stored, toInit, watchers, command,
                       disturbed, contended>>

ChangeRole(h) ==
    LET m == handler[h].msg
        r == Head(handler[h].queue)
    IN  /\ handler[h].state = "role"
        /\ handler' = [handler EXCEPT ![h].state = "idle", ![h].queue = Tail(@)]
        /\ holds' = IF r[2] THEN holds \cup {<<m, r[1]>>} ELSE holds \ {<<m, r[1]>>}
        /\ UNCHANGED <<posted, reacted, reactions, stored, toInit, watchers, command,
                       disturbed, contended>>

ChangeRoleFails(h) ==
    /\ "role" \in Faults
    /\ handler[h].state = "role"
    /\ handler' = [handler EXCEPT ![h].state = "idle", ![h].queue = Tail(@)]
    /\ disturbed' = disturbed \cup {handler[h].msg}
    /\ UNCHANGED <<discord, stored, toInit, watchers, command, contended>>

-----------------------------------------------------------------------------
(* Watchers *)

Spawned(m) == [NoTask EXCEPT !.state = "spawned", !.msg = m]

(* The next free handler stands for any: they do not differ.               *)
Spare(h) == handler[h].state = "free" /\ h = CHOOSE g \in Handlers : handler[g].state = "free"

(* Watchers::init, one message of its list.                                *)
InitWatcher(m, h) ==
    /\ m \in toInit
    /\ Spare(h)
    /\ toInit' = toInit \ {m}
    /\ watchers' = [watchers EXCEPT ![m] = h]
    /\ handler' = [handler EXCEPT ![h] = Spawned(m)]
    /\ UNCHANGED <<discord, stored, command, disturbed, contended>>

(* A variant that forgets to send the first message.                       *)
AddUnsent(c, m) ==
    /\ command[c] = NoCommand
    /\ m \notin posted
    /\ command' = [command EXCEPT ![c] = [kind |-> "add", step |-> "edit", msg |-> m]]
    /\ UNCHANGED <<discord, stored, toInit, watchers, handler, disturbed, contended>>

(* The first message of `add`; `setup` follows.                            *)
Add(c, m) ==
    /\ command[c] = NoCommand
    /\ m \notin posted
    /\ posted' = posted \cup {m}
    /\ command' = [command EXCEPT ![c] = [kind |-> "add", step |-> "edit", msg |-> m]]
    /\ UNCHANGED <<stored, toInit, watchers, handler, reacted, holds, reactions,
                   disturbed, contended>>

(* updaterolemessage and rmrolemessage begin with `remove`.                *)
Begin(c, kind, m) ==
    /\ command[c] = NoCommand
    /\ m \in posted
    /\ command' = [command EXCEPT ![c] = [kind |-> kind, step |-> "forget", msg |-> m]]
    /\ contended' = IF \E d \in Commands : command[d] # NoCommand /\ command[d].msg = m
                    THEN contended \cup {m} ELSE contended
    /\ UNCHANGED <<discord, stored, toInit, watchers, handler, disturbed>>

Forget(c) ==
    /\ command[c].step = "forget"
    /\ stored' = stored \ {command[c].msg}
    /\ command' = [command EXCEPT ![c].step = "unwatch"]
    /\ UNCHANGED <<discord, toInit, watchers, handler, disturbed, contended>>

(* A variant whose watcher does not cancel its handler.                    *)
UnwatchSilently(c) ==
    LET m == command[c].msg
    IN  /\ command[c].step = "unwatch"
        /\ watchers' = [watchers EXCEPT ![m] = NoHandler]
        /\ command' = [command EXCEPT ![c] =
                         IF watchers[m] # NoHandler THEN Unblocked(c) ELSE NoCommand]
        /\ UNCHANGED <<discord, stored, toInit, handler, disturbed, contended>>

(* Without a watcher the command has nothing to do.  Otherwise the watcher *)
(* is dropped: its handler is cancelled, at once if it has been polled     *)
(* before, and if not the command keeps its thread until it is.  If the    *)
(* handler has already ended the drop panics, and with it the command.     *)
Unwatch(c) ==
    LET m == command[c].msg
        h == watchers[m]
    IN  /\ command[c].step = "unwatch"
        /\ watchers' = [watchers EXCEPT ![m] = NoHandler]
        /\ \/ /\ h = NoHandler
              /\ command' = [command EXCEPT ![c] = NoCommand]
              /\ UNCHANGED <<handler, disturbed>>
           \/ /\ h # NoHandler
              /\ handler[h].state = "ended"
              /\ command' = [command EXCEPT ![c] = NoCommand]
              /\ handler' = [handler EXCEPT ![h] = NoTask]
              /\ UNCHANGED disturbed
           \/ /\ h # NoHandler
              /\ handler[h].state # "ended"
              /\ command' = [command EXCEPT ![c] =
                               IF handler[h].state = "spawned"
                               THEN [command[c] EXCEPT !.step = "wait"] ELSE Unblocked(c)]
              /\ handler' = [handler EXCEPT ![h].cancelled = TRUE]
              /\ disturbed' = IF handler[h].state \in Busy \/ handler[h].queue # <<>>
                              THEN disturbed \cup {m} ELSE disturbed
        /\ UNCHANGED <<discord, stored, toInit, contended>>

(* `setup` edits the message first, and fails with it.                     *)
Edit(c) ==
    /\ command[c].step = "edit"
    /\ \/ command' = [command EXCEPT ![c].step = "store"]
       \/ /\ "edit" \in Faults
          /\ command' = [command EXCEPT ![c] = NoCommand]
    /\ UNCHANGED <<discord, stored, toInit, watchers, handler, disturbed, contended>>

Store(c) ==
    /\ command[c].step = "store"
    /\ stored' = stored \cup {command[c].msg}
    /\ command' = [command EXCEPT ![c].step = "watch"]
    /\ UNCHANGED <<discord, toInit, watchers, handler, disturbed, contended>>

Watch(c, h) ==
    LET m == command[c].msg
    IN  /\ command[c].step = "watch"
        /\ Spare(h)
        /\ watchers' = [watchers EXCEPT ![m] = h]
        /\ handler' = [handler EXCEPT ![h] = Spawned(m)]
        /\ command' = [command EXCEPT ![c] = NoCommand]
        /\ UNCHANGED <<discord, stored, toInit, disturbed, contended>>

(* The bot stops and starts again with the stored messages.                *)
Restart ==
    /\ toInit' = stored
    /\ watchers' = [m \in Messages |-> NoHandler]
    /\ handler' = [h \in Handlers |-> NoTask]
    /\ command' = [c \in Commands |-> NoCommand]
    /\ disturbed' = disturbed \cup {handler[h].msg : h \in
                       {g \in Handlers : handler[g].state \in Busy \/ handler[g].queue # <<>>}}
    /\ UNCHANGED <<discord, stored, contended>>

-----------------------------------------------------------------------------

Handle(h) ==
    /\ ThreadLeft
    /\ \/ FirstPoll(h)
       \/ Cancelled(h)
       \/ TakeReaction(h)
       \/ MemberUnknown(h)
       \/ FindRole(h)
       \/ ChangeRole(h)
       \/ ChangeRoleFails(h)

Proceed(c) ==
    /\ ThreadLeft
    /\ \/ Forget(c)
       \/ Unwatch(c)
       \/ Edit(c)
       \/ Store(c)
       \/ \E h \in Handlers : Watch(c, h)

(* No task waits for one of Handlers to be free: nothing begins that could *)
(* lack one.                                                               *)
HandlersLeft ==
    Cardinality({h \in Handlers : handler[h].state = "free"})
        > Cardinality({c \in Commands : command[c].kind \in {"add", "update"}})

(* A startup or a command begins.                                          *)
Arrive ==
    /\ ThreadLeft /\ HandlersLeft
    /\ \/ \E m \in Messages, h \in Handlers : InitWatcher(m, h)
       \/ \E c \in Commands, m \in Messages : Add(c, m)
       \/ \E c \in Commands, m \in Messages, kind \in {"update", "delete"} : Begin(c, kind, m)

Next ==
    \/ \E m \in Messages, u \in Members : React(m, u)
    \/ \E h \in Handlers : Handle(h)
    \/ Arrive
    \/ \E c \in Commands : Proceed(c)
    \/ Restart

Spec == Init /\ [][Next]_vars

(* A thread that is free polls the tasks that can go on, and every request *)
(* ends.  When all threads stand still no task is polled.                  *)
Fairness ==
    /\ \A h \in Handlers : WF_vars(Handle(h))
    /\ \A c \in Commands : WF_vars(Proceed(c))

FairSpec == Spec /\ Fairness

-----------------------------------------------------------------------------
(* Properties *)

(* A message is never served by two handlers: every handler that has not   *)
(* been told to end is the one in the map of watchers (Drop of Watcher).   *)
OneHandlerPerMessage ==
    \A h \in Handlers :
        handler[h].state \in Live /\ ~handler[h].cancelled
            => watchers[handler[h].msg] = h

(* When no command and no startup is in progress, a stored role message    *)
(* has a handler that is serving it, unless two commands were ever at work *)
(* on it at once: nothing orders their steps (Watchers::init, setup,       *)
(* remove).                                                                *)
StoredIsServed ==
    (\A c \in Commands : command[c] = NoCommand) =>
        \A m \in stored \ (toInit \cup contended) :
            /\ watchers[m] # NoHandler
            /\ handler[watchers[m]].state \in Live
            /\ ~handler[watchers[m]].cancelled

(* Once its reactions have been handled, a message nobody disturbed has    *)
(* given its role to exactly the members whose reaction is on it, whatever *)
(* updates and restarts happened in between (handle, handle_reaction).     *)
RolesFollowReactions ==
    \A m \in Messages \ disturbed :
        (\A h \in Handlers : Subscribed(h, m) => handler[h].queue = <<>>) =>
            \A u \in Members : <<m, u>> \in holds <=> <<m, u>> \in reacted

(* A command comes to an end: a thread that drops a watcher stands still   *)
(* only until another one has polled its handler, unless every thread of   *)
(* the runtime comes to stand still beside it: then none of them ever goes *)
(* on (the rendezvous channel of Watcher).                                 *)
CommandsReturn ==
    \A c \in Commands : command[c] # NoCommand ~> (command[c] = NoCommand \/ ~ThreadLeft)
=============================================================================
