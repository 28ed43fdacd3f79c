--------------------------- MODULE WatchersProofs ---------------------------
(***************************************************************************)
(* Theorems about what waits on messages, for every value of the           *)
(* constants: the handlers of role messages (RoleWatchers) and the         *)
(* collectors of button presses (InteractionCollector).                    *)
(***************************************************************************)
EXTENDS MCWatchers, FiniteSetTheorems, TLAPS

-----------------------------------------------------------------------------
(* What is always true of the handlers of role messages *)

Task == [state : Live \cup {"free", "ended"}, msg : Messages,
         cancelled : BOOLEAN, queue : Seq(Reaction)]
CommandOf == [kind : {"none", "add", "update", "delete"},
              step : {"none", "forget", "unwatch", "wait", "edit", "store", "watch"},
              msg : Messages]

(* A task that handles a reaction has one; one that is not subscribed has  *)
(* none.                                                                   *)
TaskGood(t) ==
    /\ t \in Task
    /\ t.state \in Busy => t.queue # <<>>
    /\ t.state \in {"free", "spawned", "ended"} => t.queue = <<>>

(* A watcher in the map belongs to a task for its message that nobody      *)
(* cancelled.                                                              *)
WatcherGood(m) ==
    watchers[m] # NoHandler =>
        /\ m \in posted
        /\ handler[watchers[m]].msg = m
        /\ handler[watchers[m]].state \in Live \cup {"ended"}
        /\ ~handler[watchers[m]].cancelled

TasksInv ==
    /\ posted \subseteq Messages
    /\ watchers \in [Messages -> Handlers \cup {NoHandler}]
    /\ handler \in [Handlers -> Task]
    /\ \A h \in Handlers : TaskGood(handler[h])
    /\ \A m \in Messages : WatcherGood(m)
    /\ OneHandlerPerMessage

(* A command that has dropped a watcher, or is to make the first, has its  *)
(* message for itself until it puts a watcher in the map.                  *)
Past == {"wait", "edit", "store", "watch"}
Alone(c) ==
    command[c].step \in Past =>
        /\ watchers[command[c].msg] = NoHandler
        /\ command[c].msg \notin toInit
        /\ \A d \in Commands :
              command[d].step \in Past /\ command[d].msg = command[c].msg => d = c

CommandsInv ==
    /\ command \in [Commands -> CommandOf]
    /\ stored \subseteq posted
    /\ toInit \subseteq posted
    /\ \A c \in Commands : command[c] # NoCommand => command[c].msg \in posted
    /\ \A c \in Commands : Alone(c)
    /\ \A m \in toInit : watchers[m] = NoHandler

(* Two commands at one message are known to be; a command on its own is    *)
(* between taking its message out of the database and putting it back; and *)
(* what is in the database has a handler or is about to get one.           *)
Served(m) == watchers[m] # NoHandler /\ handler[watchers[m]].state \in Live

ContendedInv ==
    /\ contended \subseteq Messages
    /\ \A c, d \in Commands :
          /\ command[c] # NoCommand /\ command[d] # NoCommand
          /\ command[c].msg = command[d].msg /\ c # d
          => command[c].msg \in contended
    /\ \A c \in Commands :
          /\ command[c].step \in {"unwatch", "wait", "edit", "store"}
          /\ command[c].msg \notin contended
          => command[c].msg \notin stored
    /\ \A m \in stored \ (toInit \cup contended) :
          Served(m) \/ \E c \in Commands : command[c].msg = m /\ command[c].step = "watch"

(* The reactions a message is still to handle, and what they make of a     *)
(* member's role: what the last of them says, or else what it is.          *)
Pending(m) == IF watchers[m] = NoHandler THEN <<>> ELSE handler[watchers[m]].queue

LastOf(q, u, i) == i \in 1..Len(q) /\ q[i][1] = u /\ \A j \in (i + 1)..Len(q) : q[j][1] # u

ComesOut(q, u, has, wants) ==
    /\ (\A i \in 1..Len(q) : q[i][1] # u) => (has <=> wants)
    /\ \A i \in 1..Len(q) : LastOf(q, u, i) => (q[i][2] <=> wants)

RolesInv ==
    /\ disturbed \subseteq Messages
    /\ \A m \in Messages \ disturbed :
          /\ \A u \in Members : ComesOut(Pending(m), u, <<m, u>> \in holds, <<m, u>> \in reacted)
          /\ \A h \in Handlers : handler[h].msg = m /\ handler[h].cancelled
                                    => handler[h].state \notin Busy

-----------------------------------------------------------------------------
(* The map of watchers and the tasks *)

LEMMA NoTaskGood == NoTask \in Task /\ TaskGood(NoTask)
  <1>1. NoTask.msg \in Messages
    BY RoleWatchersAssumption DEF NoTask
  <1> QED BY <1>1 DEF NoTask, Task, TaskGood, Live, Busy, Reaction

LEMMA InitTasks == Init => TasksInv
  <1> SUFFICES ASSUME Init PROVE TasksInv
    OBVIOUS
  <1>1. NoTask.state = "free"
    BY DEF NoTask
  <1> QED BY <1>1, NoTaskGood
          DEF Init, TasksInv, WatcherGood, OneHandlerPerMessage, Live

(* What a step that changes one task, and no watcher, has to show of it.   *)
LEMMA OneTask ==
    ASSUME TasksInv, NEW h \in Handlers, NEW t, TaskGood(t),
           handler' = [handler EXCEPT ![h] = t],
           UNCHANGED <<posted, watchers>>,
           \A m \in Messages : watchers[m] = h =>
               t.msg = m /\ t.state \in Live \cup {"ended"} /\ ~t.cancelled,
           t.state \in Live /\ ~t.cancelled => watchers[t.msg] = h
    PROVE  TasksInv'
  <1>1. handler' \in [Handlers -> Task]
        /\ \A g \in Handlers : handler'[g] = IF g = h THEN t ELSE handler[g]
    BY DEF TasksInv, TaskGood
  <1>2. \A g \in Handlers : TaskGood(handler'[g])
    BY <1>1 DEF TasksInv
  <1>3. (\A g \in Handlers : TaskGood(handler[g]))'
    BY <1>2 DEF TaskGood
  <1>4. ASSUME NEW m \in Messages PROVE WatcherGood(m)'
    BY <1>1 DEF TasksInv, WatcherGood
  <1>5. OneHandlerPerMessage'
    BY <1>1 DEF TasksInv, OneHandlerPerMessage
  <1> QED BY <1>1, <1>3, <1>4, <1>5 DEF TasksInv

(* Whose watcher is in the map.                                            *)
LEMMA WatchersTask ==
    ASSUME TasksInv, NEW h \in Handlers, NEW m \in Messages, watchers[m] = h
    PROVE  /\ m \in posted /\ handler[h].msg = m
           /\ handler[h].state \in Live \cup {"ended"} /\ ~handler[h].cancelled
  <1>1. h # NoHandler
    BY RoleWatchersAssumption
  <1> QED BY <1>1 DEF TasksInv, WatcherGood

(* A task that goes on with its message.                                   *)
LEMMA TaskGoesOn ==
    ASSUME TasksInv, NEW h \in Handlers, NEW t, TaskGood(t),
           handler' = [handler EXCEPT ![h] = t],
           UNCHANGED <<posted, watchers>>,
           t.msg = handler[h].msg, t.cancelled = handler[h].cancelled,
           t.state \in Live, handler[h].state \in Live
    PROVE  TasksInv'
  <1>1. \A m \in Messages : watchers[m] = h =>
            t.msg = m /\ t.state \in Live \cup {"ended"} /\ ~t.cancelled
    BY WatchersTask
  <1>2. t.state \in Live /\ ~t.cancelled => watchers[t.msg] = h
    BY DEF TasksInv, OneHandlerPerMessage
  <1> QED BY <1>1, <1>2, OneTask

(* The task that End leaves behind.                                        *)
Ended(h) == [NoTask EXCEPT !.state = "ended", !.msg = handler[h].msg]

LEMMA EndLeaves ==
    ASSUME TasksInv, NEW h \in Handlers
    PROVE  /\ End(h) = [handler EXCEPT ![h] = IF watchers[handler[h].msg] = h
                                              THEN Ended(h) ELSE NoTask]
           /\ TaskGood(Ended(h)) /\ Ended(h).state = "ended" /\ ~Ended(h).cancelled
           /\ Ended(h).msg = handler[h].msg /\ Ended(h).queue = <<>>
           /\ NoTask.state = "free" /\ ~NoTask.cancelled /\ NoTask.queue = <<>>
           /\ TaskGood(NoTask)
  <1>1. handler[h].msg \in Messages
    BY DEF TasksInv, Task
  <1> QED BY <1>1, NoTaskGood DEF End, Ended, NoTask, TaskGood, Task, Busy, Live

LEMMA TaskEnds ==
    ASSUME TasksInv, NEW h \in Handlers, handler' = End(h), UNCHANGED <<posted, watchers>>
    PROVE  TasksInv'
  <1>1. CASE watchers[handler[h].msg] = h
    <2>1. handler' = [handler EXCEPT ![h] = Ended(h)]
      BY <1>1, EndLeaves
    <2>2. \A m \in Messages : watchers[m] = h => m = handler[h].msg
      BY WatchersTask
    <2> DEFINE t == Ended(h)
    <2>3. /\ TaskGood(t) /\ t.state = "ended" /\ ~t.cancelled /\ t.msg = handler[h].msg
          /\ handler' = [handler EXCEPT ![h] = t]
      BY <2>1, EndLeaves
    <2> HIDE DEF t
    <2>4. t.state \notin Live
      BY <2>3 DEF Live
    <2> QED BY <2>2, <2>3, <2>4, OneTask
  <1>2. CASE watchers[handler[h].msg] # h
    <2>1. handler' = [handler EXCEPT ![h] = NoTask]
      BY <1>2, EndLeaves
    <2>2. \A m \in Messages : watchers[m] # h
      BY <1>2, WatchersTask
    <2>3. TaskGood(NoTask) /\ NoTask.state \notin Live
      BY EndLeaves DEF Live
    <2> QED BY <2>1, <2>2, <2>3, OneTask
  <1> QED BY <1>1, <1>2

(* A reaction is put at the end of the queues of the subscribed.           *)
LEMMA ReactedTask ==
    ASSUME TasksInv, NEW m \in Messages, NEW u \in Members, React(m, u), NEW h \in Handlers
    PROVE  LET add == <<m, u>> \notin reacted
           IN  /\ handler'[h].msg = handler[h].msg /\ handler'[h].state = handler[h].state
               /\ handler'[h].cancelled = handler[h].cancelled
               /\ handler'[h].queue = IF Subscribed(h, m) THEN Append(handler[h].queue, <<u, add>>)
                                      ELSE handler[h].queue
               /\ TaskGood(handler'[h])
  <1> DEFINE add == <<m, u>> \notin reacted
  <1>1. handler[h] \in Task /\ TaskGood(handler[h])
    BY DEF TasksInv
  <1>2. <<u, add>> \in Reaction
    BY DEF Reaction
  <1>3. CASE Subscribed(h, m)
    <2>1. handler'[h] = [handler[h] EXCEPT !.queue = Append(@, <<u, add>>)]
      BY <1>3 DEF React
    <2> HIDE DEF add
    <2>2. handler[h].queue \in Seq(Reaction) /\ Append(handler[h].queue, <<u, add>>) \in Seq(Reaction)
      BY <1>1, <1>2 DEF Task
    <2>3. Append(handler[h].queue, <<u, add>>) # <<>>
      BY <2>2
    <2>4. handler'[h] \in Task
      BY <1>1, <2>1, <2>2 DEF Task
    <2>5. /\ handler'[h].msg = handler[h].msg /\ handler'[h].state = handler[h].state
          /\ handler'[h].cancelled = handler[h].cancelled
          /\ handler'[h].queue = Append(handler[h].queue, <<u, add>>)
      BY <1>1, <2>1 DEF Task
    <2> QED BY <1>3, <2>3, <2>4, <2>5 DEF TaskGood, Subscribed, Busy, add
  <1>4. CASE ~Subscribed(h, m)
    <2>1. handler'[h] = handler[h]
      BY <1>4 DEF React
    <2> QED BY <1>1, <1>4, <2>1
  <1> QED BY <1>3, <1>4

LEMMA ReactTasks ==
    ASSUME TasksInv, NEW m \in Messages, NEW u \in Members, React(m, u)
    PROVE  TasksInv'
  <1>1. \A h \in Handlers : /\ handler'[h].msg = handler[h].msg
                            /\ handler'[h].state = handler[h].state
                            /\ handler'[h].cancelled = handler[h].cancelled
                            /\ TaskGood(handler'[h])
    BY ReactedTask
  <1>2. handler' \in [Handlers -> Task]
    <2>1. handler' = [h \in Handlers |-> handler'[h]]
      BY DEF React
    <2> QED BY <1>1, <2>1 DEF TaskGood
  <1>3. (\A h \in Handlers : TaskGood(handler[h]))'
    BY <1>1 DEF TaskGood
  <1>4. UNCHANGED <<posted, watchers>>
    BY DEF React
  <1>5. \A n \in Messages : WatcherGood(n)'
    BY <1>1, <1>4 DEF TasksInv, WatcherGood
  <1>6. OneHandlerPerMessage'
    BY <1>1, <1>4 DEF TasksInv, OneHandlerPerMessage
  <1> QED BY <1>2, <1>3, <1>4, <1>5, <1>6 DEF TasksInv

(* A free task for a message without a watcher.                            *)
LEMMA PutWatcher ==
    ASSUME TasksInv, NEW h \in Handlers, NEW m \in posted, watchers[m] = NoHandler,
           handler[h].state = "free",
           watchers' = [watchers EXCEPT ![m] = h],
           handler' = [handler EXCEPT ![h] = Spawned(m)],
           UNCHANGED posted
    PROVE  TasksInv'
  <1> DEFINE t == Spawned(m)
  <1>1. m \in Messages
    BY DEF TasksInv
  <1>2. /\ TaskGood(t) /\ t \in Task
        /\ t.state = "spawned" /\ t.msg = m /\ ~t.cancelled /\ t.queue = <<>>
    BY <1>1, NoTaskGood DEF Spawned, NoTask, TaskGood, Task, Busy, Live
  <1> HIDE DEF t
  <1>3. handler' \in [Handlers -> Task]
        /\ \A g \in Handlers : handler'[g] = IF g = h THEN t ELSE handler[g]
    BY <1>2 DEF TasksInv, t
  <1>4. watchers' \in [Messages -> Handlers \cup {NoHandler}]
        /\ \A n \in Messages : watchers'[n] = IF n = m THEN h ELSE watchers[n]
    BY DEF TasksInv
  <1>5. \A g \in Handlers : TaskGood(handler'[g])
    BY <1>2, <1>3 DEF TasksInv
  <1>6. (\A g \in Handlers : TaskGood(handler[g]))'
    BY <1>5 DEF TaskGood
  <1>7. \A n \in Messages : watchers[n] # h
    BY RoleWatchersAssumption DEF TasksInv, WatcherGood, Live
  <1>8. ASSUME NEW n \in Messages PROVE WatcherGood(n)'
    <2>1. h # NoHandler
      BY RoleWatchersAssumption
    <2> QED BY <1>2, <1>3, <1>4, <1>7, <2>1 DEF TasksInv, WatcherGood, Live
  <1>9. OneHandlerPerMessage'
    <2>1. \A g \in Handlers : handler[g].msg \in Messages
      BY DEF TasksInv, Task
    <2> QED BY <1>1, <1>2, <1>3, <1>4, <2>1, RoleWatchersAssumption DEF TasksInv, OneHandlerPerMessage
  <1> QED BY <1>3, <1>4, <1>6, <1>8, <1>9 DEF TasksInv

(* A handler that is idle, or takes the first reaction out of its queue.   *)
LEMMA HandlerTypes ==
    ASSUME TasksInv, NEW h \in Handlers
    PROVE  /\ handler[h] \in Task /\ TaskGood(handler[h])
           /\ handler[h].queue \in Seq(Reaction)
           /\ handler[h].queue # <<>> => Tail(handler[h].queue) \in Seq(Reaction)
  BY DEF TasksInv, Task

LEMMA TookFirst ==
    ASSUME TasksInv, NEW h \in Handlers, handler[h].state \in Busy,
           handler' = [handler EXCEPT ![h].state = "idle", ![h].queue = Tail(@)],
           UNCHANGED <<posted, watchers>>
    PROVE  TasksInv'
  <1> DEFINE t == [handler[h] EXCEPT !.state = "idle", !.queue = Tail(@)]
  <1>1. handler[h].queue # <<>>
    BY DEF TasksInv, TaskGood
  <1>2. /\ TaskGood(t) /\ t.msg = handler[h].msg /\ t.cancelled = handler[h].cancelled
        /\ t.state = "idle"
    BY <1>1, HandlerTypes DEF TaskGood, Task, Live, Busy
  <1>3. handler' = [handler EXCEPT ![h] = t]
    OBVIOUS
  <1> HIDE DEF t
  <1> QED BY <1>2, <1>3, TaskGoesOn DEF Live, Busy

LEMMA NewState ==
    ASSUME TasksInv, NEW h \in Handlers, handler[h].state \in Live,
           NEW state \in {"idle", "member", "role"},
           state \in Busy => handler[h].queue # <<>>,
           handler' = [handler EXCEPT ![h].state = state],
           UNCHANGED <<posted, watchers>>
    PROVE  TasksInv'
  <1> DEFINE t == [handler[h] EXCEPT !.state = state]
  <1>1. /\ TaskGood(t) /\ t.msg = handler[h].msg /\ t.cancelled = handler[h].cancelled
        /\ t.state = state
    BY HandlerTypes DEF TaskGood, Task, Live, Busy
  <1>2. handler' = [handler EXCEPT ![h] = t]
    OBVIOUS
  <1> HIDE DEF t
  <1> QED BY <1>1, <1>2, TaskGoesOn DEF Live

LEMMA HandleTasks ==
    ASSUME TasksInv, NEW h \in Handlers, Handle(h)
    PROVE  TasksInv'
  <1>1. UNCHANGED <<posted, watchers>>
    BY DEF Handle, FirstPoll, Cancelled, TakeReaction, MemberUnknown, FindRole, ChangeRole,
           ChangeRoleFails, discord
  <1>2. CASE FirstPoll(h)
    <2>1. CASE handler[h].cancelled
      BY <1>1, <1>2, <2>1, TaskEnds DEF FirstPoll
    <2>2. CASE ~handler[h].cancelled
      BY <1>1, <1>2, <2>2, NewState DEF FirstPoll, Live, Busy
    <2> QED BY <2>1, <2>2
  <1>3. CASE Cancelled(h)
    BY <1>1, <1>3, TaskEnds DEF Cancelled
  <1>4. CASE TakeReaction(h)
    BY <1>1, <1>4, NewState DEF TakeReaction, Live
  <1>5. CASE MemberUnknown(h)
    BY <1>1, <1>5, TookFirst DEF MemberUnknown, Busy
  <1>6. CASE FindRole(h)
    <2>1. CASE handler[h].msg \in stored
      <3>1. handler[h].queue # <<>> /\ handler[h].state \in Live
        BY <1>6 DEF FindRole, TasksInv, TaskGood, Busy, Live
      <3> QED BY <1>1, <1>6, <2>1, <3>1, NewState DEF FindRole
    <2>2. CASE handler[h].msg \notin stored
      BY <1>1, <1>6, <2>2, TaskEnds DEF FindRole
    <2> QED BY <2>1, <2>2
  <1>7. CASE ChangeRole(h)
    BY <1>1, <1>7, TookFirst DEF ChangeRole, Busy
  <1>8. CASE ChangeRoleFails(h)
    BY <1>1, <1>8, TookFirst DEF ChangeRoleFails, Busy
  <1> QED BY <1>2, <1>3, <1>4, <1>5, <1>6, <1>7, <1>8 DEF Handle

LEMMA InitWatcherTasks ==
    ASSUME TasksInv, CommandsInv, NEW m \in Messages, NEW h \in Handlers, InitWatcher(m, h)
    PROVE  TasksInv'
  BY PutWatcher DEF InitWatcher, Spare, CommandsInv, discord

LEMMA WatchTasks ==
    ASSUME TasksInv, CommandsInv, NEW c \in Commands, NEW h \in Handlers, Watch(c, h)
    PROVE  TasksInv'
  <1>1. watchers[command[c].msg] = NoHandler
    BY DEF CommandsInv, Alone, Watch, Past
  <1>2. command[c].msg \in posted
    BY DEF CommandsInv, Watch, NoCommand
  <1> QED BY <1>1, <1>2, PutWatcher DEF Watch, Spare, discord

LEMMA AddTasks ==
    ASSUME TasksInv, NEW c \in Commands, NEW m \in Messages, Add(c, m)
    PROVE  TasksInv'
  BY DEF Add, TasksInv, WatcherGood, TaskGood, OneHandlerPerMessage

(* Dropping a watcher: the task that had it is told, or was waited for.    *)
LEMMA UnwatchTasks ==
    ASSUME TasksInv, CommandsInv, NEW c \in Commands, Unwatch(c)
    PROVE  TasksInv'
  <1> DEFINE m == command[c].msg
             h == watchers[m]
  <1>1. m \in Messages /\ posted' = posted
    BY DEF Unwatch, CommandsInv, CommandOf, discord
  <1>2. /\ watchers' \in [Messages -> Handlers \cup {NoHandler}]
        /\ \A n \in Messages : watchers'[n] = IF n = m THEN NoHandler ELSE watchers[n]
    BY <1>1 DEF Unwatch, TasksInv
  <1>3. CASE h = NoHandler
    <2>1. handler' = handler
      BY <1>3 DEF Unwatch
    <2>2. OneHandlerPerMessage'
      BY <1>1, <1>2, <1>3, <2>1, RoleWatchersAssumption DEF TasksInv, OneHandlerPerMessage
    <2>3. ASSUME NEW n \in Messages PROVE WatcherGood(n)'
      BY <1>1, <1>2, <2>1 DEF TasksInv, WatcherGood
    <2> QED BY <1>1, <1>2, <2>1, <2>2, <2>3 DEF TasksInv, TaskGood
  <1>4. CASE h # NoHandler
    <2>1. /\ h \in Handlers /\ handler[h].msg = m /\ ~handler[h].cancelled
          /\ handler[h].state \in Live \cup {"ended"}
      BY <1>1, <1>4 DEF TasksInv, WatcherGood
    <2>2. PICK t : /\ TaskGood(t) /\ (t.state \in Live => t.cancelled)
                   /\ handler' = [handler EXCEPT ![h] = t]
      <3>1. CASE handler[h].state = "ended"
        <4>1. handler' = [handler EXCEPT ![h] = NoTask]
          BY <1>4, <3>1 DEF Unwatch
        <4>2. NoTask.state \notin Live
          BY EndLeaves, <2>1 DEF Live
        <4> QED BY <4>1, <4>2, NoTaskGood
      <3>2. CASE handler[h].state # "ended"
        <4> DEFINE t == [handler[h] EXCEPT !.cancelled = TRUE]
        <4>1. handler' = [handler EXCEPT ![h] = t]
          BY <1>4, <3>2 DEF Unwatch
        <4>2. TaskGood(t) /\ t.cancelled
          BY <2>1, HandlerTypes DEF TaskGood, Task
        <4> HIDE DEF t
        <4> QED BY <4>1, <4>2
      <3> QED BY <3>1, <3>2
    <2>3. /\ handler' \in [Handlers -> Task]
          /\ \A g \in Handlers : handler'[g] = IF g = h THEN t ELSE handler[g]
      BY <2>1, <2>2 DEF TasksInv, TaskGood
    <2>4. \A g \in Handlers : TaskGood(handler'[g])
      BY <2>2, <2>3 DEF TasksInv
    <2>5. (\A g \in Handlers : TaskGood(handler[g]))'
      BY <2>4 DEF TaskGood
    <2>6. ASSUME NEW n \in Messages PROVE WatcherGood(n)'
      BY <1>1, <1>2, <2>1, <2>3 DEF TasksInv, WatcherGood
    <2>7. OneHandlerPerMessage'
      <3>1. ASSUME NEW g \in Handlers, handler'[g].state \in Live, ~handler'[g].cancelled
            PROVE  watchers'[handler'[g].msg] = g
        <4>1. g # h /\ handler'[g] = handler[g]
          BY <2>2, <2>3, <3>1
        <4>2. watchers[handler[g].msg] = g /\ handler[g].msg \in Messages
          BY <3>1, <4>1, HandlerTypes DEF TasksInv, OneHandlerPerMessage, Task
        <4> QED BY <1>2, <4>1, <4>2
      <3> QED BY <3>1 DEF OneHandlerPerMessage
    <2> QED BY <1>1, <1>2, <2>3, <2>5, <2>6, <2>7 DEF TasksInv
  <1> QED BY <1>3, <1>4

LEMMA RestartTasks ==
    ASSUME TasksInv, Restart
    PROVE  TasksInv'
  <1>1. NoTask.state = "free"
    BY DEF NoTask
  <1> QED BY <1>1, NoTaskGood
          DEF Restart, discord, TasksInv, WatcherGood, OneHandlerPerMessage, Live, TaskGood

(* What a step that leaves the map and the tasks alone shows.              *)
LEMMA SameTasks ==
    ASSUME TasksInv, UNCHANGED <<posted, watchers, handler>>
    PROVE  TasksInv'
  BY DEF TasksInv, TaskGood, WatcherGood, OneHandlerPerMessage

LEMMA NextTasks ==
    ASSUME TasksInv, CommandsInv, [Next]_vars
    PROVE  TasksInv'
  <1>1. CASE UNCHANGED vars
    BY <1>1, SameTasks DEF vars, discord
  <1>2. ASSUME NEW c \in Commands, Proceed(c) PROVE TasksInv'
    BY <1>2, SameTasks, UnwatchTasks, WatchTasks DEF Proceed, Forget, Edit, Store, discord
  <1>3. ASSUME NEW c \in Commands, NEW m \in Messages, NEW kind \in {"update", "delete"},
               Begin(c, kind, m)
        PROVE  TasksInv'
    BY <1>3, SameTasks DEF Begin, discord
  <1> QED BY <1>1, <1>2, <1>3, ReactTasks, HandleTasks, InitWatcherTasks, AddTasks, RestartTasks
          DEF Next, Arrive

-----------------------------------------------------------------------------
(* The commands *)

LEMMA NoCommandGood ==
    NoCommand \in CommandOf /\ NoCommand.step = "none" /\ NoCommand.step \notin Past
  BY NoTaskGood DEF NoCommand, CommandOf, Task, Past

LEMMA InitCommands == Init => CommandsInv
  BY NoCommandGood DEF Init, CommandsInv, Alone

LEMMA SameCommands ==
    ASSUME CommandsInv, UNCHANGED <<posted, stored, toInit, watchers, command>>
    PROVE  CommandsInv'
  BY DEF CommandsInv, Alone

(* What a step of one command has to show of it, of the watchers and of    *)
(* the commands that have dropped one.                                     *)
LEMMA OneCommand ==
    ASSUME CommandsInv, NEW c \in Commands, NEW r \in CommandOf,
           command' = [command EXCEPT ![c] = r],
           toInit' = toInit, posted \subseteq posted', stored' \subseteq posted',
           r # NoCommand => r.msg \in posted',
           r.step \in Past =>
               /\ watchers'[r.msg] = NoHandler
               /\ r.msg \notin toInit
               /\ \A d \in Commands \ {c} : ~(command[d].step \in Past /\ command[d].msg = r.msg),
           \A d \in Commands \ {c} :
               command[d].step \in Past => watchers'[command[d].msg] = NoHandler,
           \A m \in toInit : watchers'[m] = NoHandler
    PROVE  CommandsInv'
  <1>1. /\ command' \in [Commands -> CommandOf]
        /\ \A d \in Commands : command'[d] = IF d = c THEN r ELSE command[d]
    BY DEF CommandsInv
  <1>2. ASSUME NEW d \in Commands PROVE Alone(d)'
    BY <1>1 DEF CommandsInv, Alone
  <1>3. \A d \in Commands : command'[d] # NoCommand => command'[d].msg \in posted'
    BY <1>1 DEF CommandsInv
  <1> QED BY <1>1, <1>2, <1>3 DEF CommandsInv

(* The same, where no watcher changes.                                     *)
LEMMA OneCommandUnwatched ==
    ASSUME CommandsInv, NEW c \in Commands, NEW r \in CommandOf,
           command' = [command EXCEPT ![c] = r],
           UNCHANGED <<toInit, posted, watchers>>, stored' \subseteq posted,
           r # NoCommand => r.msg \in posted,
           r.step \in Past => command[c].step \in Past /\ r.msg = command[c].msg
    PROVE  CommandsInv'
  <1>1. r.step \in Past =>
               /\ watchers'[r.msg] = NoHandler
               /\ r.msg \notin toInit
               /\ \A d \in Commands \ {c} : ~(command[d].step \in Past /\ command[d].msg = r.msg)
    BY DEF CommandsInv, Alone
  <1>2. \A d \in Commands \ {c} : command[d].step \in Past => watchers'[command[d].msg] = NoHandler
    BY DEF CommandsInv, Alone
  <1>3. \A m \in toInit : watchers'[m] = NoHandler
    BY DEF CommandsInv
  <1>4. posted \subseteq posted' /\ stored' \subseteq posted' /\ toInit' = toInit
        /\ (r # NoCommand => r.msg \in posted')
    OBVIOUS
  <1> QED BY <1>1, <1>2, <1>3, <1>4, OneCommand

(* A command that goes on with its message.                                *)
LEMMA NextStep ==
    ASSUME CommandsInv, NEW c \in Commands,
           NEW step \in {"forget", "unwatch", "wait", "edit", "store", "watch"}
    PROVE  LET r == [command[c] EXCEPT !.step = step]
           IN  r \in CommandOf /\ r.msg = command[c].msg /\ r.step = step
  BY DEF CommandsInv, CommandOf

LEMMA AtWork ==
    ASSUME CommandsInv, NEW c \in Commands, command[c].step # "none"
    PROVE  command[c] # NoCommand /\ command[c].msg \in posted
  BY NoCommandGood DEF CommandsInv

(* Whoever waited goes on in its message, or is done.                      *)
LEMMA UnblockedCommand ==
    ASSUME CommandsInv, NEW c \in Commands, command[c].step \in Past
    PROVE  /\ Unblocked(c) \in CommandOf
           /\ Unblocked(c) # NoCommand => Unblocked(c).msg \in posted
           /\ Unblocked(c).step \in Past => Unblocked(c).msg = command[c].msg
           /\ Unblocked(c).step \in {"edit", "none"}
  <1>1. CASE command[c].kind = "update"
    <2> DEFINE r == [command[c] EXCEPT !.step = "edit"]
    <2>1. Unblocked(c) = r
      BY <1>1 DEF Unblocked
    <2>2. r \in CommandOf /\ r.msg = command[c].msg /\ r.step = "edit"
      BY NextStep
    <2> HIDE DEF r
    <2>3. command[c].msg \in posted
      BY AtWork DEF Past
    <2> QED BY <2>1, <2>2, <2>3
  <1>2. CASE command[c].kind # "update"
    BY <1>2, NoCommandGood DEF Unblocked
  <1> QED BY <1>1, <1>2

LEMMA HandleCommands ==
    ASSUME CommandsInv, NEW h \in Handlers, Handle(h)
    PROVE  CommandsInv'
  <1>1. CASE FirstPoll(h)
    <2>1. UNCHANGED <<posted, stored, toInit, watchers>>
      BY <1>1 DEF FirstPoll, discord
    <2>2. \A d \in Commands : \/ command'[d] = command[d]
                              \/ command[d].step \in Past /\ command'[d] = Unblocked(d)
      BY <1>1 DEF FirstPoll, Past
    <2>3. command' \in [Commands -> CommandOf]
      <3>1. command' = [d \in Commands |-> command'[d]]
        BY <1>1 DEF FirstPoll
      <3>2. \A d \in Commands : command'[d] \in CommandOf
        BY <2>2, UnblockedCommand DEF CommandsInv
      <3> QED BY <3>1, <3>2
    <2>4. \A d \in Commands : command'[d] # NoCommand => command'[d].msg \in posted
      BY <2>2, UnblockedCommand DEF CommandsInv
    <2>5. \A d \in Commands : command'[d].step \in Past =>
             command[d].step \in Past /\ command'[d].msg = command[d].msg
      BY <2>2, UnblockedCommand
    <2>6. \A d \in Commands : Alone(d)'
      BY <2>1, <2>5 DEF CommandsInv, Alone
    <2> QED BY <2>1, <2>3, <2>4, <2>6 DEF CommandsInv
  <1>2. CASE ~FirstPoll(h)
    <2>1. UNCHANGED <<posted, stored, toInit, watchers, command>>
      BY <1>2 DEF Handle, Cancelled, TakeReaction, MemberUnknown, FindRole, ChangeRole,
                  ChangeRoleFails, discord
    <2> QED BY <2>1, SameCommands
  <1> QED BY <1>1, <1>2

LEMMA InitWatcherCommands ==
    ASSUME TasksInv, CommandsInv, NEW m \in Messages, NEW h \in Handlers, InitWatcher(m, h)
    PROVE  CommandsInv'
  <1>1. \A n \in Messages : watchers'[n] = IF n = m THEN h ELSE watchers[n]
    BY DEF TasksInv, InitWatcher
  <1>2. \A c \in Commands : command[c].msg \in Messages
    BY DEF CommandsInv, CommandOf
  <1>3. toInit \subseteq Messages
    BY DEF TasksInv, CommandsInv
  <1> QED BY <1>1, <1>2, <1>3 DEF CommandsInv, Alone, InitWatcher, discord

(* A message that is new has no watcher and no command.                    *)
LEMMA AddCommands ==
    ASSUME TasksInv, CommandsInv, NEW c \in Commands, NEW m \in Messages, Add(c, m)
    PROVE  CommandsInv'
  <1> DEFINE r == [kind |-> "add", step |-> "edit", msg |-> m]
  <1>1. r \in CommandOf /\ r.step = "edit" /\ r.msg = m
    BY DEF CommandOf
  <1>2. command' = [command EXCEPT ![c] = r]
    BY DEF Add
  <1> HIDE DEF r
  <1>3. m \notin posted /\ posted' = posted \cup {m} /\ UNCHANGED <<stored, toInit, watchers>>
    BY DEF Add
  <1>4. watchers'[m] = NoHandler /\ m \notin toInit
    BY <1>3 DEF TasksInv, WatcherGood, CommandsInv
  <1>5. \A d \in Commands : command[d].step \in Past =>
           command[d].msg # m /\ watchers'[command[d].msg] = NoHandler
    BY <1>3, AtWork DEF Past, CommandsInv, Alone
  <1>6. \A n \in toInit : watchers'[n] = NoHandler
    BY <1>3 DEF CommandsInv
  <1>7. stored' \subseteq posted' /\ posted \subseteq posted' /\ r.msg \in posted'
    BY <1>1, <1>3 DEF CommandsInv
  <1> QED BY <1>1, <1>2, <1>3, <1>4, <1>5, <1>6, <1>7, OneCommand

LEMMA BeginCommands ==
    ASSUME TasksInv, CommandsInv, NEW c \in Commands, NEW m \in Messages,
           NEW kind \in {"update", "delete"}, Begin(c, kind, m)
    PROVE  CommandsInv'
  <1> DEFINE r == [kind |-> kind, step |-> "forget", msg |-> m]
  <1>1. r \in CommandOf /\ r.step \notin Past /\ r.msg = m
    BY DEF CommandOf, Past
  <1>2. command' = [command EXCEPT ![c] = r] /\ m \in posted
    BY DEF Begin
  <1>3. UNCHANGED <<toInit, posted, watchers, stored>>
    BY DEF Begin, discord
  <1> HIDE DEF r
  <1>4. stored' \subseteq posted
    BY <1>3 DEF CommandsInv
  <1> QED BY <1>1, <1>2, <1>3, <1>4, OneCommandUnwatched

LEMMA UnwatchCommands ==
    ASSUME TasksInv, CommandsInv, NEW c \in Commands, Unwatch(c)
    PROVE  CommandsInv'
  <1> DEFINE m == command[c].msg
             h == watchers[m]
  <1>1. m \in posted /\ m \in Messages /\ command[c] # NoCommand
    BY AtWork DEF Unwatch, TasksInv
  <1>2. \A n \in Messages : watchers'[n] = IF n = m THEN NoHandler ELSE watchers[n]
    BY <1>1 DEF Unwatch, TasksInv
  <1>3. UNCHANGED <<posted, stored, toInit>>
    BY DEF Unwatch, discord
  <1>4. \A d \in Commands \ {c} : command[d].step \in Past => watchers'[command[d].msg] = NoHandler
    BY <1>2 DEF CommandsInv, Alone, CommandOf
  <1>5. \A n \in toInit : watchers'[n] = NoHandler
    BY <1>2 DEF CommandsInv, TasksInv
  <1>6. stored' \subseteq posted' /\ posted \subseteq posted' /\ toInit' = toInit
    BY <1>3 DEF CommandsInv
  <1>7. PICK r \in CommandOf :
           /\ command' = [command EXCEPT ![c] = r]
           /\ r # NoCommand => r.msg \in posted
           /\ r.step \in Past => h # NoHandler /\ r.msg = m
    <2>1. CASE command' = [command EXCEPT ![c] = NoCommand]
      BY <2>1, NoCommandGood
    <2>2. CASE /\ h # NoHandler
               /\ command' = [command EXCEPT ![c] = IF handler[h].state = "spawned"
                                THEN [command[c] EXCEPT !.step = "wait"] ELSE Unblocked(c)]
      <3>1. CASE handler[h].state = "spawned"
        <4> DEFINE r == [command[c] EXCEPT !.step = "wait"]
        <4>1. r \in CommandOf /\ r.msg = m /\ command' = [command EXCEPT ![c] = r]
          BY <2>2, <3>1, NextStep
        <4> HIDE DEF r
        <4> QED BY <1>1, <2>2, <4>1
      <3>2. CASE handler[h].state # "spawned" /\ command[c].kind = "update"
        <4> DEFINE r == [command[c] EXCEPT !.step = "edit"]
        <4>1. r \in CommandOf /\ r.msg = m /\ command' = [command EXCEPT ![c] = r]
          BY <2>2, <3>2, NextStep DEF Unblocked
        <4> HIDE DEF r
        <4> QED BY <1>1, <2>2, <4>1
      <3>3. CASE handler[h].state # "spawned" /\ command[c].kind # "update"
        BY <2>2, <3>3, NoCommandGood DEF Unblocked
      <3> QED BY <3>1, <3>2, <3>3
    <2> QED BY <2>1, <2>2 DEF Unwatch
  <1>8. r.step \in Past =>
           /\ watchers'[r.msg] = NoHandler
           /\ r.msg \notin toInit
           /\ \A d \in Commands \ {c} : ~(command[d].step \in Past /\ command[d].msg = r.msg)
    BY <1>1, <1>2, <1>7 DEF CommandsInv, Alone
  <1> QED BY <1>3, <1>4, <1>5, <1>6, <1>7, <1>8, OneCommand

LEMMA ProceedCommands ==
    ASSUME TasksInv, CommandsInv, NEW c \in Commands, Proceed(c)
    PROVE  CommandsInv'
  <1>1. CASE Forget(c)
    <2>1. command[c].msg \in posted
      BY <1>1, AtWork DEF Forget
    <2>2. /\ command' = [command EXCEPT ![c] = [command[c] EXCEPT !.step = "unwatch"]]
          /\ stored' \subseteq posted /\ UNCHANGED <<toInit, posted, watchers>>
      BY <1>1 DEF Forget, discord, CommandsInv
    <2>3. /\ [command[c] EXCEPT !.step = "unwatch"] \in CommandOf
          /\ [command[c] EXCEPT !.step = "unwatch"].step \notin Past
          /\ [command[c] EXCEPT !.step = "unwatch"].msg = command[c].msg
      BY NextStep DEF Past
    <2> QED BY <2>1, <2>2, <2>3, OneCommandUnwatched
  <1>2. CASE Unwatch(c)
    BY <1>2, UnwatchCommands
  <1>3. CASE Edit(c)
    <2>1. command[c].msg \in posted /\ command[c].step \in Past
      BY <1>3, AtWork DEF Edit, Past
    <2>2. stored' \subseteq posted /\ UNCHANGED <<toInit, posted, watchers>>
      BY <1>3 DEF Edit, discord, CommandsInv
    <2>3. CASE command' = [command EXCEPT ![c].step = "store"]
      <3>1. /\ [command[c] EXCEPT !.step = "store"] \in CommandOf
            /\ [command[c] EXCEPT !.step = "store"].msg = command[c].msg
        BY NextStep
      <3> QED BY <2>1, <2>2, <2>3, <3>1, OneCommandUnwatched
    <2>4. CASE command' = [command EXCEPT ![c] = NoCommand]
      BY <2>2, <2>4, NoCommandGood, OneCommandUnwatched
    <2> QED BY <1>3, <2>3, <2>4 DEF Edit
  <1>4. CASE Store(c)
    <2>1. command[c].msg \in posted /\ command[c].step \in Past
      BY <1>4, AtWork DEF Store, Past
    <2>2. /\ command' = [command EXCEPT ![c] = [command[c] EXCEPT !.step = "watch"]]
          /\ stored' \subseteq posted /\ UNCHANGED <<toInit, posted, watchers>>
      BY <1>4, <2>1 DEF Store, discord, CommandsInv
    <2>3. /\ [command[c] EXCEPT !.step = "watch"] \in CommandOf
          /\ [command[c] EXCEPT !.step = "watch"].msg = command[c].msg
      BY NextStep
    <2> QED BY <2>1, <2>2, <2>3, OneCommandUnwatched
  <1>5. ASSUME NEW h \in Handlers, Watch(c, h)
        PROVE  CommandsInv'
    <2>1. \A n \in Messages : watchers'[n] = IF n = command[c].msg THEN h ELSE watchers[n]
      BY <1>5 DEF Watch, TasksInv, CommandsInv, CommandOf
    <2>2. command[c].step \in Past
      BY <1>5 DEF Watch, Past
    <2>3. \A d \in Commands \ {c} :
             command[d].step \in Past => watchers'[command[d].msg] = NoHandler
      BY <2>1, <2>2 DEF CommandsInv, Alone, CommandOf
    <2>4. \A n \in toInit : watchers'[n] = NoHandler
      BY <2>1, <2>2 DEF CommandsInv, Alone, TasksInv
    <2>5. /\ UNCHANGED <<posted, stored, toInit>>
          /\ command' = [command EXCEPT ![c] = NoCommand]
      BY <1>5 DEF Watch, discord
    <2>6. stored' \subseteq posted' /\ posted \subseteq posted' /\ toInit' = toInit
      BY <2>5 DEF CommandsInv
    <2> QED BY <2>3, <2>4, <2>5, <2>6, NoCommandGood, OneCommand
  <1> QED BY <1>1, <1>2, <1>3, <1>4, <1>5 DEF Proceed

LEMMA RestartCommands ==
    ASSUME TasksInv, CommandsInv, Restart
    PROVE  CommandsInv'
  BY NoCommandGood DEF Restart, discord, TasksInv, CommandsInv, Alone

LEMMA NextCommands ==
    ASSUME TasksInv, CommandsInv, [Next]_vars
    PROVE  CommandsInv'
  <1>1. CASE UNCHANGED vars
    BY <1>1, SameCommands DEF vars, discord
  <1>2. ASSUME NEW m \in Messages, NEW u \in Members, React(m, u) PROVE CommandsInv'
    BY <1>2, SameCommands DEF React
  <1> QED BY <1>1, <1>2, HandleCommands, InitWatcherCommands, AddCommands, BeginCommands,
             ProceedCommands, RestartCommands DEF Next, Arrive

-----------------------------------------------------------------------------
(* What is stored is served *)

LEMMA InitContended == Init => ContendedInv
  BY NoCommandGood DEF Init, ContendedInv

(* The first three facts depend on what commands there are.                *)
LEMMA SameContended ==
    ASSUME ContendedInv, UNCHANGED <<stored, toInit, contended, command>>,
           \A m \in stored : Served(m) => Served(m)'
    PROVE  ContendedInv'
  BY DEF ContendedInv

(* A step of one command that is at work, at the same message.             *)
LEMMA OneContended ==
    ASSUME CommandsInv, ContendedInv, NEW c \in Commands, NEW r \in CommandOf,
           command' = [command EXCEPT ![c] = r],
           contended \subseteq contended', contended' \subseteq Messages,
           toInit' = toInit,
           r # NoCommand => \A d \in Commands \ {c} :
               command[d] # NoCommand /\ command[d].msg = r.msg => r.msg \in contended',
           r.step \in {"unwatch", "wait", "edit", "store"} /\ r.msg \notin contended'
               => r.msg \notin stored',
           \A m \in stored' \ stored : r.msg = m /\ r.step = "watch" /\ r # NoCommand,
           \A m \in stored' \cap stored :
               m \notin contended' /\ Served(m) => Served(m)',
           \A m \in stored' \cap stored :
               command[c].step = "watch" /\ command[c].msg = m => Served(m)'
    PROVE  ContendedInv'
  <1>1. \A d \in Commands : command'[d] = IF d = c THEN r ELSE command[d]
    BY DEF CommandsInv
  <1>2. ASSUME NEW d \in Commands, NEW e \in Commands,
               command'[d] # NoCommand, command'[e] # NoCommand,
               command'[d].msg = command'[e].msg, d # e
        PROVE  command'[d].msg \in contended'
    BY <1>1, <1>2 DEF ContendedInv
  <1>3. ASSUME NEW d \in Commands,
               command'[d].step \in {"unwatch", "wait", "edit", "store"},
               command'[d].msg \notin contended'
        PROVE  command'[d].msg \notin stored'
    <2>1. CASE d = c
      BY <1>1, <1>3, <2>1
    <2>2. CASE d # c
      <3>1. command[d] # NoCommand /\ command[d].msg \notin stored
        BY <1>1, <1>3, <2>2, AtWork DEF ContendedInv
      <3>2. command[d].msg \in stored' => r # NoCommand /\ r.msg = command[d].msg
        BY <3>1
      <3> QED BY <1>1, <1>3, <2>2, <3>1, <3>2
    <2> QED BY <2>1, <2>2
  <1>4. ASSUME NEW m \in stored' \ (toInit' \cup contended')
        PROVE  Served(m)' \/ \E d \in Commands : command'[d].msg = m /\ command'[d].step = "watch"
    <2>1. CASE m \notin stored
      BY <1>1, <2>1
    <2>2. CASE m \in stored
      <3>1. CASE Served(m)
        BY <1>4, <2>2, <3>1
      <3>2. CASE \E d \in Commands : command[d].msg = m /\ command[d].step = "watch"
        BY <1>1, <1>4, <2>2, <3>2
      <3> QED BY <1>4, <2>2, <3>1, <3>2 DEF ContendedInv
    <2> QED BY <2>1, <2>2
  <1> QED BY <1>2, <1>3, <1>4 DEF ContendedInv

LEMMA ReactContended ==
    ASSUME TasksInv, CommandsInv, ContendedInv, NEW m \in Messages, NEW u \in Members, React(m, u)
    PROVE  ContendedInv'
  <1>1. UNCHANGED <<stored, toInit, contended, command, watchers>>
    BY DEF React
  <1>2. \A h \in Handlers : handler'[h].state = handler[h].state
    BY ReactedTask
  <1>3. \A n \in Messages : Served(n) => Served(n)'
    BY <1>1, <1>2 DEF Served, TasksInv
  <1>4. stored \subseteq Messages
    BY DEF TasksInv, CommandsInv
  <1> QED BY <1>1, <1>3, <1>4, SameContended

(* A message is served as long as its watcher's task is not ended.         *)
LEMMA StaysServed ==
    ASSUME TasksInv, NEW m \in Messages, NEW h \in Handlers,
           watchers'[m] = watchers[m],
           \A g \in Handlers \ {h} : handler'[g] = handler[g],
           watchers[m] = h => handler'[h].state \in Live
    PROVE  Served(m) => Served(m)'
  BY DEF Served, TasksInv

(* Only handlers that were cancelled, and are in no watcher, or that serve *)
(* a message that is not stored end.                                       *)
LEMMA HandleServed ==
    ASSUME TasksInv, NEW h \in Handlers, Handle(h), NEW m \in stored, m \in Messages
    PROVE  Served(m) => Served(m)'
  <1>1. watchers' = watchers
    BY DEF Handle, FirstPoll, Cancelled, TakeReaction, MemberUnknown, FindRole, ChangeRole,
           ChangeRoleFails, discord
  <1>2. \A g \in Handlers \ {h} : handler'[g] = handler[g]
    BY DEF Handle, FirstPoll, Cancelled, TakeReaction, MemberUnknown, FindRole, ChangeRole,
           ChangeRoleFails, TasksInv, End
  <1>3. ASSUME watchers[m] = h PROVE handler'[h].state \in Live
    <2>1. handler[h].msg = m /\ ~handler[h].cancelled
      BY <1>3, WatchersTask
    <2> QED BY <2>1, HandlerTypes
            DEF Handle, FirstPoll, Cancelled, TakeReaction, MemberUnknown, FindRole, ChangeRole,
                ChangeRoleFails, TasksInv, Task, Live
  <1> QED BY <1>1, <1>2, <1>3, StaysServed

LEMMA HandleContended ==
    ASSUME TasksInv, CommandsInv, ContendedInv, NEW h \in Handlers, Handle(h)
    PROVE  ContendedInv'
  <1>1. \A m \in stored : Served(m) => Served(m)'
    BY HandleServed DEF TasksInv, CommandsInv
  <1>2. UNCHANGED <<stored, toInit, contended>>
    BY DEF Handle, FirstPoll, Cancelled, TakeReaction, MemberUnknown, FindRole, ChangeRole,
           ChangeRoleFails
  <1>3. CASE FirstPoll(h)
    <2>1. \A d \in Commands : \/ command'[d] = command[d]
                              \/ command[d].step = "wait" /\ command'[d] = Unblocked(d)
      BY <1>3 DEF FirstPoll
    <2>2. \A d \in Commands : command[d].step = "wait" =>
             /\ command[d] # NoCommand
             /\ \/ Unblocked(d) = NoCommand
                \/ Unblocked(d).msg = command[d].msg /\ Unblocked(d).step = "edit"
      BY NextStep, AtWork DEF Unblocked
    <2>3. \A d \in Commands : command'[d] # NoCommand =>
             command[d] # NoCommand /\ command'[d].msg = command[d].msg
      BY <2>1, <2>2
    <2>4. \A d \in Commands : command'[d].step \in {"unwatch", "wait", "edit", "store"} =>
             command[d].step \in {"unwatch", "wait", "edit", "store"}
             /\ command'[d].msg = command[d].msg
      BY <2>1, <2>2, NoCommandGood
    <2>5. \A d \in Commands : command[d].step = "watch" => command'[d] = command[d]
      BY <2>1
    <2>6. ASSUME NEW m \in stored' \ (toInit' \cup contended')
          PROVE  Served(m)' \/ \E d \in Commands : command'[d].msg = m /\ command'[d].step = "watch"
      BY <1>1, <1>2, <2>5 DEF ContendedInv
    <2> QED BY <1>2, <2>3, <2>4, <2>6 DEF ContendedInv
  <1>4. CASE ~FirstPoll(h)
    <2>1. command' = command
      BY <1>4 DEF Handle, Cancelled, TakeReaction, MemberUnknown, FindRole, ChangeRole,
                  ChangeRoleFails
    <2> QED BY <1>1, <1>2, <2>1, SameContended
  <1> QED BY <1>3, <1>4

(* A new task serves its message.                                          *)
LEMMA SpawnedServes ==
    ASSUME TasksInv, NEW h \in Handlers, NEW m \in Messages, handler[h].state = "free",
           watchers' = [watchers EXCEPT ![m] = h],
           handler' = [handler EXCEPT ![h] = Spawned(m)]
    PROVE  /\ Served(m)'
           /\ \A n \in Messages : Served(n) => Served(n)'
  <1>1. h # NoHandler /\ Spawned(m).state = "spawned"
    BY RoleWatchersAssumption DEF Spawned, NoTask
  <1>2. watchers'[m] = h /\ handler'[h].state = "spawned"
    BY <1>1 DEF TasksInv
  <1>3. Served(m)'
    BY <1>1, <1>2 DEF Served, Live
  <1>4. \A n \in Messages : watchers[n] # h
    BY WatchersTask DEF Live
  <1>5. \A n \in Messages : Served(n) => Served(n)'
    BY <1>3, <1>4, StaysServed DEF TasksInv
  <1> QED BY <1>3, <1>5

LEMMA InitWatcherContended ==
    ASSUME TasksInv, CommandsInv, ContendedInv, NEW m \in Messages, NEW h \in Handlers,
           InitWatcher(m, h)
    PROVE  ContendedInv'
  <1>1. Served(m)' /\ \A n \in Messages : Served(n) => Served(n)'
    BY SpawnedServes DEF InitWatcher, Spare
  <1>2. UNCHANGED <<stored, contended, command>> /\ toInit' = toInit \ {m}
    BY DEF InitWatcher
  <1>3. stored \subseteq Messages
    BY DEF TasksInv, CommandsInv
  <1> QED BY <1>1, <1>2, <1>3 DEF ContendedInv

(* Nobody is at work on a message that is not there yet.                   *)
LEMMA AddContended ==
    ASSUME TasksInv, CommandsInv, ContendedInv, NEW c \in Commands, NEW m \in Messages, Add(c, m)
    PROVE  ContendedInv'
  <1> DEFINE r == [kind |-> "add", step |-> "edit", msg |-> m]
  <1>1. r \in CommandOf /\ r.step = "edit" /\ r.msg = m
    BY DEF CommandOf
  <1>2. command' = [command EXCEPT ![c] = r] /\ command[c] = NoCommand
    BY DEF Add
  <1> HIDE DEF r
  <1>3. m \notin posted /\ UNCHANGED <<stored, toInit, contended, watchers, handler>>
    BY DEF Add
  <1>4. \A d \in Commands : command[d] # NoCommand => command[d].msg # m
    BY <1>3 DEF CommandsInv
  <1>5. m \notin stored
    BY <1>3 DEF CommandsInv
  <1>6. \A n : Served(n)' <=> Served(n)
    BY <1>3 DEF Served
  <1>7. contended' \subseteq Messages
    BY <1>3 DEF ContendedInv
  <1> QED BY <1>1, <1>2, <1>3, <1>4, <1>5, <1>6, <1>7, NoCommandGood, OneContended

LEMMA BeginContended ==
    ASSUME TasksInv, CommandsInv, ContendedInv, NEW c \in Commands, NEW m \in Messages,
           NEW kind \in {"update", "delete"}, Begin(c, kind, m)
    PROVE  ContendedInv'
  <1> DEFINE r == [kind |-> kind, step |-> "forget", msg |-> m]
  <1>1. r \in CommandOf /\ r.step = "forget" /\ r.msg = m
    BY DEF CommandOf
  <1>2. command' = [command EXCEPT ![c] = r] /\ command[c] = NoCommand
    BY DEF Begin
  <1> HIDE DEF r
  <1>3. UNCHANGED <<stored, toInit, watchers, handler>>
    BY DEF Begin
  <1>4. /\ contended \subseteq contended' /\ contended' \subseteq Messages
        /\ (\E d \in Commands : command[d] # NoCommand /\ command[d].msg = m) => m \in contended'
    BY DEF Begin, ContendedInv
  <1>5. \A n : Served(n)' <=> Served(n)
    BY <1>3 DEF Served
  <1> QED BY <1>1, <1>2, <1>3, <1>4, <1>5, NoCommandGood, OneContended

(* A command that goes on at its message meets whom it met before.         *)
LEMMA SameCompany ==
    ASSUME CommandsInv, ContendedInv, NEW c \in Commands, command[c].step # "none"
    PROVE  \A d \in Commands \ {c} :
               command[d] # NoCommand /\ command[d].msg = command[c].msg
                   => command[c].msg \in contended
  BY AtWork DEF ContendedInv

LEMMA GoesOnContended ==
    ASSUME CommandsInv, ContendedInv, NEW c \in Commands,
           NEW step \in {"unwatch", "store", "watch"},
           command' = [command EXCEPT ![c].step = step],
           command[c].step \in {"forget", "edit", "store"},
           step = "store" => command[c].step = "edit",
           UNCHANGED <<toInit, contended, watchers, handler>>,
           step # "watch" => stored' \subseteq stored,
           step = "unwatch" => command[c].msg \notin stored',
           step = "watch" => stored' = stored \cup {command[c].msg}
    PROVE  ContendedInv'
  <1> DEFINE r == [command[c] EXCEPT !.step = step]
  <1>1. r \in CommandOf /\ r.step = step /\ r.msg = command[c].msg
    BY NextStep
  <1>2. command' = [command EXCEPT ![c] = r]
    OBVIOUS
  <1> HIDE DEF r
  <1>3. \A d \in Commands : command'[d] = IF d = c THEN r ELSE command[d]
    BY <1>2 DEF CommandsInv
  <1>4. r # NoCommand /\ command[c] # NoCommand
    BY <1>1, AtWork, NoCommandGood
  <1>5. \A m : Served(m)' <=> Served(m)
    BY DEF Served
  <1>6. ASSUME NEW d \in Commands, NEW e \in Commands,
               command'[d] # NoCommand, command'[e] # NoCommand,
               command'[d].msg = command'[e].msg, d # e
        PROVE  command'[d].msg \in contended'
    BY <1>1, <1>3, <1>4, <1>6 DEF ContendedInv
  <1>7. ASSUME NEW d \in Commands,
               command'[d].step \in {"unwatch", "wait", "edit", "store"},
               command'[d].msg \notin contended'
        PROVE  command'[d].msg \notin stored'
    <2>1. CASE d = c
      <3>1. command'[d].msg = command[c].msg /\ step \in {"unwatch", "store"}
        BY <1>1, <1>3, <1>7, <2>1
      <3> QED BY <1>7, <3>1 DEF ContendedInv
    <2>2. CASE d # c
      <3>1. command'[d] = command[d] /\ command[d] # NoCommand /\ command[d].msg \notin stored
        BY <1>3, <1>7, <2>2, AtWork DEF ContendedInv
      <3>2. command[d].msg # command[c].msg
        BY <1>4, <1>7, <2>2, <3>1 DEF ContendedInv
      <3> QED BY <3>1, <3>2
    <2> QED BY <2>1, <2>2
  <1>8. ASSUME NEW m \in stored' \ (toInit' \cup contended')
        PROVE  Served(m)' \/ \E d \in Commands : command'[d].msg = m /\ command'[d].step = "watch"
    <2>1. CASE m \in stored
      <3>1. Served(m) \/ \E d \in Commands \ {c} : command[d].msg = m /\ command[d].step = "watch"
        BY <1>8, <2>1 DEF ContendedInv
      <3> QED BY <1>3, <1>5, <3>1
    <2>2. CASE m \notin stored
      BY <1>1, <1>3, <2>2
    <2> QED BY <2>1, <2>2
  <1> QED BY <1>6, <1>7, <1>8 DEF ContendedInv

LEMMA UnwatchContended ==
    ASSUME TasksInv, CommandsInv, ContendedInv, NEW c \in Commands, Unwatch(c)
    PROVE  ContendedInv'
  <1> DEFINE m == command[c].msg
             h == watchers[m]
  <1>1. m \in Messages /\ m \in posted /\ command[c].step = "unwatch" /\ stored \subseteq Messages
    BY AtWork DEF Unwatch, TasksInv, CommandsInv
  <1>2. UNCHANGED <<stored, toInit, contended>>
    BY DEF Unwatch
  <1>3. m \notin contended => m \notin stored
    BY <1>1 DEF ContendedInv
  <1>4. ASSUME NEW n \in stored, n # m PROVE Served(n) => Served(n)'
    <2>1. watchers'[n] = watchers[n] /\ n \in Messages
      BY <1>1, <1>4 DEF Unwatch, TasksInv
    <2>2. \A g \in Handlers : g # h => handler'[g] = handler[g]
      BY <1>1 DEF Unwatch, TasksInv
    <2>3. watchers[n] # NoHandler => watchers[n] # h
      BY <1>1, <1>4, <2>1 DEF TasksInv, WatcherGood
    <2> QED BY <2>1, <2>2, <2>3 DEF Served, TasksInv
  <1>5. PICK r \in CommandOf :
           /\ command' = [command EXCEPT ![c] = r]
           /\ r = NoCommand \/ (r.msg = m /\ r.step \in {"wait", "edit"})
    <2>1. CASE command' = [command EXCEPT ![c] = NoCommand]
      BY <2>1, NoCommandGood
    <2>2. CASE command' = [command EXCEPT ![c] = IF handler[h].state = "spawned"
                                THEN [command[c] EXCEPT !.step = "wait"] ELSE Unblocked(c)]
      <3>1. CASE handler[h].state = "spawned"
        <4> DEFINE r == [command[c] EXCEPT !.step = "wait"]
        <4>1. /\ r \in CommandOf /\ r.msg = m /\ r.step = "wait"
              /\ command' = [command EXCEPT ![c] = r]
          BY <2>2, <3>1, NextStep
        <4> HIDE DEF r
        <4> QED BY <4>1
      <3>2. CASE handler[h].state # "spawned" /\ command[c].kind = "update"
        <4> DEFINE r == [command[c] EXCEPT !.step = "edit"]
        <4>1. /\ r \in CommandOf /\ r.msg = m /\ r.step = "edit"
              /\ command' = [command EXCEPT ![c] = r]
          BY <2>2, <3>2, NextStep DEF Unblocked
        <4> HIDE DEF r
        <4> QED BY <4>1
      <3>3. CASE handler[h].state # "spawned" /\ command[c].kind # "update"
        BY <2>2, <3>3, NoCommandGood DEF Unblocked
      <3> QED BY <3>1, <3>2, <3>3
    <2> QED BY <2>1, <2>2 DEF Unwatch
  <1>6. r # NoCommand => \A d \in Commands \ {c} :
            command[d] # NoCommand /\ command[d].msg = r.msg => r.msg \in contended'
    BY <1>1, <1>2, <1>5, SameCompany
  <1>7. r.step \in {"unwatch", "wait", "edit", "store"} => r.msg = m
    BY <1>5, NoCommandGood
  <1>8. \A n \in stored : n \notin contended' /\ Served(n) => Served(n)'
    BY <1>2, <1>3, <1>4
  <1>9. contended' \subseteq Messages
    BY <1>2 DEF ContendedInv
  <1> HIDE DEF m, h
  <1> QED BY <1>1, <1>2, <1>3, <1>5, <1>6, <1>7, <1>8, <1>9, OneContended

LEMMA ProceedContended ==
    ASSUME TasksInv, CommandsInv, ContendedInv, NEW c \in Commands, Proceed(c)
    PROVE  ContendedInv'
  <1>1. CASE Forget(c)
    BY <1>1, GoesOnContended DEF Forget
  <1>2. CASE Unwatch(c)
    BY <1>2, UnwatchContended
  <1>3. CASE Edit(c)
    <2>1. CASE command' = [command EXCEPT ![c].step = "store"]
      BY <1>3, <2>1, GoesOnContended DEF Edit
    <2>2. CASE command' = [command EXCEPT ![c] = NoCommand]
      <3>1. UNCHANGED <<stored, toInit, contended, watchers, handler>> /\ command[c].step = "edit"
        BY <1>3 DEF Edit
      <3>2. \A m : Served(m)' <=> Served(m)
        BY <3>1 DEF Served
      <3>3. contended' \subseteq Messages
        BY <3>1 DEF ContendedInv
      <3> QED BY <2>2, <3>1, <3>2, <3>3, NoCommandGood, OneContended
    <2> QED BY <1>3, <2>1, <2>2 DEF Edit
  <1>4. CASE Store(c)
    BY <1>4, GoesOnContended DEF Store
  <1>5. ASSUME NEW h \in Handlers, Watch(c, h)
        PROVE  ContendedInv'
    <2>1. stored \subseteq Messages
      BY DEF CommandsInv, TasksInv
    <2> PICK m \in Messages : m = command[c].msg
      BY DEF CommandsInv, CommandOf
    <2>2. Served(m)' /\ \A n \in Messages : Served(n) => Served(n)'
      BY <1>5, SpawnedServes DEF Watch, Spare
    <2>3. /\ UNCHANGED <<stored, toInit, contended>>
          /\ command' = [command EXCEPT ![c] = NoCommand]
      BY <1>5 DEF Watch
    <2>4. contended' \subseteq Messages
      BY <2>3 DEF ContendedInv
    <2> QED BY <2>1, <2>2, <2>3, <2>4, NoCommandGood, OneContended
  <1> QED BY <1>1, <1>2, <1>3, <1>4, <1>5 DEF Proceed

LEMMA RestartContended ==
    ASSUME TasksInv, CommandsInv, ContendedInv, Restart
    PROVE  ContendedInv'
  BY NoCommandGood DEF Restart, ContendedInv

LEMMA NextContended ==
    ASSUME TasksInv, CommandsInv, ContendedInv, [Next]_vars
    PROVE  ContendedInv'
  <1>1. CASE UNCHANGED vars
    <2>1. \A m : Served(m)' <=> Served(m)
      BY <1>1 DEF vars, Served
    <2> QED BY <1>1, <2>1, SameContended DEF vars
  <1> QED BY <1>1, ReactContended, HandleContended, InitWatcherContended, AddContended,
             BeginContended, ProceedContended, RestartContended DEF Next, Arrive

-----------------------------------------------------------------------------
(* What the reactions of a queue come to *)

LEMMA NothingComesOut ==
    ASSUME NEW u, NEW has, NEW wants
    PROVE  ComesOut(<<>>, u, has, wants) <=> (has <=> wants)
  BY DEF ComesOut, LastOf

(* The newest reaction of a member decides.                                *)
LEMMA AppendComesOut ==
    ASSUME NEW q \in Seq(Reaction), NEW u \in Members, NEW add \in BOOLEAN, NEW has
    PROVE  ComesOut(Append(q, <<u, add>>), u, has, add)
  <1> DEFINE p == Append(q, <<u, add>>)
  <1>1. Len(p) = Len(q) + 1 /\ p[Len(q) + 1] = <<u, add>> /\ Len(q) \in Nat
    OBVIOUS
  <1>2. ~ \A i \in 1..Len(p) : p[i][1] # u
    BY <1>1
  <1>3. ASSUME NEW i \in 1..Len(p), LastOf(p, u, i) PROVE i = Len(q) + 1
    BY <1>1, <1>3 DEF LastOf
  <1> HIDE DEF p
  <1>4. \A i \in 1..Len(p) : LastOf(p, u, i) => (p[i][2] <=> add)
    BY <1>1, <1>3
  <1> QED BY <1>2, <1>4 DEF ComesOut, p

(* It says nothing of anybody else.                                        *)
LEMMA AppendOthers ==
    ASSUME NEW q \in Seq(Reaction), NEW r \in Reaction, NEW u, r[1] # u, NEW has, NEW wants,
           ComesOut(q, u, has, wants)
    PROVE  ComesOut(Append(q, r), u, has, wants)
  <1> DEFINE p == Append(q, r)
  <1>1. /\ Len(p) = Len(q) + 1 /\ p[Len(q) + 1] = r /\ Len(q) \in Nat
        /\ \A i \in 1..Len(q) : p[i] = q[i]
    OBVIOUS
  <1> HIDE DEF p
  <1>2. (\A i \in 1..Len(p) : p[i][1] # u) => \A i \in 1..Len(q) : q[i][1] # u
    BY <1>1
  <1>3. ASSUME NEW i \in 1..Len(p), LastOf(p, u, i)
        PROVE  i \in 1..Len(q) /\ LastOf(q, u, i) /\ p[i] = q[i]
    <2>1. i # Len(q) + 1
      BY <1>1, <1>3 DEF LastOf
    <2>2. i \in 1..Len(q)
      BY <1>1, <2>1
    <2>3. \A j \in (i + 1)..Len(q) : j \in (i + 1)..Len(p) /\ j \in 1..Len(q)
      BY <1>1, <2>2
    <2> QED BY <1>1, <1>3, <2>2, <2>3 DEF LastOf
  <1> QED BY <1>2, <1>3 DEF ComesOut, p

(* Handling the oldest reaction brings the role to what it says.           *)
LEMMA TailShifts ==
    ASSUME NEW q \in Seq(Reaction), q # <<>>
    PROVE  /\ Len(q) \in Nat /\ Len(q) >= 1 /\ Len(Tail(q)) = Len(q) - 1
           /\ \A i \in 1..Len(Tail(q)) : Tail(q)[i] = q[i + 1] /\ i + 1 \in 1..Len(q)
           /\ \A i \in 2..Len(q) : q[i] = Tail(q)[i - 1] /\ i - 1 \in 1..Len(Tail(q))
  OBVIOUS

LEMMA TailLast ==
    ASSUME NEW q \in Seq(Reaction), q # <<>>, NEW u, NEW i \in 1..Len(Tail(q)),
           LastOf(Tail(q), u, i)
    PROVE  LastOf(q, u, i + 1) /\ q[i + 1] = Tail(q)[i] /\ i + 1 \in 1..Len(q)
  <1> DEFINE t == Tail(q)
  <1>1. /\ Len(q) \in Nat /\ Len(q) >= 1 /\ Len(t) = Len(q) - 1
        /\ \A j \in 2..Len(q) : q[j] = t[j - 1] /\ j - 1 \in 1..Len(t)
    BY TailShifts
  <1> HIDE DEF t
  <1>2. i \in 1..Len(t) /\ LastOf(t, u, i)
    BY DEF t
  <1>3. i + 1 \in 2..Len(q) /\ (i + 1) - 1 = i
    BY <1>1, <1>2
  <1>4. ASSUME NEW j \in ((i + 1) + 1)..Len(q) PROVE q[j][1] # u
    <2>1. j \in 2..Len(q) /\ j - 1 \in (i + 1)..Len(t)
      BY <1>1, <1>2
    <2> QED BY <1>1, <1>2, <2>1 DEF LastOf
  <1>5. q[i + 1] = t[i]
    BY <1>1, <1>3
  <1> QED BY <1>1, <1>2, <1>3, <1>4, <1>5 DEF LastOf, t

LEMMA TailComesOut ==
    ASSUME NEW q \in Seq(Reaction), q # <<>>, NEW u, NEW has, NEW wants,
           ComesOut(q, u, has, wants)
    PROVE  ComesOut(Tail(q), u, IF q[1][1] = u THEN q[1][2] ELSE has, wants)
  <1> DEFINE t == Tail(q)
             now == IF q[1][1] = u THEN q[1][2] ELSE has
  <1>1. /\ Len(q) \in Nat /\ Len(q) >= 1 /\ Len(t) = Len(q) - 1
        /\ \A i \in 2..Len(q) : q[i] = t[i - 1] /\ i - 1 \in 1..Len(t)
    BY TailShifts
  <1>2. \A i \in 1..Len(t) : LastOf(t, u, i) => (t[i][2] <=> wants)
    BY TailLast DEF ComesOut
  <1>3. ASSUME \A i \in 1..Len(t) : t[i][1] # u PROVE now <=> wants
    <2> HIDE DEF t
    <2>1. \A i \in 2..Len(q) : q[i][1] # u
      BY <1>1, <1>3
    <2>2. CASE q[1][1] = u
      <3>1. LastOf(q, u, 1) /\ 1 \in 1..Len(q)
        BY <1>1, <2>1, <2>2 DEF LastOf
      <3>2. now <=> q[1][2]
        BY <2>2
      <3>3. q[1][2] <=> wants
        BY <3>1 DEF ComesOut
      <3> QED BY <3>2, <3>3
    <2>3. CASE q[1][1] # u
      <3>1. \A i \in 1..Len(q) : q[i][1] # u
        <4>1. \A i \in 1..Len(q) : i = 1 \/ i \in 2..Len(q)
          BY <1>1
        <4> QED BY <2>1, <2>3, <4>1
      <3> QED BY <2>3, <3>1 DEF ComesOut
    <2> QED BY <2>2, <2>3
  <1> HIDE DEF t, now
  <1>4. ComesOut(t, u, now, wants)
    BY <1>2, <1>3 DEF ComesOut
  <1> QED BY <1>4 DEF t, now

-----------------------------------------------------------------------------
(* Roles follow reactions *)

(* What a message nobody disturbed shows.                                  *)
RoleGood(m) ==
    m \notin disturbed =>
        /\ \A u \in Members : ComesOut(Pending(m), u, <<m, u>> \in holds, <<m, u>> \in reacted)
        /\ \A h \in Handlers : handler[h].msg = m /\ handler[h].cancelled
                                  => handler[h].state \notin Busy

LEMMA RolesPerMessage ==
    RolesInv <=> disturbed \subseteq Messages /\ \A m \in Messages : RoleGood(m)
  BY DEF RolesInv, RoleGood

LEMMA InitRoles == Init => RolesInv
  <1> SUFFICES ASSUME Init PROVE RolesInv
    OBVIOUS
  <1>1. \A m \in Messages : Pending(m) = <<>>
    BY DEF Init, Pending
  <1>2. \A h \in Handlers : ~handler[h].cancelled
    BY DEF Init, NoTask
  <1>3. \A m \in Messages, u \in Members :
           ComesOut(Pending(m), u, <<m, u>> \in holds, <<m, u>> \in reacted)
    BY <1>1, NothingComesOut DEF Init
  <1> QED BY <1>2, <1>3 DEF RolesInv, Init

LEMMA SameRoles ==
    ASSUME RolesInv, UNCHANGED <<watchers, handler, holds, reacted, disturbed>>
    PROVE  RolesInv'
  <1>1. \A m : Pending(m)' = Pending(m)
    BY DEF Pending
  <1> QED BY <1>1 DEF RolesInv

LEMMA ReactRoles ==
    ASSUME TasksInv, RolesInv, NEW m \in Messages, NEW u \in Members, React(m, u)
    PROVE  RolesInv'
  <1> DEFINE add == <<m, u>> \notin reacted
  <1>1. /\ UNCHANGED <<watchers, holds>> /\ disturbed' \subseteq Messages /\ disturbed \subseteq disturbed'
        /\ \A n, v : <<n, v>> # <<m, u>> => (<<n, v>> \in reacted' <=> <<n, v>> \in reacted)
        /\ <<m, u>> \in reacted' <=> add
    BY DEF React, RolesInv
  <1>2. \A h \in Handlers : /\ handler'[h].msg = handler[h].msg
                            /\ handler'[h].state = handler[h].state
                            /\ handler'[h].cancelled = handler[h].cancelled
                            /\ handler'[h].queue = IF Subscribed(h, m)
                                                   THEN Append(handler[h].queue, <<u, add>>)
                                                   ELSE handler[h].queue
    BY ReactedTask
  <1>3. ASSUME NEW n \in Messages, n # m PROVE RoleGood(n)'
    <2>1. Pending(n)' = Pending(n)
      <3>1. watchers[n] # NoHandler => watchers[n] \in Handlers /\ ~Subscribed(watchers[n], m)
        BY <1>3 DEF TasksInv, WatcherGood, Subscribed
      <3> QED BY <1>1, <1>2, <3>1 DEF Pending
    <2>2. \A v \in Members : <<n, v>> \in holds' <=> <<n, v>> \in holds
      BY <1>1
    <2>3. \A v \in Members : <<n, v>> \in reacted' <=> <<n, v>> \in reacted
      BY <1>1, <1>3
    <2>4. n \notin disturbed' => RoleGood(n) /\ n \notin disturbed
      BY <1>1, RolesPerMessage
    <2>5. ASSUME n \notin disturbed', NEW v \in Members
          PROVE  ComesOut(Pending(n), v, <<n, v>> \in holds', <<n, v>> \in reacted')
      BY <2>2, <2>3, <2>4, <2>5 DEF RoleGood, ComesOut
    <2> QED BY <1>2, <2>1, <2>4, <2>5 DEF RoleGood
  <1>4. RoleGood(m)'
    <2> SUFFICES ASSUME m \notin disturbed' PROVE RoleGood(m)'
      BY DEF RoleGood
    <2>1. PICK h \in Handlers : Subscribed(h, m) /\ ~handler[h].cancelled
      BY DEF React
    <2>2. watchers[m] = h
      BY <2>1 DEF Subscribed, TasksInv, OneHandlerPerMessage, Live, Busy
    <2>3. h # NoHandler
      BY RoleWatchersAssumption
    <2>4. Pending(m) = handler[h].queue /\ Pending(m)' = Append(handler[h].queue, <<u, add>>)
      BY <1>1, <1>2, <2>1, <2>2, <2>3 DEF Pending
    <2>5. handler[h].queue \in Seq(Reaction)
      BY HandlerTypes
    <2>6. RoleGood(m) /\ m \notin disturbed
      BY <1>1, RolesPerMessage
    <2>7. add \in BOOLEAN /\ <<u, add>> \in Reaction
      BY DEF Reaction
    <2> HIDE DEF add
    <2>8. ASSUME NEW v \in Members
          PROVE  ComesOut(Pending(m)', v, <<m, v>> \in holds', <<m, v>> \in reacted')
      <3>1. CASE v = u
        <4>1. ComesOut(Pending(m)', v, <<m, v>> \in holds', add)
          BY <2>4, <2>5, <2>7, <3>1, AppendComesOut
        <4>2. <<m, v>> \in reacted' <=> add
          BY <1>1, <3>1
        <4> QED BY <4>1, <4>2 DEF ComesOut
      <3>2. CASE v # u
        <4>1. ComesOut(Pending(m), v, <<m, v>> \in holds, <<m, v>> \in reacted)
          BY <2>6 DEF RoleGood
        <4>2. ComesOut(Pending(m)', v, <<m, v>> \in holds, <<m, v>> \in reacted)
          <5>1. <<u, add>>[1] # v
            BY <3>2
          <5> QED BY <2>4, <2>5, <2>7, <4>1, <5>1, AppendOthers
        <4>3. (<<m, v>> \in reacted' <=> <<m, v>> \in reacted) /\ (<<m, v>> \in holds' <=> <<m, v>> \in holds)
          BY <1>1, <3>2
        <4> QED BY <4>2, <4>3 DEF ComesOut
      <3> QED BY <3>1, <3>2
    <2> QED BY <1>2, <2>6, <2>8 DEF RoleGood
  <1> QED BY <1>1, <1>3, <1>4 DEF RolesInv, RoleGood

(* What a step of one task has to show of its message.                     *)
LEMMA OneRole ==
    ASSUME TasksInv, RolesInv, NEW h \in Handlers, NEW m \in Messages, m = handler[h].msg,
           \A g \in Handlers \ {h} : handler'[g] = handler[g],
           UNCHANGED <<watchers, reacted>>,
           disturbed \subseteq disturbed', disturbed' \subseteq Messages,
           \A n \in Messages \ {m}, u \in Members : <<n, u>> \in holds' <=> <<n, u>> \in holds,
           handler'[h].cancelled => handler'[h].msg = m,
           m \notin disturbed' =>
               /\ handler'[h].cancelled => handler'[h].state \notin Busy
               /\ \A u \in Members :
                     ComesOut(Pending(m)', u, <<m, u>> \in holds', <<m, u>> \in reacted)
    PROVE  RolesInv'
  <1>1. ASSUME NEW n \in Messages, n # m PROVE RoleGood(n)'
    <2>1. watchers[n] # h
      BY <1>1, WatchersTask
    <2>2. Pending(n)' = Pending(n)
      BY <2>1 DEF Pending, TasksInv
    <2>3. n \notin disturbed' => RoleGood(n) /\ n \notin disturbed
      BY RolesPerMessage
    <2>4. \A v \in Members : <<n, v>> \in holds' <=> <<n, v>> \in holds
      BY <1>1
    <2>5. ASSUME n \notin disturbed', NEW v \in Members
          PROVE  ComesOut(Pending(n), v, <<n, v>> \in holds', <<n, v>> \in reacted')
      BY <2>3, <2>4, <2>5 DEF RoleGood, ComesOut
    <2>6. ASSUME n \notin disturbed', NEW g \in Handlers, handler'[g].msg = n, handler'[g].cancelled
          PROVE  handler'[g].state \notin Busy
      BY <1>1, <2>3, <2>6 DEF RoleGood
    <2> QED BY <2>2, <2>5, <2>6 DEF RoleGood
  <1>2. RoleGood(m)'
    <2>1. m \notin disturbed' => RoleGood(m) /\ m \notin disturbed
      BY RolesPerMessage
    <2>2. ASSUME m \notin disturbed', NEW g \in Handlers, handler'[g].msg = m, handler'[g].cancelled
          PROVE  handler'[g].state \notin Busy
      BY <2>1, <2>2 DEF RoleGood
    <2> QED BY <2>2 DEF RoleGood
  <1> QED BY <1>1, <1>2 DEF RolesInv, RoleGood

(* A step of a task that leaves its reactions alone.                       *)
LEMMA QuietTask ==
    ASSUME TasksInv, RolesInv, NEW h \in Handlers,
           \A g \in Handlers \ {h} : handler'[g] = handler[g],
           UNCHANGED <<watchers, holds, reacted, disturbed>>,
           watchers[handler[h].msg] = h => handler'[h].queue = handler[h].queue,
           handler'[h].cancelled =>
               /\ handler[h].cancelled /\ handler'[h].msg = handler[h].msg
               /\ handler'[h].state \in Busy => handler[h].state \in Busy
    PROVE  RolesInv'
  <1> PICK m \in Messages : m = handler[h].msg
    BY DEF TasksInv, Task
  <1>1. RoleGood(m) /\ disturbed' \subseteq Messages
    BY RolesPerMessage
  <1>2. Pending(m)' = Pending(m)
    BY DEF Pending, TasksInv
  <1>3. m \notin disturbed' =>
               /\ handler'[h].cancelled => handler'[h].state \notin Busy
               /\ \A u \in Members :
                     ComesOut(Pending(m)', u, <<m, u>> \in holds', <<m, u>> \in reacted)
    BY <1>1, <1>2 DEF RoleGood
  <1> QED BY <1>1, <1>3, OneRole

(* A reaction of a message from now on disturbed.                          *)
LEMMA DisturbedTask ==
    ASSUME TasksInv, RolesInv, NEW h \in Handlers,
           \A g \in Handlers \ {h} : handler'[g] = handler[g],
           UNCHANGED <<watchers, holds, reacted>>,
           disturbed' = disturbed \cup {handler[h].msg},
           handler'[h].cancelled => handler'[h].msg = handler[h].msg
    PROVE  RolesInv'
  <1> PICK m \in Messages : m = handler[h].msg
    BY DEF TasksInv, Task
  <1>1. disturbed' \subseteq Messages /\ m \in disturbed'
    BY DEF RolesInv
  <1> QED BY <1>1, OneRole

LEMMA ChangeRoleRoles ==
    ASSUME TasksInv, RolesInv, NEW h \in Handlers, ChangeRole(h)
    PROVE  RolesInv'
  <1> PICK m \in Messages : m = handler[h].msg
    BY DEF TasksInv, Task
  <1> DEFINE q == handler[h].queue
             r == q[1]
  <1>1. q \in Seq(Reaction) /\ q # <<>> /\ handler[h].state = "role"
    BY HandlerTypes DEF ChangeRole, TaskGood, Busy
  <1>2. Head(q) = r /\ r \in Reaction
    BY <1>1
  <1>3. /\ handler'[h] = [handler[h] EXCEPT !.state = "idle", !.queue = Tail(@)]
        /\ \A g \in Handlers \ {h} : handler'[g] = handler[g]
    BY DEF ChangeRole, TasksInv
  <1>4. /\ handler'[h].state = "idle" /\ handler'[h].msg = m /\ handler'[h].queue = Tail(q)
        /\ handler'[h].cancelled = handler[h].cancelled
    BY <1>3, HandlerTypes DEF Task
  <1>5. /\ UNCHANGED <<watchers, reacted, disturbed>>
        /\ holds' = IF r[2] THEN holds \cup {<<m, r[1]>>} ELSE holds \ {<<m, r[1]>>}
    BY <1>2 DEF ChangeRole
  <1> HIDE DEF q, r
  <1>6. \A n, u : <<n, u>> # <<m, r[1]>> => (<<n, u>> \in holds' <=> <<n, u>> \in holds)
    BY <1>5
  <1>7. <<m, r[1]>> \in holds' <=> r[2]
    BY <1>5
  <1>8. ASSUME m \notin disturbed', NEW u \in Members
        PROVE  ComesOut(Pending(m)', u, <<m, u>> \in holds', <<m, u>> \in reacted)
    <2>1. RoleGood(m) /\ m \notin disturbed
      BY <1>5, <1>8, RolesPerMessage
    <2>2. ~handler[h].cancelled
      BY <1>1, <2>1 DEF RoleGood, Busy
    <2>3. watchers[m] = h /\ h # NoHandler
      BY <1>1, <2>2, RoleWatchersAssumption DEF TasksInv, OneHandlerPerMessage, Live
    <2>4. Pending(m) = q /\ Pending(m)' = Tail(q)
      BY <1>4, <1>5, <2>3 DEF Pending, q
    <2>5. ComesOut(q, u, <<m, u>> \in holds, <<m, u>> \in reacted)
      BY <2>1, <2>4 DEF RoleGood
    <2>6. ComesOut(Tail(q), u, IF q[1][1] = u THEN q[1][2] ELSE <<m, u>> \in holds,
                   <<m, u>> \in reacted)
      BY <1>1, <2>5, TailComesOut
    <2>7. <<m, u>> \in holds' <=> (IF q[1][1] = u THEN q[1][2] ELSE <<m, u>> \in holds)
      BY <1>6, <1>7 DEF r
    <2> QED BY <2>4, <2>6, <2>7 DEF ComesOut
  <1>9. disturbed' \subseteq Messages /\ disturbed \subseteq disturbed'
    BY <1>5 DEF RolesInv
  <1>10. \A n \in Messages \ {m}, u \in Members : <<n, u>> \in holds' <=> <<n, u>> \in holds
    BY <1>6
  <1>11. handler'[h].state \notin Busy
    BY <1>4 DEF Busy
  <1> QED BY <1>3, <1>4, <1>5, <1>8, <1>9, <1>10, <1>11, OneRole

(* What the first poll, the end and the progress of a task leave.          *)
LEMMA EndsQuietly ==
    ASSUME TasksInv, RolesInv, NEW h \in Handlers, handler[h].cancelled, handler' = End(h),
           UNCHANGED <<watchers, holds, reacted, disturbed>>
    PROVE  RolesInv'
  <1>1. watchers[handler[h].msg] # h
    BY WatchersTask, HandlerTypes DEF Task
  <1>2. handler' = [handler EXCEPT ![h] = NoTask]
    BY <1>1, EndLeaves
  <1>3. handler'[h] = NoTask /\ \A g \in Handlers \ {h} : handler'[g] = handler[g]
    BY <1>2 DEF TasksInv
  <1>4. ~handler'[h].cancelled
    BY <1>3, EndLeaves
  <1> QED BY <1>1, <1>3, <1>4, QuietTask

LEMMA StateChanges ==
    ASSUME TasksInv, NEW h \in Handlers, NEW state,
           handler' = [handler EXCEPT ![h].state = state]
    PROVE  /\ handler'[h].state = state /\ handler'[h].queue = handler[h].queue
           /\ handler'[h].cancelled = handler[h].cancelled /\ handler'[h].msg = handler[h].msg
           /\ \A g \in Handlers \ {h} : handler'[g] = handler[g]
  BY DEF TasksInv, Task

LEMMA HandleRoles ==
    ASSUME TasksInv, RolesInv, NEW h \in Handlers, Handle(h)
    PROVE  RolesInv'
  <1>1. CASE FirstPoll(h)
    <2>1. UNCHANGED <<watchers, holds, reacted, disturbed>>
      BY <1>1 DEF FirstPoll, discord
    <2>2. CASE handler[h].cancelled
      BY <1>1, <2>1, <2>2, EndsQuietly DEF FirstPoll
    <2>3. CASE ~handler[h].cancelled
      BY <1>1, <2>1, <2>3, StateChanges, QuietTask DEF FirstPoll
    <2> QED BY <2>2, <2>3
  <1>2. CASE Cancelled(h)
    BY <1>2, EndsQuietly DEF Cancelled, discord
  <1>3. CASE TakeReaction(h)
    BY <1>3, StateChanges, QuietTask DEF TakeReaction, discord
  <1>4. CASE MemberUnknown(h)
    <2>1. /\ \A g \in Handlers \ {h} : handler'[g] = handler[g]
          /\ handler'[h].msg = handler[h].msg
      BY <1>4 DEF MemberUnknown, TasksInv, Task
    <2> QED BY <1>4, <2>1, DisturbedTask DEF MemberUnknown, discord
  <1>5. CASE FindRole(h)
    <2>1. UNCHANGED <<watchers, holds, reacted>>
      BY <1>5 DEF FindRole, discord
    <2>2. CASE handler[h].msg \in stored
      <3>1. handler' = [handler EXCEPT ![h].state = "role"] /\ disturbed' = disturbed
            /\ handler[h].state \in Busy
        BY <1>5, <2>2 DEF FindRole, Busy
      <3> QED BY <2>1, <3>1, StateChanges, QuietTask
    <2>3. CASE handler[h].msg \notin stored
      <3>1. handler' = End(h) /\ disturbed' = disturbed \cup {handler[h].msg}
        BY <1>5, <2>3 DEF FindRole
      <3>2. \A g \in Handlers \ {h} : handler'[g] = handler[g]
        BY <3>1 DEF End, TasksInv
      <3>3. ~handler'[h].cancelled
        BY <3>1, EndLeaves DEF TasksInv
      <3> QED BY <2>1, <3>1, <3>2, <3>3, DisturbedTask
    <2> QED BY <2>2, <2>3
  <1>6. CASE ChangeRole(h)
    BY <1>6, ChangeRoleRoles
  <1>7. CASE ChangeRoleFails(h)
    <2>1. /\ \A g \in Handlers \ {h} : handler'[g] = handler[g]
          /\ handler'[h].msg = handler[h].msg
      BY <1>7 DEF ChangeRoleFails, TasksInv, Task
    <2> QED BY <1>7, <2>1, DisturbedTask DEF ChangeRoleFails, discord
  <1> QED BY <1>1, <1>2, <1>3, <1>4, <1>5, <1>6, <1>7 DEF Handle

(* A new watcher has nothing to handle, as there was nothing before.       *)
LEMMA PutRoles ==
    ASSUME TasksInv, RolesInv, NEW h \in Handlers, NEW m \in Messages,
           watchers[m] = NoHandler, handler[h].state = "free",
           watchers' = [watchers EXCEPT ![m] = h],
           handler' = [handler EXCEPT ![h] = Spawned(m)],
           UNCHANGED <<holds, reacted, disturbed>>
    PROVE  RolesInv'
  <1>1. Spawned(m).queue = <<>> /\ ~Spawned(m).cancelled
    BY DEF Spawned, NoTask
  <1>2. /\ handler'[h] = Spawned(m) /\ \A g \in Handlers \ {h} : handler'[g] = handler[g]
        /\ \A n \in Messages : watchers'[n] = IF n = m THEN h ELSE watchers[n]
    BY DEF TasksInv
  <1>3. \A n \in Messages : watchers[n] # h
    BY WatchersTask DEF Live
  <1>4. \A n \in Messages : Pending(n)' = Pending(n)
    BY <1>1, <1>2, <1>3 DEF Pending, TasksInv
  <1>5. ASSUME NEW n \in Messages PROVE RoleGood(n)'
    BY <1>1, <1>2, <1>4, RolesPerMessage DEF RoleGood
  <1> QED BY <1>5 DEF RolesInv, RoleGood

LEMMA UnwatchRoles ==
    ASSUME TasksInv, CommandsInv, RolesInv, NEW c \in Commands, Unwatch(c)
    PROVE  RolesInv'
  <1> PICK m \in Messages : m = command[c].msg
    BY DEF CommandsInv, CommandOf
  <1> DEFINE h == watchers[m]
  <1>1. UNCHANGED <<holds, reacted>>
    BY DEF Unwatch, discord
  <1>2. \A n \in Messages : watchers'[n] = IF n = m THEN NoHandler ELSE watchers[n]
    BY DEF Unwatch, TasksInv
  <1>3. disturbed' \subseteq Messages /\ disturbed \subseteq disturbed'
    BY DEF Unwatch, RolesInv
  <1>4. ASSUME NEW g \in Handlers, g # h PROVE handler'[g] = handler[g]
    BY <1>4 DEF Unwatch, TasksInv
  <1>5. h # NoHandler => /\ h \in Handlers /\ handler[h].msg = m
                         /\ \/ handler[h].state = "ended" /\ ~handler'[h].cancelled
                            \/ /\ handler'[h].msg = m /\ handler'[h].state = handler[h].state
                               /\ handler[h].state \in Busy \/ handler[h].queue # <<>>
                                     => m \in disturbed'
    <2> SUFFICES ASSUME h # NoHandler
                 PROVE  /\ h \in Handlers /\ handler[h].msg = m
                        /\ \/ handler[h].state = "ended" /\ ~handler'[h].cancelled
                           \/ /\ handler'[h].msg = m /\ handler'[h].state = handler[h].state
                              /\ handler[h].state \in Busy \/ handler[h].queue # <<>>
                                    => m \in disturbed'
      OBVIOUS
    <2>1. h \in Handlers /\ handler[h].msg = m
      BY DEF TasksInv, WatcherGood
    <2>2. CASE handler[h].state = "ended"
      <3>1. handler' = [handler EXCEPT ![h] = NoTask]
        BY <2>2 DEF Unwatch
      <3>2. handler'[h] = NoTask
        BY <2>1, <3>1 DEF TasksInv
      <3> QED BY <2>1, <2>2, <3>2 DEF NoTask
    <2>3. CASE handler[h].state # "ended"
      <3>1. /\ handler' = [handler EXCEPT ![h].cancelled = TRUE]
            /\ handler[h].state \in Busy \/ handler[h].queue # <<>> => m \in disturbed'
        BY <2>3 DEF Unwatch
      <3>2. handler'[h].msg = handler[h].msg /\ handler'[h].state = handler[h].state
        BY <2>1, <3>1 DEF TasksInv, Task
      <3> QED BY <2>1, <3>1, <3>2
    <2> QED BY <2>2, <2>3
  <1>6. ASSUME m \notin disturbed' PROVE Pending(m) = <<>> /\ Pending(m)' = <<>>
    <2>1. h # NoHandler => handler[h].queue = <<>>
      BY <1>5, <1>6 DEF TasksInv, TaskGood
    <2> QED BY <1>2, <2>1 DEF Pending
  <1>7. ASSUME NEW n \in Messages, n # m PROVE Pending(n)' = Pending(n)
    <2>1. watchers[n] # NoHandler => watchers[n] \in Handlers /\ watchers[n] # h
      BY <1>5, <1>7 DEF TasksInv, WatcherGood
    <2> QED BY <1>2, <1>4, <1>7, <2>1 DEF Pending
  <1>8. ASSUME NEW n \in Messages PROVE RoleGood(n)'
    <2> SUFFICES ASSUME n \notin disturbed' PROVE RoleGood(n)'
      BY DEF RoleGood
    <2>1. RoleGood(n) /\ n \notin disturbed
      BY <1>3, RolesPerMessage
    <2>2. Pending(n)' = Pending(n)
      BY <1>6, <1>7
    <2>3. ASSUME NEW g \in Handlers, handler'[g].msg = n, handler'[g].cancelled
          PROVE  handler'[g].state \notin Busy
      <3>1. CASE g # h
        BY <1>4, <2>1, <2>3, <3>1 DEF RoleGood
      <3>2. CASE g = h
        <4>1. h # NoHandler
          BY <3>2, RoleWatchersAssumption
        <4>2. n = m /\ handler'[g].state = handler[h].state /\ (handler[h].state \in Busy => m \in disturbed')
          BY <1>5, <2>3, <3>2, <4>1
        <4> QED BY <4>2
      <3> QED BY <3>1, <3>2
    <2> QED BY <1>1, <2>1, <2>2, <2>3 DEF RoleGood
  <1> QED BY <1>3, <1>8 DEF RolesInv, RoleGood

LEMMA ProceedRoles ==
    ASSUME TasksInv, CommandsInv, RolesInv, NEW c \in Commands, Proceed(c)
    PROVE  RolesInv'
  <1>1. ASSUME NEW h \in Handlers, Watch(c, h) PROVE RolesInv'
    <2> PICK m \in Messages : m = command[c].msg
      BY DEF CommandsInv, CommandOf
    <2>1. watchers[m] = NoHandler
      BY <1>1 DEF CommandsInv, Alone, Watch, Past
    <2> QED BY <1>1, <2>1, PutRoles DEF Watch, Spare, discord
  <1> QED BY <1>1, UnwatchRoles, SameRoles DEF Proceed, Forget, Edit, Store, discord

(* A restart loses the reactions that were not handled, and says so.       *)
LEMMA RestartRoles ==
    ASSUME TasksInv, RolesInv, Restart
    PROVE  RolesInv'
  <1>1. UNCHANGED <<holds, reacted>>
    BY DEF Restart, discord
  <1>2. \A m \in Messages : Pending(m)' = <<>>
    BY DEF Restart, Pending
  <1>3. \A h \in Handlers : ~handler'[h].cancelled
    BY DEF Restart, NoTask
  <1>4. disturbed \subseteq disturbed' /\ disturbed' \subseteq Messages
        /\ \A h \in Handlers : handler[h].queue # <<>> => handler[h].msg \in disturbed'
    BY HandlerTypes DEF Restart, RolesInv, Task
  <1>5. ASSUME NEW m \in Messages, m \notin disturbed'
        PROVE  RoleGood(m)'
    <2>1. RoleGood(m) /\ m \notin disturbed
      BY <1>4, <1>5, RolesPerMessage
    <2>2. Pending(m) = <<>>
      <3>1. watchers[m] # NoHandler => watchers[m] \in Handlers /\ handler[watchers[m]].msg = m
        BY DEF TasksInv, WatcherGood
      <3> QED BY <1>4, <1>5, <3>1 DEF Pending
    <2> QED BY <1>1, <1>2, <1>3, <2>1, <2>2 DEF RoleGood
  <1> QED BY <1>4, <1>5 DEF RolesInv, RoleGood

LEMMA NextRoles ==
    ASSUME TasksInv, CommandsInv, RolesInv, [Next]_vars
    PROVE  RolesInv'
  <1>1. CASE UNCHANGED vars
    BY <1>1, SameRoles DEF vars, discord
  <1>2. ASSUME NEW m \in Messages, NEW h \in Handlers, InitWatcher(m, h) PROVE RolesInv'
    BY <1>2, PutRoles DEF InitWatcher, Spare, CommandsInv, discord
  <1>3. ASSUME NEW c \in Commands, NEW m \in Messages, Add(c, m) PROVE RolesInv'
    BY <1>3, SameRoles DEF Add
  <1>4. ASSUME NEW c \in Commands, NEW m \in Messages, NEW kind \in {"update", "delete"},
               Begin(c, kind, m)
        PROVE  RolesInv'
    BY <1>4, SameRoles DEF Begin, discord
  <1> QED BY <1>1, <1>2, <1>3, <1>4, ReactRoles, HandleRoles, ProceedRoles, RestartRoles DEF Next, Arrive

-----------------------------------------------------------------------------
(* The theorems *)

RoleMessagesInv == TasksInv /\ CommandsInv /\ ContendedInv /\ RolesInv /\ reactions \in 0..MaxReactions
                   /\ reacted \subseteq Messages \X Members /\ holds \subseteq Messages \X Members

LEMMA NextBounds ==
    ASSUME TasksInv, [Next]_vars, reactions \in 0..MaxReactions,
           reacted \subseteq Messages \X Members, holds \subseteq Messages \X Members
    PROVE  /\ reactions' \in 0..MaxReactions
           /\ reacted' \subseteq Messages \X Members /\ holds' \subseteq Messages \X Members
  <1>1. CASE UNCHANGED discord
    BY <1>1 DEF discord
  <1>2. ASSUME NEW m \in Messages, NEW u \in Members, React(m, u)
        PROVE  /\ reactions' \in 0..MaxReactions
               /\ reacted' \subseteq Messages \X Members /\ holds' = holds
    BY <1>2, RoleWatchersAssumption DEF React
  <1>3. ASSUME NEW h \in Handlers, Handle(h)
        PROVE  /\ reactions' = reactions /\ reacted' = reacted
               /\ holds' \subseteq Messages \X Members
    <2>1. CASE ChangeRole(h)
      <3> DEFINE r == Head(handler[h].queue)
      <3>1. handler[h].queue \in Seq(Reaction) /\ handler[h].queue # <<>>
        BY <2>1, HandlerTypes DEF ChangeRole, TaskGood, Busy
      <3>2. r \in Reaction /\ handler[h].msg \in Messages
        BY <3>1, HandlerTypes DEF Task
      <3>3. r[1] \in Members
        BY <3>2 DEF Reaction
      <3>4. /\ reactions' = reactions /\ reacted' = reacted
            /\ holds' \subseteq holds \cup {<<handler[h].msg, r[1]>>}
        BY <2>1 DEF ChangeRole
      <3> HIDE DEF r
      <3> QED BY <3>2, <3>3, <3>4
    <2>2. CASE ~ChangeRole(h)
      BY <1>3, <2>2 DEF Handle, FirstPoll, Cancelled, TakeReaction, MemberUnknown, FindRole,
                        ChangeRoleFails, discord
    <2> QED BY <2>1, <2>2
  <1>4. ASSUME NEW c \in Commands, NEW m \in Messages, Add(c, m)
        PROVE  UNCHANGED <<reactions, reacted, holds>>
    BY <1>4 DEF Add
  <1>5. ASSUME NEW c \in Commands, Proceed(c)
        PROVE  UNCHANGED discord
    BY <1>5 DEF Proceed, Forget, Unwatch, Edit, Store, Watch
  <1>6. UNCHANGED vars => UNCHANGED discord
    BY DEF vars
  <1>7. ASSUME NEW c \in Commands, NEW m \in Messages, NEW kind \in {"update", "delete"},
               Begin(c, kind, m)
        PROVE  UNCHANGED discord
    BY <1>7 DEF Begin
  <1>8. ASSUME NEW m \in Messages, NEW h \in Handlers, InitWatcher(m, h)
        PROVE  UNCHANGED discord
    BY <1>8 DEF InitWatcher
  <1>9. Restart => UNCHANGED discord
    BY DEF Restart
  <1> QED BY <1>1, <1>2, <1>3, <1>4, <1>5, <1>6, <1>7, <1>8, <1>9 DEF Next, Arrive

LEMMA InitRoleMessages == Init => RoleMessagesInv
  <1>1. Init => /\ reactions \in 0..MaxReactions
                /\ reacted \subseteq Messages \X Members /\ holds \subseteq Messages \X Members
    BY RoleWatchersAssumption DEF Init
  <1> QED BY <1>1, InitTasks, InitCommands, InitContended, InitRoles DEF RoleMessagesInv

LEMMA NextRoleMessages == RoleMessagesInv /\ [Next]_vars => RoleMessagesInv'
  BY NextTasks, NextCommands, NextContended, NextRoles, NextBounds DEF RoleMessagesInv

(* The strengthened invariant holds from the start of the bot on.          *)
THEOREM RoleMessagesInvariant == Spec => []RoleMessagesInv
  BY InitRoleMessages, NextRoleMessages, PTL DEF Spec

LEMMA RoleMessagesType == RoleMessagesInv => TypeOK
  BY DEF RoleMessagesInv, TasksInv, CommandsInv, ContendedInv, RolesInv, TypeOK, Task, CommandOf

(* The tables of the role messages are well typed: a message in the        *)
(* database or in the list of startup has been posted, and a handler's     *)
(* reactions are a sequence (Watchers, RoleMessage).                       *)
THEOREM RoleWatchersTypes == Spec => []TypeOK
  BY RoleMessagesType, RoleMessagesInvariant, PTL

(* For any number of messages, handlers and commands, and wherever the bot *)
(* is restarted: no message is ever served by two handlers.  What carries  *)
(* it is that a command that dropped a watcher, or makes the first, is     *)
(* alone with its message until it has put one in the map (setup, remove,  *)
(* Drop of Watcher).                                                       *)
THEOREM RoleMessagesHaveOneHandler == Spec => []OneHandlerPerMessage
  <1>1. RoleMessagesInv => OneHandlerPerMessage
    BY DEF RoleMessagesInv, TasksInv
  <1> QED BY <1>1, RoleMessagesInvariant, PTL

(* Whatever edit fails and whenever the bot is restarted: once no command  *)
(* is at work every stored message past startup that no two commands were  *)
(* at at once is being served (Watchers::init, setup, remove).             *)
THEOREM StoredMessagesAreServed == Spec => []StoredIsServed
  <1>1. ASSUME RoleMessagesInv PROVE StoredIsServed
    <2> SUFFICES ASSUME \A c \in Commands : command[c] = NoCommand,
                        NEW m \in stored \ (toInit \cup contended)
                 PROVE  /\ watchers[m] # NoHandler
                        /\ handler[watchers[m]].state \in Live
                        /\ ~handler[watchers[m]].cancelled
      BY DEF StoredIsServed
    <2>1. Served(m)
      BY <1>1, NoCommandGood DEF RoleMessagesInv, ContendedInv
    <2>2. m \in Messages
      BY <1>1 DEF RoleMessagesInv, TasksInv, CommandsInv
    <2> QED BY <1>1, <2>1, <2>2 DEF RoleMessagesInv, TasksInv, WatcherGood, Served
  <1> QED BY <1>1, RoleMessagesInvariant, PTL

(* For any number of reactions, updates and restarts in any order: what is *)
(* still in the queue of a message's handler always makes its roles what   *)
(* the reactions on it say, so that once the queues are empty the roles    *)
(* are right, unless a reaction was missed, dropped or failed (handle,     *)
(* handle_reaction).                                                       *)
THEOREM RolesAreReactions == Spec => []RolesFollowReactions
  <1>1. ASSUME RoleMessagesInv PROVE RolesFollowReactions
    <2> SUFFICES ASSUME NEW m \in Messages \ disturbed,
                        \A h \in Handlers : Subscribed(h, m) => handler[h].queue = <<>>,
                        NEW u \in Members
                 PROVE  <<m, u>> \in holds <=> <<m, u>> \in reacted
      BY DEF RolesFollowReactions
    <2>1. Pending(m) = <<>>
      <3>1. CASE watchers[m] = NoHandler
        BY <3>1 DEF Pending
      <3>2. CASE watchers[m] # NoHandler
        <4> PICK h \in Handlers : h = watchers[m]
          BY <1>1, <3>2 DEF RoleMessagesInv, TasksInv
        <4>1. handler[h].msg = m /\ handler[h].state \in Live \cup {"ended"} /\ TaskGood(handler[h])
          BY <1>1, <3>2 DEF RoleMessagesInv, TasksInv, WatcherGood
        <4>2. handler[h].queue = <<>>
          BY <4>1 DEF Subscribed, TaskGood, Live, Busy
        <4> QED BY <3>2, <4>2 DEF Pending
      <3> QED BY <3>1, <3>2
    <2>2. ComesOut(Pending(m), u, <<m, u>> \in holds, <<m, u>> \in reacted)
      BY <1>1 DEF RoleMessagesInv, RolesInv
    <2>3. ComesOut(<<>>, u, <<m, u>> \in holds, <<m, u>> \in reacted)
      BY <2>1, <2>2
    <2> QED BY <2>3 DEF ComesOut
  <1> QED BY <1>1, RoleMessagesInvariant, PTL

-----------------------------------------------------------------------------
(* Collectors of button presses *)

CollectorInv ==
    /\ shard \in [Paginated -> Shards]
    /\ collector \in [Paginated -> {"none", "inserting", "open", "removing", "closed"}]
    /\ call \in [Presses -> Call]
    /\ received \in [Paginated -> SUBSET Presses]
    /\ IsFiniteSet(Stopped) /\ Cardinality(Stopped) <= Workers
    /\ FoundStays

LEMMA InitCollectors == CollectorInit => CollectorInv
  <1> SUFFICES ASSUME CollectorInit PROVE CollectorInv
    OBVIOUS
  <1>1. Stopped = {}
    BY DEF CollectorInit, Stopped
  <1>2. IsFiniteSet(Stopped) /\ Cardinality(Stopped) <= Workers
    BY <1>1, FS_EmptySet, CollectorAssumption
  <1> QED BY <1>2 DEF CollectorInit, CollectorInv, FoundStays, NoCall, Call

(* One more thread stands still, which was free.                           *)
LEMMA StopsThread ==
    ASSUME CollectorInv, ThreadFree, NEW m \in Paginated, collector[m] \in {"none", "open"},
           NEW to \in {"inserting", "removing"},
           collector[m] = "open" => to = "removing",
           collector' = [collector EXCEPT ![m] = to], UNCHANGED <<shard, call, received>>
    PROVE  CollectorInv'
  <1>1. Stopped' = Stopped \cup {m} /\ m \notin Stopped
    BY DEF CollectorInv, Stopped
  <1>2. IsFiniteSet(Stopped') /\ Cardinality(Stopped') = Cardinality(Stopped) + 1
    BY <1>1, FS_AddElement DEF CollectorInv
  <1>3. Cardinality(Stopped') <= Workers
    <2>1. Cardinality(Stopped) \in Nat
      BY FS_CardinalityType DEF CollectorInv
    <2> QED BY <1>2, <2>1, CollectorAssumption DEF ThreadFree
  <1>4. FoundStays'
    BY DEF CollectorInv, FoundStays, Registered
  <1> QED BY <1>2, <1>3, <1>4 DEF CollectorInv

(* A table is only changed while no hook refers to it.                     *)
LEMMA LockShardStep ==
    ASSUME CollectorInv, NEW m \in Paginated, LockShard(m)
    PROVE  CollectorInv'
  <1>1. Stopped' = Stopped \ {m}
    BY DEF CollectorInv, Stopped, LockShard
  <1>2. IsFiniteSet(Stopped') /\ Cardinality(Stopped') <= Cardinality(Stopped)
    BY <1>1, FS_Subset DEF CollectorInv
  <1>3. Cardinality(Stopped') <= Workers
    <2>1. Cardinality(Stopped) \in Nat /\ Cardinality(Stopped') \in Nat
      BY <1>2, FS_CardinalityType DEF CollectorInv
    <2> QED BY <1>2, <2>1, CollectorAssumption DEF CollectorInv
  <1>4. FoundStays'
    <2>1. \A p \in Presses : call[p].at \in {"acking", "acked"} => call[p].msg # m
      BY DEF LockShard, Readers
    <2> QED BY <2>1 DEF CollectorInv, FoundStays, Registered, LockShard
  <1> QED BY <1>2, <1>3, <1>4 DEF CollectorInv, LockShard

(* A hook goes on: where it is registered, if it refers to the table.      *)
LEMMA HookGoesOn ==
    ASSUME CollectorInv, NEW p \in Presses, NEW r \in Call,
           call' = [call EXCEPT ![p] = r], UNCHANGED <<shard, collector>>,
           received' \in [Paginated -> SUBSET Presses],
           r.at \in {"acking", "acked"} => Registered(r.msg)
    PROVE  CollectorInv'
  <1>1. \A q \in Presses : call'[q] = IF q = p THEN r ELSE call[q]
    BY DEF CollectorInv
  <1>2. Stopped' = Stopped
    BY DEF Stopped
  <1>3. FoundStays'
    BY <1>1 DEF CollectorInv, FoundStays, Registered
  <1> QED BY <1>2, <1>3 DEF CollectorInv

LEMMA CallAt ==
    ASSUME CollectorInv, NEW p \in Presses, call[p].at \in {"ready", "acking", "acked", "failed"},
           NEW at \in {"acking", "acked", "failed", "done"}
    PROVE  LET r == [call[p] EXCEPT !.at = at]
           IN  r \in Call /\ r.at = at /\ r.msg = call[p].msg /\ r.msg \in Paginated
  <1>1. call[p] \in [at : {"ready", "acking", "acked", "failed", "done"}, msg : Paginated]
    BY DEF CollectorInv, Call, NoCall
  <1> QED BY <1>1 DEF Call

LEMMA NextCollectors == CollectorInv /\ [CollectorNext]_collectorVars => CollectorInv'
  <1> SUFFICES ASSUME CollectorInv, [CollectorNext]_collectorVars PROVE CollectorInv'
    OBVIOUS
  <1>1. CASE UNCHANGED collectorVars
    BY <1>1 DEF collectorVars, CollectorInv, Stopped, FoundStays, Registered
  <1>2. ASSUME NEW m \in Paginated, Create(m) PROVE CollectorInv'
    BY <1>2, StopsThread DEF Create
  <1>3. ASSUME NEW m \in Paginated, Drop(m) PROVE CollectorInv'
    BY <1>3, StopsThread DEF Drop
  <1>4. ASSUME NEW p \in Presses, NEW m \in Paginated, Press(p, m) PROVE CollectorInv'
    <2> DEFINE r == [at |-> "ready", msg |-> m]
    <2>1. r \in Call /\ r.at = "ready"
      BY DEF Call
    <2>2. call' = [call EXCEPT ![p] = r] /\ UNCHANGED <<shard, collector, received>>
      BY <1>4 DEF Press
    <2> HIDE DEF r
    <2> QED BY <2>1, <2>2, HookGoesOn DEF CollectorInv
  <1>5. ASSUME NEW p \in Presses, Acknowledge(p) PROVE CollectorInv'
    <2>1. /\ call[p].at = "ready" /\ UNCHANGED <<shard, collector, received>>
          /\ call' = [call EXCEPT ![p].at = IF Registered(call[p].msg) THEN "acking" ELSE "done"]
      BY <1>5 DEF Acknowledge
    <2>2. PICK at \in {"acking", "done"} :
             at = IF Registered(call[p].msg) THEN "acking" ELSE "done"
      OBVIOUS
    <2> DEFINE r == [call[p] EXCEPT !.at = at]
    <2>3. r \in Call /\ r.at = at /\ r.msg = call[p].msg /\ call' = [call EXCEPT ![p] = r]
      BY <2>1, <2>2, CallAt
    <2> HIDE DEF r
    <2> QED BY <2>1, <2>2, <2>3, HookGoesOn DEF CollectorInv
  <1>6. ASSUME NEW p \in Presses, Answer(p) PROVE CollectorInv'
    <2>1. call[p].at = "acking" /\ UNCHANGED <<shard, collector, received>>
      BY <1>6 DEF Answer
    <2>2. PICK at \in {"acked", "failed"} : call' = [call EXCEPT ![p].at = at]
      BY <1>6 DEF Answer
    <2>3. Registered(call[p].msg)
      BY <2>1 DEF CollectorInv, FoundStays
    <2> DEFINE r == [call[p] EXCEPT !.at = at]
    <2>4. r \in Call /\ r.at = at /\ r.msg = call[p].msg /\ call' = [call EXCEPT ![p] = r]
      BY <2>1, <2>2, CallAt
    <2> HIDE DEF r
    <2> QED BY <2>1, <2>3, <2>4, HookGoesOn DEF CollectorInv
  <1>7. ASSUME NEW p \in Presses, Forward(p) PROVE CollectorInv'
    <2>1. /\ call[p].at = "acked" /\ UNCHANGED <<shard, collector>>
          /\ received' = [received EXCEPT ![call[p].msg] = @ \cup {p}]
      BY <1>7 DEF Forward
    <2> DEFINE r == [call[p] EXCEPT !.at = "done"]
    <2>2. r \in Call /\ r.at = "done" /\ call' = [call EXCEPT ![p] = r] /\ call[p].msg \in Paginated
      BY <1>7, <2>1, CallAt DEF Forward
    <2>3. received' \in [Paginated -> SUBSET Presses]
      BY <2>1, <2>2 DEF CollectorInv
    <2> HIDE DEF r
    <2> QED BY <2>1, <2>2, <2>3, HookGoesOn
  <1>8. ASSUME NEW p \in Presses, Fail(p) PROVE CollectorInv'
    <2>1. call[p].at = "failed" /\ UNCHANGED <<shard, collector, received>>
      BY <1>8 DEF Fail
    <2> DEFINE r == [call[p] EXCEPT !.at = "done"]
    <2>2. r \in Call /\ r.at = "done" /\ call' = [call EXCEPT ![p] = r]
      BY <1>8, <2>1, CallAt DEF Fail
    <2> HIDE DEF r
    <2> QED BY <2>1, <2>2, HookGoesOn DEF CollectorInv
  <1> QED BY <1>1, <1>2, <1>3, <1>4, <1>5, <1>6, <1>7, <1>8, LockShardStep DEF CollectorNext

(* Never do more threads stand still in the map of collectors than the     *)
(* runtime has (create_collector, Drop, call).                             *)
THEOREM CollectorTypes == CollectorSpec => []CollectorTypeOK
  <1>1. CollectorInv => CollectorTypeOK
    BY DEF CollectorInv, CollectorTypeOK
  <1> QED BY <1>1, InitCollectors, NextCollectors, PTL DEF CollectorSpec

(* For any number of presses, paginations, shards and threads: the         *)
(* collector a hook has found is there until the hook is done with it,     *)
(* since its table is locked as long (InteractionHook::call).              *)
THEOREM CollectorFoundStays == CollectorSpec => []FoundStays
  <1>1. CollectorInv => FoundStays
    BY DEF CollectorInv
  <1> QED BY <1>1, InitCollectors, NextCollectors, PTL DEF CollectorSpec

-----------------------------------------------------------------------------
(* Both in one behaviour *)

(* The handlers and the collectors are of their types, side by side; and   *)
(* never do more threads stand still in the map of collectors than the     *)
(* runtime has.                                                            *)
THEOREM WatchersTyped == FairWatchers => []WatchersTypeOK
  <1>1. WatchersInit => RoleMessagesInv /\ CollectorInv
    BY InitRoleMessages, InitCollectors DEF WatchersInit
  <1>2. RoleMessagesInv /\ CollectorInv /\ [WatchersNext]_watchersVars
          => RoleMessagesInv' /\ CollectorInv'
    <2>1. ASSUME Arrive \/ (\E h \in Handlers : Handle(h)) \/ (\E c \in Commands : Proceed(c))
          PROVE  Next
      BY <2>1 DEF Next
    <2>2. [WatchersNext]_watchersVars => [Next]_vars /\ [CollectorNext]_collectorVars
      BY <2>1 DEF WatchersNext, watchersVars
    <2> QED BY <2>2, NextRoleMessages, NextCollectors
  <1>3. RoleMessagesInv /\ CollectorInv => WatchersTypeOK
    BY RoleMessagesType DEF WatchersTypeOK, CollectorInv, CollectorTypeOK
  <1> QED BY <1>1, <1>2, <1>3, PTL DEF FairWatchers
=============================================================================
