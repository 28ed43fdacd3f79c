---------------------------- MODULE ContestWatch ----------------------------
(***************************************************************************)
(* Codeforces contests: the cache of youmubot-cf/src/hook.rs and the live  *)
(* watches of youmubot-cf/src/live.rs.                                     *)
(*                                                                         *)
(* The cache keeps a contest for ever once its problems are known; until   *)
(* it starts, what is known of it comes from a list that is fetched again  *)
(* when it is too old.  A watch sleeps until its contest starts, then      *)
(* compares the standings with those of its last scan and tells the        *)
(* channel what has changed.  Links in messages ask the same cache.        *)
(*                                                                         *)
(* A contest has one problem.  A coder here is a handle that some member   *)
(* of the server has saved: a scan finds one member for each handle.       *)
(***************************************************************************)
EXTENDS Integers, FiniteSets

CONSTANTS
    Watched,        \* contests
    Watches,        \* calls: watch commands and links
    NoWatch,        \* nobody is writing the list
    Coders,         \* handles in the standings
    Worth,          \* what the first solution scores; a later one scores less
    MaxTries,       \* bound on a coder's rejected submissions
    MaxClock,       \* bound on the time
    ListAge,        \* the age up to which the list is used
    Grace,          \* what a watch sleeps after the start
    WatchFaults     \* what may fail: "standings", "list", "send"

ASSUME ContestWatchAssumption ==
    /\ {Worth, MaxTries, MaxClock, ListAge, Grace} \subseteq Nat
    /\ WatchFaults \subseteq {"standings", "list", "send"}
    /\ NoWatch \notin Watches
    /\ Watched # {}

VARIABLES
    clock,
    site,           \* each contest on Codeforces: its phase and start
    results,        \* the result of each coder in each contest
    known,          \* contests cached with their problems
    list,           \* the contest list, when it was taken and when stored
    writer,         \* who holds the list's lock for writing
    watching,       \* WatchData::watching_list
    watch           \* the calls

contestVars == <<clock, site, results, known, list, writer, watching, watch>>

Time == 0..MaxClock
Round == [phase : {"before", "coding", "testing", "finished"}, start : Time]

(* A solution in the queue of the system tests shows no points.            *)
Result == [worth : 0..Worth, queued : BOOLEAN, final : BOOLEAN, rejected : 0..MaxTries]
NoResult == [worth |-> 0, queued |-> FALSE, final |-> FALSE, rejected |-> 0]
Points(r) == IF r.queued THEN 0 ELSE r.worth

ListCopy == [rounds : [Watched -> Round], taken : Time, stored : Time]

NoCall == [at |-> "none", kind |-> "link", contest |-> CHOOSE k \in Watched : TRUE,
           copy |-> {}, until |-> 0, phase |-> "before", followed |-> {},
           seen |-> [h \in Coders |-> NoResult], told |-> [h \in Coders |-> "nothing"],
           lost |-> {}]

Running(w) == watch[w].at \notin {"none", "over"}
WatchesOf(k) == {w \in Watches : Running(w) /\ watch[w].kind = "watch" /\ watch[w].contest = k}

(* A contest is in the list of watched ones while a watch runs, and then   *)
(* it has no other.                                                        *)
ContestWatchTypeOK ==
    /\ clock \in Time
    /\ site \in [Watched -> Round]
    /\ results \in [Watched -> [Coders -> Result]]
    /\ known \subseteq Watched
    /\ list \in ListCopy
    /\ writer \in Watches \cup {NoWatch}
    /\ \A w \in Watches :
         /\ watch[w].at \in {"none", "asking", "standings", "list", "refresh", "fetching",
                             "fetched", "read", "sleeping", "starting", "watching", "over"}
         /\ watch[w].kind \in {"watch", "link"}
         /\ watch[w].contest \in Watched
         /\ watch[w].copy \subseteq ListCopy
         /\ watch[w].until \in 0..(MaxClock + Grace)
         /\ watch[w].followed \subseteq Coders
         /\ watch[w].seen \in [Coders -> Result]
         /\ watch[w].told \in [Coders -> {"nothing", "passed", "failed"}]
    /\ watching = {k \in Watched : WatchesOf(k) # {}}
    /\ \A k \in Watched : Cardinality(WatchesOf(k)) <= 1

ContestWatchInit ==
    /\ clock = 0
    /\ site \in [Watched -> {r \in Round : r.phase = "before"}]
    /\ results = [k \in Watched |-> [h \in Coders |-> NoResult]]
    /\ known = {}
    /\ list = [rounds |-> site, taken |-> 0, stored |-> 0]
    /\ writer = NoWatch
    /\ watching = {}
    /\ watch = [w \in Watches |-> NoCall]

-----------------------------------------------------------------------------
(* Codeforces *)

codeforces == <<clock, site, results>>
bot == <<known, list, writer, watching, watch>>

PassClock ==
    /\ clock < MaxClock
    /\ \A k \in Watched : site[k].phase = "before" => clock < site[k].start
    /\ clock' = clock + 1
    /\ UNCHANGED <<site, results, bot>>

Postpone(k) ==
    /\ site[k].phase = "before"
    /\ \E t \in Time : t > site[k].start /\ site' = [site EXCEPT ![k].start = t]
    /\ UNCHANGED <<clock, results, bot>>

(* The contest starts, its coding ends, and all its results are final.     *)
Advance(k) ==
    /\ \/ /\ site[k].phase = "before"
          /\ clock = site[k].start
          /\ site' = [site EXCEPT ![k].phase = "coding"]
       \/ /\ site[k].phase = "coding"
          /\ site' = [site EXCEPT ![k].phase = "testing"]
       \/ /\ site[k].phase = "testing"
          /\ \A h \in Coders : results[k][h].final
          /\ site' = [site EXCEPT ![k].phase = "finished"]
    /\ UNCHANGED <<clock, results, bot>>

SetResult(k, h, r) ==
    /\ results' = [results EXCEPT ![k][h] = r]
    /\ UNCHANGED <<clock, site, bot>>

(* A solution passes its first tests, or all there are; a later one scores *)
(* less than the one it replaces.                                          *)
Submit(k, h, final) ==
    LET r == results[k][h]
        next == Worth - r.rejected
    IN  /\ site[k].phase = "coding"
        /\ r.worth = 0 \/ next < r.worth
        /\ next > 0
        /\ SetResult(k, h, [r EXCEPT !.worth = next, !.final = final])

(* A solution is rejected: none had passed, or it is hacked.               *)
Reject(k, h) ==
    LET r == results[k][h]
    IN  /\ site[k].phase = "coding"
        /\ r.rejected < MaxTries
        /\ r.worth = 0 \/ ~r.final
        /\ SetResult(k, h, [r EXCEPT !.worth = 0, !.rejected = @ + 1])

(* The system tests.                                                       *)
Queue(k, h) ==
    LET r == results[k][h]
    IN  /\ site[k].phase = "testing"
        /\ r.worth > 0 /\ ~r.final /\ ~r.queued
        /\ SetResult(k, h, [r EXCEPT !.queued = TRUE])

Judge(k, h) ==
    LET r == [results[k][h] EXCEPT !.queued = FALSE, !.final = TRUE]
    IN  /\ site[k].phase = "testing"
        /\ ~results[k][h].final
        /\ \/ SetResult(k, h, r)
           \/ /\ r.worth > 0
              /\ r.rejected < MaxTries
              /\ SetResult(k, h, [r EXCEPT !.worth = 0, !.rejected = @ + 1])

-----------------------------------------------------------------------------
(* Calls *)

At(w, step) == [watch EXCEPT ![w].at = step]

(* The call ends, and drops the watch it holds and the lock.               *)
End(w) ==
    /\ watch' = [watch EXCEPT ![w].at = "over", ![w].copy = {}, ![w].until = 0]
    /\ watching' = IF watch[w].kind = "watch" THEN watching \ {watch[w].contest} ELSE watching
    /\ writer' = IF writer = w THEN NoWatch ELSE writer

GoOn(w, step) == watch' = At(w, step) /\ UNCHANGED <<watching, writer>>

(* A variant that lets its guard go at once.                               *)
BeginWatchUnheld(w, k) ==
    /\ ~Running(w)
    /\ k \notin watching
    /\ watch' = [watch EXCEPT ![w] = [NoCall EXCEPT !.at = "asking", !.kind = "watch", !.contest = k]]
    /\ UNCHANGED <<codeforces, known, list, writer, watching>>

(* watch: a contest that is being watched is not watched again.            *)
BeginWatch(w, k) ==
    /\ ~Running(w)
    /\ k \notin watching
    /\ watch' = [watch EXCEPT ![w] = [NoCall EXCEPT !.at = "asking", !.kind = "watch", !.contest = k]]
    /\ watching' = watching \cup {k}
    /\ UNCHANGED <<codeforces, known, list, writer>>

BeginLink(w, k) ==
    /\ ~Running(w)
    /\ watch' = [watch EXCEPT ![w] = [NoCall EXCEPT !.at = "asking", !.contest = k]]
    /\ UNCHANGED <<codeforces, known, list, writer, watching>>

-----------------------------------------------------------------------------
(* ContestCache *)

(* A link is answered with whatever is found.                              *)
Found(w) == IF watch[w].kind = "link" THEN End(w) ELSE GoOn(w, "starting")

Recall(w) ==
    /\ watch[w].at = "asking"
    /\ IF watch[w].contest \in known THEN Found(w) ELSE GoOn(w, "standings")
    /\ UNCHANGED <<codeforces, known, list>>

(* Standings are refused before the start.                                 *)
AskStandings(w) ==
    LET k == watch[w].contest
    IN  /\ watch[w].at = "standings"
        /\ \/ /\ site[k].phase # "before"
              /\ known' = known \cup {k}
              /\ Found(w)
           \/ /\ site[k].phase = "before"
              /\ GoOn(w, "list")
              /\ UNCHANGED known
           \/ /\ "standings" \in WatchFaults
              /\ End(w)
              /\ UNCHANGED known
        /\ UNCHANGED <<codeforces, list>>

CheckListAge(w) ==
    /\ watch[w].at = "list"
    /\ writer = NoWatch
    /\ GoOn(w, IF clock - list.stored > ListAge THEN "refresh" ELSE "read")
    /\ UNCHANGED <<codeforces, known, list>>

(* A variant that fetches before it locks.                                 *)
LockListLate(w) ==
    /\ watch[w].at = "refresh"
    /\ GoOn(w, "fetching")
    /\ UNCHANGED <<codeforces, known, list>>

(* The age is not looked at again under the lock.                          *)
LockList(w) ==
    /\ watch[w].at = "refresh"
    /\ writer = NoWatch
    /\ writer' = w
    /\ watch' = At(w, "fetching")
    /\ UNCHANGED <<codeforces, known, list, watching>>

FetchList(w) ==
    /\ watch[w].at = "fetching"
    /\ \/ /\ watch' = [watch EXCEPT ![w].at = "fetched",
                                    ![w].copy = {[rounds |-> site, taken |-> clock, stored |-> clock]}]
          /\ UNCHANGED <<watching, writer>>
       \/ "list" \in WatchFaults /\ End(w)
    /\ UNCHANGED <<codeforces, known, list>>

StoreList(w) ==
    /\ watch[w].at = "fetched"
    /\ \E c \in watch[w].copy : list' = [c EXCEPT !.stored = clock]
    /\ watch' = [watch EXCEPT ![w].at = "read", ![w].copy = {}]
    /\ writer' = NoWatch
    /\ UNCHANGED <<codeforces, known, watching>>

(* The contest is stored without problems, whatever others have stored     *)
(* meanwhile.  A watch sleeps until some time after the start; when that   *)
(* is over by the list, the conversion panics.                             *)
ReadList(w) ==
    LET k == watch[w].contest
        r == list.rounds[k]
    IN  /\ watch[w].at = "read"
        /\ writer = NoWatch
        /\ known' = known \ {k}
        /\ IF watch[w].kind = "link" \/ r.phase # "before" THEN Found(w)
           ELSE IF r.start + Grace < clock THEN End(w)
           ELSE /\ watch' = [watch EXCEPT ![w].at = "sleeping", ![w].until = r.start + Grace]
                /\ UNCHANGED <<watching, writer>>
        /\ UNCHANGED <<codeforces, list>>

-----------------------------------------------------------------------------
(* watch_contest *)

WakeToWatch(w) ==
    /\ watch[w].at = "sleeping"
    /\ clock >= watch[w].until
    /\ GoOn(w, "starting")
    /\ UNCHANGED <<codeforces, known, list>>

(* The standings are asked for once: an error ends the watch.  The members *)
(* are those that the server is found to have.                             *)
StartWatching(w) ==
    LET phase == site[watch[w].contest].phase
    IN  /\ watch[w].at = "starting"
        /\ \/ /\ phase # "before"
              /\ \E f \in SUBSET Coders :
                   watch' = [watch EXCEPT ![w] = [@ EXCEPT !.at = "watching", !.until = 0,
                                                           !.phase = phase, !.followed = f]]
              /\ UNCHANGED <<watching, writer>>
           \/ /\ phase = "before" \/ "standings" \in WatchFaults
              /\ End(w)
        /\ UNCHANGED <<codeforces, known, list>>

(* A message that the watch cannot do without is not sent.                 *)
MessageFails(w) ==
    /\ "send" \in WatchFaults
    /\ watch[w].kind = "watch"
    /\ watch[w].at \in {"sleeping", "starting"}
    /\ End(w)
    /\ UNCHANGED <<codeforces, known, list>>

(* analyze_change, where "passed" stands for the pretests and all tests.   *)
AnalyzeChange(phase, old, new) ==
    CASE Points(old) = Points(new) /\ new.rejected > old.rejected -> "failed"
      [] Points(old) = Points(new) /\ new.rejected <= old.rejected ->
           IF old.final # new.final /\ Points(new) > 0 THEN "passed" ELSE "nothing"
      [] Points(old) # Points(new) /\ Points(new) = 0 ->
           IF new.final \/ phase = "coding" THEN "failed" ELSE "nothing"
      [] OTHER -> "passed"

Verdict(w, phase, h) ==
    AnalyzeChange(phase, watch[w].seen[h], results[watch[w].contest][h])

ChangedCoders(w, phase) == {h \in watch[w].followed : Verdict(w, phase, h) # "nothing"}

(* A watch after a scan.                                                   *)
Scanned(w, phase, lost) ==
    LET k == watch[w].contest
        changed == ChangedCoders(w, phase)
    IN  [watch[w] EXCEPT
           !.at = IF site[k].phase = "finished" THEN "over" ELSE "watching",
           !.phase = site[k].phase,
           !.seen = [h \in Coders |-> IF h \in watch[w].followed THEN results[k][h] ELSE NoResult],
           !.told = [h \in Coders |-> IF h \in changed \ lost THEN Verdict(w, phase, h) ELSE @[h]],
           !.lost = @ \cup lost]

(* One scan that judges the changes by a phase.  A message that cannot be  *)
(* sent is lost, and the rows are kept all the same.                       *)
ScanBy(w, phase) ==
    LET k == watch[w].contest
    IN  \E lost \in IF "send" \in WatchFaults THEN SUBSET ChangedCoders(w, phase) ELSE {{}} :
          /\ watch' = [watch EXCEPT ![w] = Scanned(w, phase, lost)]
          /\ watching' = IF site[k].phase = "finished" THEN watching \ {k} ELSE watching
          /\ UNCHANGED <<codeforces, known, list, writer>>

(* A variant that takes the new phase first.                               *)
ScanChangesByNewPhase(w) ==
    /\ watch[w].at = "watching"
    /\ ScanBy(w, site[watch[w].contest].phase)

(* scan_changes and the messages; the changes are judged by the phase of   *)
(* the scan before.                                                        *)
ScanChanges(w) ==
    /\ watch[w].at = "watching"
    /\ ScanBy(w, watch[w].phase)

(* A scan that fails is passed over, the last one too.                     *)
ScanFails(w) ==
    /\ "standings" \in WatchFaults
    /\ watch[w].at = "watching"
    /\ watch[w].phase = "finished"
    /\ End(w)
    /\ UNCHANGED <<codeforces, known, list>>

-----------------------------------------------------------------------------

Codeforces ==
    \/ PassClock
    \/ \E k \in Watched : Postpone(k) \/ Advance(k)
    \/ \E k \in Watched, h \in Coders, final \in BOOLEAN : Submit(k, h, final)
    \/ \E k \in Watched, h \in Coders : Reject(k, h) \/ Queue(k, h) \/ Judge(k, h)

Cache(w) ==
    \/ Recall(w) \/ AskStandings(w) \/ CheckListAge(w)
    \/ LockList(w) \/ FetchList(w) \/ StoreList(w) \/ ReadList(w)

Live(w) ==
    WakeToWatch(w) \/ StartWatching(w) \/ MessageFails(w) \/ ScanChanges(w) \/ ScanFails(w)

ContestWatchNext ==
    \/ Codeforces
    \/ \E w \in Watches, k \in Watched : BeginWatch(w, k) \/ BeginLink(w, k)
    \/ \E w \in Watches : Cache(w) \/ Live(w)

ContestWatchSpec == ContestWatchInit /\ [][ContestWatchNext]_contestVars

-----------------------------------------------------------------------------
(* Properties *)

(* The contest list never goes back in time: of two calls that find it too *)
(* old at once, the later one fetches it later (get_from_list).            *)
ListNeverGoesBack == [][list'.taken >= list.taken]_contestVars

(* When a watch has seen a coder's final result, the last thing that it    *)
(* told of it agrees, unless a message was lost: a solution that was put   *)
(* into the queue of the tests, or hacked in the last minute of the        *)
(* contest, is not left standing as a success (scan_changes,               *)
(* analyze_change).                                                        *)
VerdictsAreTold ==
    \A w \in Watches : \A h \in watch[w].followed \ watch[w].lost :
        watch[w].seen[h].final =>
            (watch[w].told[h] = "passed" <=> Points(watch[w].seen[h]) > 0)
=============================================================================
