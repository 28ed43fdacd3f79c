---------------------------- MODULE OsuAnnouncer ----------------------------
(***************************************************************************)
(* The osu! announcer and the mapping announcer of                         *)
(* youmubot-osu/src/discord/announcer.rs, running while Discord users      *)
(* save, re-save and remove their accounts (mod.rs, commands.rs).          *)
(*                                                                         *)
(* A scan reads every saved user with two queries, then updates the users  *)
(* concurrently.  Each update works on its own copy of the row, and only   *)
(* when it is stored are the scores it collected handed to send_all.       *)
(*                                                                         *)
(* The world is the set `items` of dated things the osu! API reports: a    *)
(* "top" item is a score of a best-scores list, a "rank" item an event of  *)
(* a world ranking, a "map" item a mapping event.  The topic of a score or *)
(* rank item is its mode, that of a mapping event its beatmapset.          *)
(***************************************************************************)
EXTENDS OsuSavedUsers, Sequences, FiniteSets, SequencesExt

CONSTANTS
    ModeOrder,      \* the order in which update_user visits the modes
    Feeds,          \* the kinds of item the world produces
    Faults,         \* the faults the environment may cause
    MaxItems,       \* bound on the items of the world
    MaxLinks        \* bound on the account savings of one user

ASSUME AnnouncerAssumption ==
    /\ ModeOrder \in Seq(Modes) \ {<<>>}
    /\ ToSet(ModeOrder) = Modes
    /\ Feeds \subseteq {"top", "rank", "map"}
    /\ Faults \subseteq {"fetch", "events", "save", "crash"}
    /\ MaxItems \in Nat
    /\ MaxLinks \in Nat

VARIABLES
    clock,          \* the current instant
    items,          \* what the osu! API can report
    saving,         \* add_user in progress, per Discord user
    scan,           \* where the announcer's loop is
    job,            \* update_user in progress, per Discord user
    mapping,        \* mapping_events: events the other announcer will post
    filled,         \* the bounded(1) channel `filled` holds a token
    visiting,       \* users the mapping announcer has yet to take
    epoch,          \* history: number of committed savings of each user
    sent,           \* history: <<user, item, epoch>> handed over for posting
    resent,         \* history: those handed over once more
    baseline,       \* history: the update a mode was first recorded at
    mishaps,        \* history: what has gone wrong for each user
    late            \* history: items a user's update no longer looks for

world == <<clock, items, late>>
history == <<epoch, sent, resent, baseline, mishaps>>
vars == <<table, world, saving, scan, job, mapping, filled, visiting, history>>

Item == [feed : Feeds, acct : Accounts, topic : Modes, date : Time]
Delivery == Users \X Item \X (0..MaxLinks)

(* update_user's copy of the row and what it has collected so far.         *)
Job == [phase : {"off", "listed", "queued", "modes", "events", "save"},
        acct  : Accounts \cup {NoAccount},
        fails : 0..MaxFailures,
        old   : [Modes -> Time],
        new   : [Modes -> Time],
        now   : Time,
        next  : 1..(Len(ModeOrder) + 1),
        found : SUBSET Item]

NoJob == [phase |-> "off", acct |-> NoAccount, fails |-> 0, old |-> NoStats,
          new |-> NoStats, now |-> Never, next |-> 1, found |-> {}]

(* add_user: the account and the modes fetched so far.                     *)
Saving == [acct : Accounts \cup {NoAccount},
           got  : [Modes -> Time],
           left : SUBSET Modes]

NoSaving == [acct |-> NoAccount, got |-> NoStats, left |-> {}]

TypeOK ==
    /\ TableTypeOK
    /\ clock \in Time
    /\ items \in SUBSET Item
    /\ saving \in [Users -> Saving]
    /\ scan \in {"sleep", "listed", "running"}
    /\ job \in [Users -> Job]
    /\ mapping \in [Users -> SUBSET Item]
    /\ filled \in BOOLEAN
    /\ visiting \in SUBSET Users
    /\ epoch \in [Users -> 0..MaxLinks]
    /\ sent \in SUBSET Delivery
    /\ resent \in SUBSET Delivery
    /\ baseline \in [Users -> [Modes -> Time]]
    /\ mishaps \in [Users -> SUBSET {"fetch", "save", "torn", "resaved"}]
    /\ late \in SUBSET (Users \X Item)

Init ==
    /\ TableInit
    /\ clock = TicksPerSecond
    /\ items = {}
    /\ saving = [u \in Users |-> NoSaving]
    /\ scan = "sleep"
    /\ job = [u \in Users |-> NoJob]
    /\ mapping = [u \in Users |-> {}]
    /\ filled = FALSE
    /\ visiting = {}
    /\ epoch = [u \in Users |-> 0]
    /\ sent = {}
    /\ resent = {}
    /\ baseline = stats
    /\ mishaps = [u \in Users |-> {}]
    /\ late = {}

-----------------------------------------------------------------------------
(* The world *)

(* Something happens on osu!.  Dates are whole seconds: what happens after *)
(* an update, but within its second, carries a date the update has already *)
(* moved past, and is late for it.                                         *)
Happen(f, a, m) ==
    LET i == [feed |-> f, acct |-> a, topic |-> m, date |-> Seconds(clock + 1)]
        passed == {u \in Users : i.date <= stats[u][m] \/ i.date <= job[u].new[m]}
    IN  /\ clock < MaxTime
        /\ Cardinality(items) < MaxItems
        /\ clock' = clock + 1
        /\ items' = items \cup {i}
        /\ late' = late \cup (passed \X ({i} \ items))
        /\ UNCHANGED <<table, saving, scan, job, mapping, filled, visiting, history>>

(* Time passes.                                                            *)
Tick ==
    /\ clock < MaxTime
    /\ clock' = clock + 1
    /\ UNCHANGED <<table, items, late, saving, scan, job, mapping, filled, visiting,
                   history>>

(* A variant that admits the last update's own instant.                    *)
IsAnnounceableDateAgain(d, last, now) == d >= last /\ d <= now

(* is_announceable_date: strictly after the last update (None admits all)  *)
(* and not after this one's start.                                         *)
IsAnnounceableDate(d, last, now) == d > last /\ d <= now

Reported(f, a, topics, last, now) ==
    {i \in items : /\ i.feed = f
                   /\ i.acct = a
                   /\ i.topic \in topics
                   /\ IsAnnounceableDate(i.date, last, now)}

-----------------------------------------------------------------------------
(* Saving and removing accounts *)

BeginSaving(u, a) ==
    /\ saving[u].acct = NoAccount
    /\ epoch[u] < MaxLinks
    /\ saving' = [saving EXCEPT ![u] = [acct |-> a, got |-> NoStats, left |-> Modes]]
    /\ UNCHANGED <<table, world, scan, job, mapping, filled, visiting, history>>

(* One of the concurrent fetches of add_user ends; a failed one leaves the *)
(* mode out.                                                               *)
FetchForSaving(u, m) ==
    /\ m \in saving[u].left
    /\ \E got \in {clock} \cup (IF "fetch" \in Faults THEN {Never} ELSE {}) :
          saving' = [saving EXCEPT ![u] =
                        [saving[u] EXCEPT !.left = @ \ {m},
                                          !.got = [@ EXCEPT ![m] = got]]]
    /\ UNCHANGED <<table, world, scan, job, mapping, filled, visiting, history>>

CommitSaving(u) ==
    /\ saving[u].acct # NoAccount
    /\ saving[u].left = {}
    /\ saving' = [saving EXCEPT ![u] = NoSaving]
    /\ \/ /\ NewUser(u, saving[u].acct, saving[u].got)
          /\ epoch' = [epoch EXCEPT ![u] = @ + 1]
          /\ baseline' = [baseline EXCEPT ![u] = InSeconds(saving[u].got)]
          /\ mishaps' = [mishaps EXCEPT ![u] =
                            @ \cup (IF job[u].phase = "off" /\ mapping[u] = {}
                                     THEN {} ELSE {"resaved"})]
       \/ /\ NewUserRejected(u, saving[u].acct)
          /\ UNCHANGED <<epoch, baseline, mishaps>>
    /\ UNCHANGED <<world, scan, job, mapping, filled, visiting, sent, resent>>

Forget(u) ==
    /\ RemoveUser(u)
    /\ UNCHANGED <<world, saving, scan, job, mapping, filled, visiting, history>>

-----------------------------------------------------------------------------
(* The scan *)

(* The first query of OsuUser::all.                                        *)
ListUsers ==
    /\ scan = "sleep"
    /\ scan' = "listed"
    /\ job' = [u \in Users |->
                 IF link[u] = NoAccount THEN NoJob
                 ELSE [NoJob EXCEPT !.phase = "listed", !.acct = link[u],
                                    !.fails = failures[u]]]
    /\ UNCHANGED <<table, world, saving, mapping, filled, visiting, history>>

(* The second one, on another connection: the modes of the rows found may  *)
(* have changed in between.                                                *)
ListModes ==
    /\ scan = "listed"
    /\ scan' = "running"
    /\ job' = [u \in Users |->
                 IF job[u].phase = "off" THEN NoJob
                 ELSE [job[u] EXCEPT !.phase = "queued", !.old = stats[u],
                                     !.new = stats[u]]]
    /\ mishaps' = [u \in Users |->
                     mishaps[u] \cup (IF job[u].phase # "off" /\ link[u] # job[u].acct
                                      THEN {"torn"} ELSE {})]
    /\ UNCHANGED <<table, world, saving, mapping, filled, visiting, epoch,
                   sent, resent, baseline>>

(* update_user begins once the user's channels are known; a user with too  *)
(* many failures is left alone.                                            *)
BeginUpdate(u) ==
    /\ scan = "running"
    /\ job[u].phase = "queued"
    /\ job' = [job EXCEPT ![u] =
                 IF job[u].fails = MaxFailures THEN NoJob
                 ELSE [job[u] EXCEPT !.phase = "modes", !.now = clock]]
    /\ UNCHANGED <<table, world, saving, scan, mapping, filled, visiting, history>>

(* One iteration of the loop over the modes.  The best scores of a mode    *)
(* are announced only relative to an earlier record of it.                 *)
FetchMode(u) ==
    LET j == job[u]
        m == ModeOrder[j.next]
        top == IF j.old[m] = Never THEN {}
               ELSE Reported("top", j.acct, {m}, j.old[m], j.now)
    IN  /\ j.phase = "modes"
        /\ job' = [job EXCEPT ![u] =
                      [j EXCEPT !.new = [@ EXCEPT ![m] = j.now],
                                !.found = @ \cup top,
                                !.next = @ + 1,
                                !.phase = IF j.next = Len(ModeOrder)
                                          THEN "events" ELSE "modes"]]
        /\ UNCHANGED <<table, world, saving, scan, mapping, filled, visiting, history>>

(* A variant that records the failed mode as updated.                      *)
FetchModeFailsRecorded(u) ==
    /\ "fetch" \in Faults
    /\ job[u].phase = "modes"
    /\ job' = [job EXCEPT ![u].phase = "events", ![u].fails = @ + 1,
                          ![u].new[ModeOrder[job[u].next]] = job[u].now]
    /\ mishaps' = [mishaps EXCEPT ![u] = @ \cup {"fetch"}]
    /\ UNCHANGED <<table, world, saving, scan, mapping, filled, visiting, epoch,
                   sent, resent, baseline>>

(* A failed fetch is counted and ends the loop.                            *)
FetchModeFails(u) ==
    /\ "fetch" \in Faults
    /\ job[u].phase = "modes"
    /\ job' = [job EXCEPT ![u] = [job[u] EXCEPT !.phase = "events", !.fails = @ + 1]]
    /\ mishaps' = [mishaps EXCEPT ![u] = @ \cup {"fetch"}]
    /\ UNCHANGED <<table, world, saving, scan, mapping, filled, visiting, epoch,
                   sent, resent, baseline>>

LatestOf(st) == CHOOSE t \in {st[m] : m \in Modes} : \A m \in Modes : st[m] <= t

(* The recent events: mapping events go to the other announcer at once,    *)
(* rank events join the collected scores unless their score cannot be      *)
(* fetched.                                                                *)
FetchEvents(u) ==
    LET j == job[u]
        ranks == UNION {Reported("rank", j.acct, {m}, j.old[m], j.now) : m \in Modes}
    IN  /\ j.phase = "events"
        /\ mapping' = [mapping EXCEPT ![u] =
                          @ \cup Reported("map", j.acct, Modes, LatestOf(j.old), j.now)]
        /\ \E kept \in IF "events" \in Faults THEN SUBSET ranks ELSE {ranks} :
              job' = [job EXCEPT ![u] = [j EXCEPT !.phase = "save", !.found = @ \cup kept]]
        /\ UNCHANGED <<table, world, saving, scan, filled, visiting, history>>

(* No events, or no user header: the update goes on without them.          *)
FetchEventsFails(u) ==
    /\ "events" \in Faults
    /\ job[u].phase = "events"
    /\ job' = [job EXCEPT ![u] = [job[u] EXCEPT !.phase = "save"]]
    /\ UNCHANGED <<table, world, saving, scan, mapping, filled, visiting, history>>

(* Items handed over for posting, remembering those handed over before.    *)
HandOver(u, its) ==
    LET new == {<<u, i, epoch[u]>> : i \in its}
    IN  /\ sent' = sent \cup new
        /\ resent' = resent \cup (sent \cap new)

(* The failure count the row is stored with.                               *)
FailuresToStore(j) == 0

(* The row is stored and the collected scores go to send_all.              *)
SaveAndAnnounce(u) ==
    LET j == job[u]
    IN  /\ j.phase = "save"
        /\ SaveUser(u, j.acct, FailuresToStore(j), j.new)
        /\ HandOver(u, j.found)
        /\ job' = [job EXCEPT ![u] = NoJob]
        /\ baseline' = [baseline EXCEPT ![u] =
                          [m \in Modes |-> IF Never \in {j.old[m], stats[u][m]}
                                           THEN Seconds(j.new[m]) ELSE @[m]]]
        /\ UNCHANGED <<world, saving, scan, mapping, filled, visiting, epoch, mishaps>>

(* The update lost a race against a saving, or could not be stored: what   *)
(* it collected is dropped.                                                *)
SkipUser(u) ==
    /\ job[u].phase = "save"
    /\ \/ StoreRaced(u, job[u].acct)
       \/ StoreDuplicate(u, job[u].acct)
       \/ "save" \in Faults
    /\ job' = [job EXCEPT ![u] = NoJob]
    /\ mishaps' = [mishaps EXCEPT ![u] = @ \cup {"save"}]
    /\ UNCHANGED <<table, world, saving, scan, mapping, filled, visiting, epoch,
                   sent, resent, baseline>>

(* A variant that forgets to wake the mapping announcer.                   *)
EndScanSilently ==
    /\ scan = "running"
    /\ \A u \in Users : job[u].phase = "off"
    /\ scan' = "sleep"
    /\ UNCHANGED <<table, world, saving, job, mapping, filled, visiting, history>>

(* Every update has ended: the mapping announcer is woken; a token that is *)
(* still there is enough.                                                  *)
EndScan ==
    /\ scan = "running"
    /\ \A u \in Users : job[u].phase = "off"
    /\ scan' = "sleep"
    /\ filled' = TRUE
    /\ UNCHANGED <<table, world, saving, job, mapping, visiting, history>>

-----------------------------------------------------------------------------
(* The mapping announcer *)

WakeMapping ==
    /\ visiting = {}
    /\ filled
    /\ filled' = FALSE
    /\ visiting' = {u \in Users : mapping[u] # {}}
    /\ UNCHANGED <<table, world, saving, scan, job, mapping, history>>

(* Only the newest event of each beatmapset is posted.                     *)
NewestPerTopic(its) ==
    {i \in its : \A k \in its : k.topic = i.topic => k.date <= i.date}

(* The events of a user are taken; they are posted unless the Discord user *)
(* cannot be fetched.                                                      *)
TakeMapping(u) ==
    /\ u \in visiting
    /\ visiting' = visiting \ {u}
    /\ mapping' = [mapping EXCEPT ![u] = {}]
    /\ \/ HandOver(u, NewestPerTopic(mapping[u]))
       \/ /\ "events" \in Faults
          /\ UNCHANGED <<sent, resent>>
    /\ UNCHANGED <<table, world, saving, scan, job, filled, epoch, baseline, mishaps>>

-----------------------------------------------------------------------------

(* The bot stops and starts again: only the table survives.                *)
Crash ==
    /\ "crash" \in Faults
    /\ saving' = [u \in Users |-> NoSaving]
    /\ scan' = "sleep"
    /\ job' = [u \in Users |-> NoJob]
    /\ mapping' = [u \in Users |-> {}]
    /\ filled' = FALSE
    /\ visiting' = {}
    /\ mishaps' = [u \in Users |->
                     mishaps[u] \cup (IF job[u].phase = "off" THEN {} ELSE {"save"})]
    /\ UNCHANGED <<table, world, epoch, sent, resent, baseline>>

World == Tick \/ \E f \in Feeds, a \in Accounts, m \in Modes : Happen(f, a, m)

Commands(u) ==
    \/ \E a \in Accounts : BeginSaving(u, a)
    \/ \E m \in Modes : FetchForSaving(u, m)
    \/ CommitSaving(u)
    \/ Forget(u)

Update(u) ==
    \/ BeginUpdate(u)
    \/ FetchMode(u)
    \/ FetchModeFails(u)
    \/ FetchEvents(u)
    \/ FetchEventsFails(u)
    \/ SaveAndAnnounce(u)
    \/ SkipUser(u)

Scan == ListUsers \/ ListModes \/ (\E u \in Users : Update(u)) \/ EndScan

MappingAnnouncer == WakeMapping \/ \E u \in Users : TakeMapping(u)

Next ==
    \/ World
    \/ \E u \in Users : Commands(u)
    \/ Scan
    \/ MappingAnnouncer
    \/ Crash

Spec == Init /\ [][Next]_vars

(* The announcers' loops never stop, and every request they make ends.     *)
FairSpec == Spec /\ WF_vars(Scan) /\ WF_vars(MappingAnnouncer)

-----------------------------------------------------------------------------
(* Properties *)

(* Within one saving of an account, a best score is announced at most once *)
(* and a rank or mapping event is announced again only after a fetch of a  *)
(* mode failed, a store was skipped or the row changed under the scan      *)
(* (update_user's windows: last_update is taken from the copy, now once).  *)
RepeatsNeedAMishap ==
    \A d \in resent :
        CASE d[2].feed = "top"  -> FALSE
          [] d[2].feed = "rank" -> mishaps[d[1]] \cap {"fetch", "torn"} # {}
          [] d[2].feed = "map"  -> mishaps[d[1]] # {}

(* No best score is passed over: if its mode's last update has moved past  *)
(* it since the mode was first recorded, it was handed over for posting    *)
(* (the windows of consecutive updates of a mode leave no gap, whatever    *)
(* fails in between), unless it was set in the very second of an update    *)
(* that had already asked for the scores.                                  *)
NoTopScoreSkipped ==
    \A u \in Users : \A i \in items :
        /\ i.feed = "top"
        /\ i.acct = link[u]
        /\ "resaved" \notin mishaps[u]
        /\ i.date > baseline[u][i.topic]
        /\ i.date <= stats[u][i.topic]
        /\ <<u, i>> \notin late
        => \E e \in 0..MaxLinks : <<u, i, e>> \in sent

(* Scores are only announced for the account the user is linked to when    *)
(* the update is stored, or for a user without a row: an update that read  *)
(* another account is refused (store, new_user).                           *)
OnlyLinkedAccountAnnounced ==
    [][\A d \in sent' \ sent :
          d[2].feed \in {"top", "rank"} => link[d[1]] \in {NoAccount, d[2].acct}]_vars

(* A mapping event that was collected is eventually taken by the mapping   *)
(* announcer: a wake-up is never lost (the bounded channel `filled`).      *)
MappingEventsAreTaken ==
    \A u \in Users : mapping[u] # {} ~> mapping[u] = {}

-----------------------------------------------------------------------------
(* Refinement *)

Links == INSTANCE AccountLinks
         WITH holder <- link, underway <- [u \in Users |-> job[u].acct]

(* The announcer and the commands implement AccountLinks: savings take     *)
(* free accounts only, and however long an update works on its copy of a   *)
(* row, it never undoes a saving made since (updates, store, new_user).    *)
LinksAreClaims == Links!Spec

-----------------------------------------------------------------------------
(* What makes TypeOK inductive: a saving in progress has its place among   *)
(* the MaxLinks, an update is of an account, and one in its loop has not   *)
(* failed too often.                                                       *)
Progress ==
    \A u \in Users :
        /\ saving[u].acct # NoAccount => epoch[u] < MaxLinks
        /\ scan = "listed" => job[u].phase \in {"off", "listed"}
        /\ job[u].phase # "off" => job[u].acct \in Accounts
        /\ job[u].phase \in {"listed", "queued"} => job[u].next = 1
        /\ job[u].phase = "modes" => /\ job[u].fails < MaxFailures
                                    /\ job[u].next <= Len(ModeOrder)

(* What an update collects is of its account; mapping events are apart.    *)
Collected ==
    \A u \in Users :
        /\ \A i \in job[u].found : i.feed \in {"top", "rank"} /\ i.acct = job[u].acct
        /\ \A i \in mapping[u] : i.feed = "map"

(* Between two scans no update is under way, and one that has ended leaves *)
(* no account behind.                                                      *)
Asleep ==
    \A u \in Users :
        /\ job[u].phase = "off" => job[u].acct = NoAccount
        /\ scan = "sleep" => job[u].phase = "off"

-----------------------------------------------------------------------------
(* A claim of the repository the code does not keep *)

(* failures is the "number of consecutive update failures": an update that *)
(* failed is stored with a count above zero.                               *)
FailedUpdateIsCounted ==
    [][\A u \in Users :
          SaveAndAnnounce(u) /\ job[u].fails > 0 => failures'[u] > 0]_vars
=============================================================================
