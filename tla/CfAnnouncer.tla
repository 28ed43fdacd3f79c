---------------------------- MODULE CfAnnouncer ----------------------------
(***************************************************************************)
(* The Codeforces announcer of youmubot-cf/src/announcer.rs and the save   *)
(* command of youmubot-cf/src/lib.rs.                                      *)
(*                                                                         *)
(* A scan clones the table of saved users, updates every row of the clone  *)
(* concurrently, and writes the rows back in one go unless the stored row  *)
(* is newer.  A row remembers the last contest that was announced; what    *)
(* comes after it in the handle's rating changes is announced.             *)
(***************************************************************************)
EXTENDS Naturals, Sequences, FiniteSets, SequencesExt

CONSTANTS
    Users,          \* Discord users
    Handles,        \* Codeforces handles
    NoHandle,       \* "no row" and "no save in progress"
    Contests,       \* rated contests
    NoContest,      \* last_contest_id is None
    MaxFaults,      \* bound on rollbacks, failed posts and restarts
    MaxFailures,    \* failures from which a row is not written back
    MaxSaves        \* bound on the saves of a user

ASSUME CfAnnouncerAssumption ==
    /\ NoHandle \notin Handles
    /\ NoContest \notin Contests
    /\ MaxFaults \in Nat
    /\ MaxFailures \in Nat \ {0}
    /\ MaxSaves \in Nat

VARIABLES
    rated,          \* the rated contests of each handle, oldest first
    hidden,         \* contests whose rating changes are rolled back
    faults,         \* number of faults so far
    db,             \* CfSavedUsers
    saving,         \* the save command of each user
    scan,           \* a scan is in progress
    job,            \* the clone's row of each user and its update
    newer,          \* db[u].last_update > job[u].row.last_update
    epoch,          \* history: number of saves of each user
    base,           \* history: contests rated when the user was saved
    announced,      \* history: <<user, epoch, handle, contest>>
    again,          \* history: those announced more than once
    mishaps         \* history: what went wrong for each user

world == <<rated, hidden, faults>>
history == <<epoch, base, announced, again, mishaps>>
vars == <<world, db, saving, scan, job, newer, history>>

CfUser == [handle : Handles \cup {NoHandle},
           last : Contests \cup {NoContest},
           failures : 0..MaxFailures]
NoUser == [handle |-> NoHandle, last |-> NoContest, failures |-> 0]

NoJob == [phase |-> "off", row |-> NoUser, todo |-> <<>>]

Announcement == Users \X (0..MaxSaves) \X Handles \X Contests

TypeOK ==
    /\ rated \in [Handles -> Seq(Contests)]
    /\ hidden \in [Handles -> SUBSET Contests]
    /\ faults \in 0..MaxFaults
    /\ db \in [Users -> CfUser]
    /\ saving \in [Users -> CfUser]
    /\ scan \in BOOLEAN
    /\ job \in [Users -> [phase : {"off", "info", "send", "done"},
                          row : CfUser, todo : Seq(Contests)]]
    /\ newer \in [Users -> BOOLEAN]
    /\ epoch \in [Users -> 0..MaxSaves]
    /\ base \in [Users -> SUBSET Contests]
    /\ announced \subseteq Announcement
    /\ again \subseteq announced
    /\ mishaps \in [Users -> SUBSET {"first", "hidden", "limit", "early", "late",
                                 "send", "crash"}]

Init ==
    /\ rated = [h \in Handles |-> <<>>]
    /\ hidden = [h \in Handles |-> {}]
    /\ faults = 0
    /\ db = [u \in Users |-> NoUser]
    /\ saving = [u \in Users |-> NoUser]
    /\ scan = FALSE
    /\ job = [u \in Users |-> NoJob]
    /\ newer = [u \in Users |-> FALSE]
    /\ epoch = [u \in Users |-> 0]
    /\ base = [u \in Users |-> {}]
    /\ announced = {}
    /\ again = {}
    /\ mishaps = [u \in Users |-> {}]

-----------------------------------------------------------------------------
(* The world *)

Rate(h, k) ==
    /\ k \notin ToSet(rated[h])
    /\ rated' = [rated EXCEPT ![h] = Append(@, k)]
    /\ UNCHANGED <<hidden, faults, db, saving, scan, job, newer, history>>

Fault == faults < MaxFaults /\ faults' = faults + 1

(* "Sometimes Codeforces performs rollback": a rating change disappears    *)
(* for a while.                                                            *)
RollBack(h, k) ==
    /\ Fault
    /\ k \in ToSet(rated[h]) \ hidden[h]
    /\ hidden' = [hidden EXCEPT ![h] = @ \cup {k}]
    /\ UNCHANGED <<rated, db, saving, scan, job, newer, history>>

Restore(h, k) ==
    /\ k \in hidden[h]
    /\ hidden' = [hidden EXCEPT ![h] = @ \ {k}]
    /\ UNCHANGED <<rated, faults, db, saving, scan, job, newer, history>>

(* The rating_changes request: what is not rolled back, in its order.      *)
RatingChanges(h) ==
    LET shown == {i \in DOMAIN rated[h] : rated[h][i] \notin hidden[h]}
        Nth(n) == CHOOSE i \in shown : Cardinality({j \in shown : j <= i}) = n
    IN  [n \in 1..Cardinality(shown) |-> rated[h][Nth(n)]]

-----------------------------------------------------------------------------
(* The save command *)

LastOf(s) == IF s = <<>> THEN NoContest ELSE Last(s)

(* The account and its rating changes are fetched, and the reply sent.     *)
BeginSave(u, h) ==
    /\ saving[u] = NoUser
    /\ epoch[u] < MaxSaves
    /\ saving' = [saving EXCEPT ![u] = [handle |-> h, last |-> LastOf(RatingChanges(h)),
                                        failures |-> 0]]
    /\ UNCHANGED <<world, db, scan, job, newer, history>>

CommitSave(u) ==
    /\ saving[u] # NoUser
    /\ db' = [db EXCEPT ![u] = saving[u]]
    /\ saving' = [saving EXCEPT ![u] = NoUser]
    /\ newer' = [newer EXCEPT ![u] = TRUE]
    /\ epoch' = [epoch EXCEPT ![u] = @ + 1]
    /\ base' = [base EXCEPT ![u] =
                  LET r == rated[saving[u].handle]
                  IN  {r[i] : i \in {j \in DOMAIN r :
                         \E k \in j..Len(r) : r[k] = saving[u].last}}]
    /\ mishaps' = [mishaps EXCEPT ![u] =
                     @ \cup (CASE job[u].phase = "off" -> {}
                              [] job[u].phase = "info" -> {"early"}
                              [] OTHER -> {"late"})]
    /\ UNCHANGED <<world, scan, job, announced, again>>

-----------------------------------------------------------------------------
(* The scan *)

BeginScan ==
    /\ ~scan
    /\ scan' = TRUE
    /\ job' = [u \in Users |-> IF db[u] = NoUser THEN NoJob
                               ELSE [phase |-> "info", row |-> db[u], todo |-> <<>>]]
    /\ newer' = [u \in Users |-> FALSE]
    /\ UNCHANGED <<world, db, saving, history>>

(* A failed update is counted in the clone.                                *)
Failed(row) == [row EXCEPT !.failures = @ + 1]

UserInfoFails(u) ==
    /\ job[u].phase = "info"
    /\ job' = [job EXCEPT ![u].phase = "done", ![u].row = Failed(@)]
    /\ UNCHANGED <<world, db, saving, scan, newer, history>>

(* A variant that tells a user without a last contest of the latest only.  *)
NewChangesLatest(changes, last) ==
    IF last = NoContest THEN SelectSeq(changes, LAMBDA k : k = LastOf(changes))
    ELSE LET after == {i \in DOMAIN changes : \E j \in 1..(i - 1) : changes[j] = last}
         IN  Reverse(SubSeq(changes, Len(changes) - Cardinality(after) + 1, Len(changes)))

(* A variant that takes the changes from the newest until the last one     *)
(* announced.                                                              *)
NewChangesTaken(changes, last) ==
    IF last = NoContest THEN changes
    ELSE LET upto == {i \in DOMAIN changes : changes[i] = last}
         IN  IF upto = {} THEN Reverse(changes)
             ELSE Reverse(SubSeq(changes, Max(upto) + 1, Len(changes)))

(* The changes after the last one announced, newest first; all of them,    *)
(* oldest first, when none was.                                            *)
NewChanges(changes, last) ==
    IF last = NoContest THEN changes
    ELSE LET after == {i \in DOMAIN changes : \E j \in 1..(i - 1) : changes[j] = last}
         IN  Reverse(SubSeq(changes, Len(changes) - Cardinality(after) + 1, Len(changes)))

(* The row remembers the first of the new changes before any is sent.      *)
UserInfo(u) ==
    LET row == job[u].row
        changes == RatingChanges(row.handle)
        new == NewChanges(changes, row.last)
    IN  /\ job[u].phase = "info"
        /\ job' = [job EXCEPT ![u] =
                     [phase |-> "send",
                      row |-> [row EXCEPT !.last = IF new = <<>> THEN @ ELSE Head(new)],
                      todo |-> new]]
        /\ newer' = [newer EXCEPT ![u] = FALSE]
        /\ mishaps' = [mishaps EXCEPT ![u] =
                         @ \cup (IF row.last = NoContest /\ Len(new) > 1
                                 THEN {"first"} ELSE {})
                           \cup (IF hidden[row.handle] = {} THEN {} ELSE {"hidden"})]
        /\ UNCHANGED <<world, db, saving, scan, epoch, base, announced, again>>

Announce(u, contests) ==
    LET new == {<<u, epoch[u], job[u].row.handle, k>> : k \in contests}
    IN  /\ announced' = announced \cup new
        /\ again' = again \cup (announced \cap new)

Send(u) ==
    /\ job[u].phase = "send"
    /\ Announce(u, ToSet(job[u].todo))
    /\ job' = [job EXCEPT ![u].phase = "done", ![u].row.failures = 0]
    /\ UNCHANGED <<world, db, saving, scan, newer, epoch, base, mishaps>>

(* The first error drops the announcements still to be made.               *)
SendFails(u) ==
    /\ Fault
    /\ job[u].phase = "send"
    /\ job[u].todo # <<>>
    /\ \E some \in SUBSET ToSet(job[u].todo) : Announce(u, some)
    /\ job' = [job EXCEPT ![u].phase = "done", ![u].row = Failed(@)]
    /\ mishaps' = [mishaps EXCEPT ![u] = @ \cup {"send"}]
    /\ UNCHANGED <<rated, hidden, db, saving, scan, newer, epoch, base>>

(* A variant that writes every row back.                                   *)
KeepsStoredNever(u) == FALSE

(* The stored row stays: it is newer, or there were too many failures.     *)
KeepsStored(u) == newer[u] \/ job[u].row.failures >= MaxFailures

EndScan ==
    /\ scan
    /\ \A u \in Users : job[u].phase \in {"off", "done"}
    /\ scan' = FALSE
    /\ db' = [u \in Users |-> IF job[u].phase = "off" \/ KeepsStored(u)
                              THEN db[u] ELSE job[u].row]
    /\ job' = [u \in Users |-> NoJob]
    /\ mishaps' = [u \in Users |->
                     mishaps[u] \cup (IF job[u].row.failures >= MaxFailures
                                      THEN {"limit"} ELSE {})]
    /\ UNCHANGED <<world, saving, newer, epoch, base, announced, again>>

(* The bot stops and starts again with the stored table.                   *)
Crash ==
    /\ Fault
    /\ saving' = [u \in Users |-> NoUser]
    /\ scan' = FALSE
    /\ job' = [u \in Users |-> NoJob]
    /\ mishaps' = [u \in Users |->
                     mishaps[u] \cup (IF job[u].phase = "off" THEN {} ELSE {"crash"})]
    /\ UNCHANGED <<rated, hidden, db, newer, epoch, base, announced, again>>

-----------------------------------------------------------------------------

World ==
    \E h \in Handles, k \in Contests : Rate(h, k) \/ RollBack(h, k) \/ Restore(h, k)

Next ==
    \/ World
    \/ \E u \in Users, h \in Handles : BeginSave(u, h)
    \/ \E u \in Users : CommitSave(u)
    \/ BeginScan
    \/ \E u \in Users : UserInfo(u) \/ UserInfoFails(u) \/ Send(u) \/ SendFails(u)
    \/ EndScan
    \/ Crash

Spec == Init /\ [][Next]_vars

-----------------------------------------------------------------------------
(* Properties *)

(* Within one saving a rating change is announced twice only when the user *)
(* had none at first and got several at once, or the row was not written   *)
(* back as it was announced (update_user's last_contest_id, updates).      *)
RepeatsNeedAMishap ==
    \A x \in again : mishaps[x[1]] \cap {"first", "limit", "early", "late", "crash"} # {}

(* A rating change the stored row has passed was announced, unless sending *)
(* failed, the change was rolled back when Codeforces was asked, or the    *)
(* user was saved before the update got its answers (update_user).         *)
NoChangeSkipped ==
    \A u \in Users :
        LET r == rated[db[u].handle]
        IN  db[u] # NoUser /\ mishaps[u] \cap {"send", "hidden", "early"} = {} =>
              \A i \in DOMAIN r, j \in DOMAIN r :
                 i <= j /\ r[j] = db[u].last /\ r[i] \notin base[u]
                    => <<u, epoch[u], db[u].handle, r[i]>> \in announced

(* The handle of a user is the one saved last: a scan puts an older one    *)
(* back only when the save ended before the update of the user got its     *)
(* answers, so that the clone's row looks as new (updates, last_update).   *)
LateSaveWins ==
    [][\A u \in Users :
          db[u] # NoUser /\ db'[u].handle # db[u].handle
              => epoch'[u] # epoch[u] \/ "early" \in mishaps[u]]_vars
=============================================================================
