-------------------------- MODULE OsuAnnouncerProofs --------------------------
(***************************************************************************)
(* Theorems about OsuAnnouncer for every set of users, accounts and modes  *)
(* and every value of the bounds.                                          *)
(***************************************************************************)
EXTENDS OsuAnnouncer, FoldLemmas, TLAPS

(* Truncating an instant to seconds does not move it forward.              *)
LEMMA SecondsBounded ==
    ASSUME NEW t \in Time
    PROVE  Seconds(t) \in Time
  BY SavedUsersAssumption DEF Seconds, Time

LEMMA InSecondsType ==
    ASSUME NEW st \in [Modes -> Time]
    PROVE  InSeconds(st) \in [Modes -> Time]
  BY SecondsBounded DEF InSeconds

LEMMA NothingType == NoJob \in Job /\ NoSaving \in Saving /\ NoStats \in [Modes -> Time]
  BY SavedUsersAssumption, AnnouncerAssumption
  DEF NoJob, Job, NoSaving, Saving, NoStats, Never, Time

(* The three parts of the inductive invariant.                             *)
IInv == TypeOK /\ Progress /\ OneUserPerAccount

(* What is collected from the world are items of the world.                *)
LEMMA ReportedType ==
    ASSUME NEW f, NEW a, NEW T, NEW last, NEW now, items \in SUBSET Item
    PROVE  Reported(f, a, T, last, now) \in SUBSET Item
  BY DEF Reported

LEMMA HandOverType ==
    ASSUME NEW u \in Users, NEW its \in SUBSET Item, TypeOK, HandOver(u, its)
    PROVE  sent' \in SUBSET Delivery /\ resent' \in SUBSET Delivery
  BY DEF HandOver, TypeOK, Delivery

(* The table after a committed transaction is a table with unique accounts *)
(* again.                                                                  *)
LEMMA WriteRowSafe ==
    ASSUME NEW u \in Users, NEW a \in Accounts, NEW f \in 0..MaxFailures,
           NEW st \in [Modes -> Time], TableTypeOK, OneUserPerAccount,
           link[u] = a \/ ~HeldByAnother(u, a), WriteRow(u, a, f, st)
    PROVE  TableTypeOK' /\ OneUserPerAccount'
  <1>1. TableTypeOK'
    BY InSecondsType DEF TableTypeOK, WriteRow
  <1>2. OneUserPerAccount'
    BY DEF OneUserPerAccount, WriteRow, TableTypeOK, HeldByAnother
  <1> QED BY <1>1, <1>2

LEMMA InitIInv == Init => IInv
  <1> SUFFICES ASSUME Init PROVE IInv
    OBVIOUS
  <1>1. TableTypeOK /\ OneUserPerAccount
    <2>1. TicksPerSecond \in Time /\ 0 \in 0..MaxFailures
      BY SavedUsersAssumption DEF Time
    <2> QED BY <2>1, SecondsBounded, NothingType
            DEF Init, TableInit, TableTypeOK, OneUserPerAccount
  <1>2. TypeOK
    <2>1. clock \in Time /\ 0 \in 0..MaxLinks
      BY SavedUsersAssumption, AnnouncerAssumption DEF Init, Time
    <2>2. baseline \in [Users -> [Modes -> Time]]
      BY <1>1 DEF Init, TableTypeOK
    <2> QED BY <1>1, <2>1, <2>2, NothingType DEF Init, TypeOK
  <1>3. Progress
    BY DEF Init, Progress, NoJob, NoSaving
  <1> QED BY <1>1, <1>2, <1>3 DEF IInv

(* A step that leaves the table alone keeps what is said of it.            *)
LEMMA TableFrame ==
    ASSUME TableTypeOK, OneUserPerAccount, UNCHANGED table
    PROVE  TableTypeOK' /\ OneUserPerAccount'
  BY DEF table, TableTypeOK, OneUserPerAccount

LEMMA WorldStep ==
    ASSUME IInv, World
    PROVE  IInv'
  <1> USE DEF IInv
  <1>1. CASE Tick
    <2>1. clock' \in Time
      BY <1>1, SavedUsersAssumption DEF Tick, TypeOK, Time
    <2>2. TableTypeOK' /\ OneUserPerAccount'
      BY <1>1, TableFrame DEF Tick, TypeOK
    <2>3. TypeOK'
      BY <1>1, <2>1, <2>2 DEF Tick, TypeOK, history
    <2> QED BY <1>1, <2>2, <2>3 DEF Tick, Progress, history
  <1>2. ASSUME NEW f \in Feeds, NEW a \in Accounts, NEW m \in Modes, Happen(f, a, m)
        PROVE  IInv'
    <2> DEFINE i == [feed |-> f, acct |-> a, topic |-> m, date |-> Seconds(clock + 1)]
    <2>1. clock + 1 \in Time
      BY <1>2, SavedUsersAssumption DEF Happen, TypeOK, Time
    <2>2. i \in Item
      BY <2>1, SecondsBounded DEF Item
    <2>3. TableTypeOK' /\ OneUserPerAccount'
      BY <1>2, TableFrame DEF Happen, TypeOK
    <2>4. items' \in SUBSET Item /\ late' \in SUBSET (Users \X Item)
      BY <1>2, <2>2 DEF Happen, TypeOK
    <2>5. TypeOK'
      BY <1>2, <2>1, <2>3, <2>4 DEF Happen, TypeOK, history
    <2> QED BY <1>2, <2>3, <2>5 DEF Happen, Progress, history
  <1> QED BY <1>1, <1>2 DEF World

LEMMA CommandsStep ==
    ASSUME IInv, NEW u \in Users, Commands(u)
    PROVE  IInv'
  <1>1. ASSUME NEW a \in Accounts, BeginSaving(u, a)
        PROVE  IInv'
    <2>1. [acct |-> a, got |-> NoStats, left |-> Modes] \in Saving
      BY NothingType DEF Saving
    <2>2. TableTypeOK' /\ OneUserPerAccount'
      BY <1>1, TableFrame DEF BeginSaving, IInv, TypeOK
    <2>3. TypeOK'
      BY <1>1, <2>1, <2>2 DEF BeginSaving, IInv, TypeOK, world, history
    <2>4. Progress'
      BY <1>1 DEF BeginSaving, IInv, TypeOK, Progress, history
    <2> QED BY <2>2, <2>3, <2>4 DEF IInv
  <1>2. ASSUME NEW m \in Modes, FetchForSaving(u, m)
        PROVE  IInv'
    <2>1. PICK got \in Time :
             saving' = [saving EXCEPT ![u] =
                          [saving[u] EXCEPT !.left = @ \ {m}, !.got = [@ EXCEPT ![m] = got]]]
      <3>1. clock \in Time /\ Never \in Time
        BY SavedUsersAssumption DEF IInv, TypeOK, Never, Time
      <3>2. {clock} \cup (IF "fetch" \in Faults THEN {Never} ELSE {}) \subseteq Time
        BY <3>1
      <3> QED BY <1>2, <3>2 DEF FetchForSaving
    <2>s. saving \in [Users -> Saving]
      BY DEF IInv, TypeOK
    <2>r. [saving[u] EXCEPT !.left = @ \ {m}, !.got = [@ EXCEPT ![m] = got]] \in Saving
      BY <2>s DEF Saving
    <2>2. saving' \in [Users -> Saving]
      BY <2>1, <2>s, <2>r
    <2>3. \A v \in Users : saving'[v].acct = saving[v].acct
      BY <2>1, <2>s DEF Saving
    <2>4. TableTypeOK' /\ OneUserPerAccount'
      BY <1>2, TableFrame DEF FetchForSaving, IInv, TypeOK
    <2>5. TypeOK'
      BY <1>2, <2>2, <2>4 DEF FetchForSaving, IInv, TypeOK, world, history
    <2>6. Progress'
      BY <1>2, <2>3 DEF FetchForSaving, IInv, Progress, history
    <2> QED BY <2>4, <2>5, <2>6 DEF IInv
  <1>3. CASE CommitSaving(u)
    <2>1. saving[u].acct \in Accounts /\ saving[u].got \in [Modes -> Time]
      BY <1>3 DEF CommitSaving, IInv, TypeOK, Saving
    <2>2. TableTypeOK' /\ OneUserPerAccount'
      <3>1. CASE NewUser(u, saving[u].acct, saving[u].got)
        <4>1. 0 \in 0..MaxFailures
          BY SavedUsersAssumption
        <4> QED BY <2>1, <3>1, <4>1, WriteRowSafe DEF NewUser, IInv, TypeOK
      <3>2. CASE NewUserRejected(u, saving[u].acct)
        BY <3>2 DEF NewUserRejected, table, IInv, TypeOK, TableTypeOK, OneUserPerAccount
      <3> QED BY <1>3, <3>1, <3>2 DEF CommitSaving
    <2>3. /\ epoch' \in [Users -> 0..MaxLinks]
          /\ baseline' \in [Users -> [Modes -> Time]]
          /\ mishaps' \in [Users -> SUBSET {"fetch", "save", "torn", "resaved"}]
          /\ \A v \in Users \ {u} : epoch'[v] = epoch[v]
      <3>1. epoch[u] + 1 \in 0..MaxLinks
        BY <1>3, AnnouncerAssumption DEF CommitSaving, IInv, TypeOK, Progress
      <3>2. InSeconds(saving[u].got) \in [Modes -> Time]
        BY <2>1, InSecondsType
      <3>3. epoch' \in [Users -> 0..MaxLinks] /\ \A v \in Users \ {u} : epoch'[v] = epoch[v]
        BY <1>3, <3>1 DEF CommitSaving, IInv, TypeOK
      <3>4. baseline' \in [Users -> [Modes -> Time]]
        BY <1>3, <3>2 DEF CommitSaving, IInv, TypeOK
      <3>5. mishaps' \in [Users -> SUBSET {"fetch", "save", "torn", "resaved"}]
        BY <1>3 DEF CommitSaving, IInv, TypeOK
      <3> QED BY <3>3, <3>4, <3>5
    <2>4. saving' \in [Users -> Saving] /\ saving' = [saving EXCEPT ![u] = NoSaving]
      BY <1>3, NothingType DEF CommitSaving, IInv, TypeOK
    <2>5. TypeOK'
      BY <1>3, <2>2, <2>3, <2>4 DEF CommitSaving, IInv, TypeOK, world
    <2>6. Progress'
      BY <1>3, <2>3, <2>4 DEF CommitSaving, IInv, TypeOK, Progress, NoSaving
    <2> QED BY <2>2, <2>5, <2>6 DEF IInv
  <1>4. CASE Forget(u)
    <2>1. TableTypeOK' /\ OneUserPerAccount'
      <3>1. 0 \in 0..MaxFailures
        BY SavedUsersAssumption
      <3>2. TableTypeOK'
        BY <1>4, <3>1, NothingType DEF Forget, RemoveUser, IInv, TypeOK, TableTypeOK
      <3>3. OneUserPerAccount'
        BY <1>4 DEF Forget, RemoveUser, IInv, TypeOK, TableTypeOK, OneUserPerAccount
      <3> QED BY <3>2, <3>3
    <2> QED BY <1>4, <2>1 DEF Forget, IInv, TypeOK, Progress, world, history
  <1> QED BY <1>1, <1>2, <1>3, <1>4 DEF Commands

(* What an update may do to a job: the shapes the actions of update_user   *)
(* give it are all jobs.                                                   *)
LEMMA JobShapes ==
    ASSUME NEW j \in Job
    PROVE  /\ \A p \in {"off", "listed", "queued", "modes", "events", "save"} :
                [j EXCEPT !.phase = p] \in Job
           /\ \A its \in SUBSET Item :
                [j EXCEPT !.phase = "save", !.found = @ \cup its] \in Job
           /\ \A t \in Time : [j EXCEPT !.phase = "modes", !.now = t] \in Job
           /\ j.fails + 1 \in 0..MaxFailures
                => [j EXCEPT !.phase = "events", !.fails = @ + 1] \in Job
  BY DEF Job

(* One iteration of the loop over the modes gives a job.                   *)
LEMMA FetchedJob ==
    ASSUME NEW j \in Job, j.next <= Len(ModeOrder), NEW top \in SUBSET Item
    PROVE  [j EXCEPT !.new = [@ EXCEPT ![ModeOrder[j.next]] = j.now],
                     !.found = @ \cup top,
                     !.next = @ + 1,
                     !.phase = IF j.next = Len(ModeOrder) THEN "events" ELSE "modes"]
              \in Job
  <1>1. j.next + 1 \in 1..(Len(ModeOrder) + 1)
    BY AnnouncerAssumption DEF Job
  <1>2. [j.new EXCEPT ![ModeOrder[j.next]] = j.now] \in [Modes -> Time]
    BY DEF Job
  <1>3. j.found \cup top \in SUBSET Item
    BY DEF Job
  <1> QED BY <1>1, <1>2, <1>3 DEF Job

LEMMA UpdateStep ==
    ASSUME IInv, NEW u \in Users, Update(u)
    PROVE  IInv'
  <1> DEFINE j == job[u]
  <1>0. /\ j \in Job /\ items \in SUBSET Item /\ TableTypeOK /\ OneUserPerAccount
        /\ \A v \in Users : job[v] \in Job
    BY DEF IInv, TypeOK
  <1>1. CASE BeginUpdate(u)
    <2>1. [j EXCEPT !.phase = "modes", !.now = clock] \in Job /\ NoJob \in Job
      BY <1>0, JobShapes, NothingType DEF IInv, TypeOK
    <2>2. TableTypeOK' /\ OneUserPerAccount'
      BY <1>1, <1>0, TableFrame DEF BeginUpdate
    <2>3. TypeOK'
      BY <1>1, <2>1, <2>2 DEF BeginUpdate, IInv, TypeOK, world, history
    <2>4. Progress'
      <3>1. j.fails # MaxFailures => j.fails < MaxFailures
        BY <1>0, SavedUsersAssumption DEF Job
      <3>2. j.next <= Len(ModeOrder) /\ j.acct \in Accounts
        BY <1>1, AnnouncerAssumption DEF BeginUpdate, IInv, Progress
      <3>3. /\ [j EXCEPT !.phase = "modes", !.now = clock].fails = j.fails
            /\ [j EXCEPT !.phase = "modes", !.now = clock].next = j.next
            /\ [j EXCEPT !.phase = "modes", !.now = clock].acct = j.acct
            /\ [j EXCEPT !.phase = "modes", !.now = clock].phase = "modes"
            /\ NoJob.phase = "off"
        BY <1>0 DEF Job, NoJob
      <3> QED BY <1>1, <3>1, <3>2, <3>3 DEF BeginUpdate, IInv, TypeOK, Progress, history
    <2> QED BY <2>2, <2>3, <2>4 DEF IInv
  <1>2. CASE FetchMode(u)
    <2> DEFINE m == ModeOrder[j.next]
               top == IF j.old[m] = Never THEN {}
                      ELSE Reported("top", j.acct, {m}, j.old[m], j.now)
               jj == [j EXCEPT !.new = [@ EXCEPT ![m] = j.now],
                               !.found = @ \cup top,
                               !.next = @ + 1,
                               !.phase = IF j.next = Len(ModeOrder) THEN "events" ELSE "modes"]
    <2>0. j.phase = "modes" /\ job' = [job EXCEPT ![u] = jj]
      BY <1>2 DEF FetchMode
    <2>1. j.next <= Len(ModeOrder) /\ j.fails < MaxFailures
      BY <2>0 DEF IInv, Progress
    <2>2. top \in SUBSET Item
      BY <1>0, ReportedType
    <2> HIDE DEF top
    <2>3. jj \in Job
      BY <1>0, <2>1, <2>2, FetchedJob
    <2>4. /\ jj.acct \in Accounts
          /\ jj.phase \notin {"listed", "queued"}
          /\ jj.phase = "modes" => jj.fails < MaxFailures /\ jj.next <= Len(ModeOrder)
      <3>1. /\ jj.fails = j.fails /\ jj.next = j.next + 1 /\ jj.acct = j.acct
            /\ jj.phase \in {"modes", "events"}
            /\ (jj.phase = "modes" => j.next # Len(ModeOrder))
        BY <1>0 DEF Job
      <3>2. Len(ModeOrder) \in Nat /\ j.next \in Int
        BY <1>0, AnnouncerAssumption DEF Job
      <3>3. j.acct \in Accounts
        BY <2>0 DEF IInv, Progress
      <3> QED BY <2>1, <3>1, <3>2, <3>3
    <2> HIDE DEF jj
    <2>5. TableTypeOK' /\ OneUserPerAccount'
      BY <1>2, <1>0, TableFrame DEF FetchMode
    <2>6. TypeOK'
      BY <1>2, <2>0, <2>3, <2>5 DEF FetchMode, IInv, TypeOK, world, history
    <2>7. Progress'
      BY <1>2, <2>0, <2>4 DEF FetchMode, IInv, TypeOK, Progress, history
    <2> QED BY <2>5, <2>6, <2>7 DEF IInv
  <1>3. CASE FetchModeFails(u)
    <2> DEFINE jj == [j EXCEPT !.phase = "events", !.fails = @ + 1]
    <2>0. job' = [job EXCEPT ![u] = jj] /\ j.fails < MaxFailures
      BY <1>3 DEF FetchModeFails, IInv, Progress
    <2>1. j.fails + 1 \in 0..MaxFailures
      BY <1>0, <2>0, SavedUsersAssumption DEF Job
    <2>2. jj \in Job /\ jj.phase = "events" /\ jj.acct = j.acct
      <3>1. jj \in Job
        BY <1>0, <2>1, JobShapes
      <3>2. jj.phase = "events" /\ jj.acct = j.acct
        BY <1>0 DEF Job
      <3> QED BY <3>1, <3>2
    <2> HIDE DEF jj
    <2>3. TableTypeOK' /\ OneUserPerAccount'
      BY <1>3, <1>0, TableFrame DEF FetchModeFails
    <2>4. mishaps' \in [Users -> SUBSET {"fetch", "save", "torn", "resaved"}]
      BY <1>3 DEF FetchModeFails, IInv, TypeOK
    <2>5. TypeOK'
      BY <1>3, <2>0, <2>2, <2>3, <2>4 DEF FetchModeFails, IInv, TypeOK, world
    <2>6. Progress'
      BY <1>3, <2>0, <2>2 DEF FetchModeFails, IInv, TypeOK, Progress
    <2> QED BY <2>3, <2>5, <2>6 DEF IInv
  <1>4. CASE FetchEvents(u)
    <2> DEFINE ranks == UNION {Reported("rank", j.acct, {m}, j.old[m], j.now) : m \in Modes}
    <2>1. ranks \in SUBSET Item
      <3>1. \A m \in Modes :
               Reported("rank", j.acct, {m}, j.old[m], j.now) \in SUBSET Item
        BY <1>0, ReportedType
      <3> QED BY <3>1
    <2> HIDE DEF ranks
    <2>2. PICK kept \in SUBSET ranks :
             job' = [job EXCEPT ![u] = [j EXCEPT !.phase = "save", !.found = @ \cup kept]]
      BY <1>4 DEF FetchEvents, ranks
    <2> DEFINE jj == [j EXCEPT !.phase = "save", !.found = @ \cup kept]
    <2>3. jj \in Job /\ jj.phase = "save" /\ jj.acct = j.acct
      <3>1. jj \in Job
        BY <1>0, <2>1, JobShapes
      <3>2. jj.phase = "save" /\ jj.acct = j.acct
        BY <1>0 DEF Job
      <3> QED BY <3>1, <3>2
    <2>4. job' = [job EXCEPT ![u] = jj]
      BY <2>2
    <2> HIDE DEF jj
    <2>5. TableTypeOK' /\ OneUserPerAccount'
      BY <1>4, <1>0, TableFrame DEF FetchEvents
    <2>6. mapping' \in [Users -> SUBSET Item]
      <3>1. Reported("map", j.acct, Modes, LatestOf(j.old), j.now) \in SUBSET Item
        BY <1>0, ReportedType
      <3> QED BY <1>4, <3>1 DEF FetchEvents, IInv, TypeOK
    <2>7. TypeOK'
      BY <1>4, <2>3, <2>4, <2>5, <2>6 DEF FetchEvents, IInv, TypeOK, world, history
    <2>8. Progress'
      BY <1>4, <2>3, <2>4 DEF FetchEvents, IInv, TypeOK, Progress, history
    <2> QED BY <2>5, <2>7, <2>8 DEF IInv
  <1>5. CASE FetchEventsFails(u)
    <2> DEFINE jj == [j EXCEPT !.phase = "save"]
    <2>1. jj \in Job /\ jj.phase = "save" /\ jj.acct = j.acct
      <3>1. jj \in Job
        BY <1>0, JobShapes
      <3>2. jj.phase = "save" /\ jj.acct = j.acct
        BY <1>0 DEF Job
      <3> QED BY <3>1, <3>2
    <2>2. job' = [job EXCEPT ![u] = jj]
      BY <1>5 DEF FetchEventsFails
    <2> HIDE DEF jj
    <2>3. TableTypeOK' /\ OneUserPerAccount'
      BY <1>5, <1>0, TableFrame DEF FetchEventsFails
    <2>4. TypeOK'
      BY <1>5, <2>1, <2>2, <2>3 DEF FetchEventsFails, IInv, TypeOK, world, history
    <2>5. Progress'
      BY <1>5, <2>1, <2>2 DEF FetchEventsFails, IInv, TypeOK, Progress, history
    <2> QED BY <2>3, <2>4, <2>5 DEF IInv
  <1>6. CASE SaveAndAnnounce(u)
    <2>1. TableTypeOK' /\ OneUserPerAccount'
      <3>1. StoreAccepted(u, j.acct) /\ WriteRow(u, j.acct, 0, j.new)
        BY <1>6 DEF SaveAndAnnounce, SaveUser, FailuresToStore
      <3>2. 0 \in 0..MaxFailures /\ j.new \in [Modes -> Time]
        BY <1>0, SavedUsersAssumption DEF Job
      <3>3. j.acct \in Accounts
        BY <1>6 DEF SaveAndAnnounce, IInv, Progress
      <3>4. link[u] = j.acct \/ ~HeldByAnother(u, j.acct)
        BY <3>1 DEF StoreAccepted, StoreRaced, StoreDuplicate
      <3> QED BY <1>0, <3>1, <3>2, <3>3, <3>4, WriteRowSafe
    <2>2. sent' \in SUBSET Delivery /\ resent' \in SUBSET Delivery
      <3>1. HandOver(u, j.found) /\ j.found \in SUBSET Item
        BY <1>0, <1>6 DEF SaveAndAnnounce, Job
      <3> QED BY <3>1, HandOverType DEF IInv
    <2>3. baseline' \in [Users -> [Modes -> Time]]
      <3>1. \A m \in Modes : Seconds(j.new[m]) \in Time
        BY <1>0, SecondsBounded DEF Job
      <3> QED BY <1>6, <3>1 DEF SaveAndAnnounce, IInv, TypeOK
    <2>4. job' = [job EXCEPT ![u] = NoJob] /\ NoJob \in Job
      BY <1>6, NothingType DEF SaveAndAnnounce
    <2>5. TypeOK'
      BY <1>6, <2>1, <2>2, <2>3, <2>4 DEF SaveAndAnnounce, IInv, TypeOK, world
    <2>6. Progress'
      BY <1>6, <2>4 DEF SaveAndAnnounce, IInv, TypeOK, Progress, NoJob
    <2> QED BY <2>1, <2>5, <2>6 DEF IInv
  <1>7. CASE SkipUser(u)
    <2>1. job' = [job EXCEPT ![u] = NoJob] /\ NoJob \in Job
      BY <1>7, NothingType DEF SkipUser
    <2>2. mishaps' \in [Users -> SUBSET {"fetch", "save", "torn", "resaved"}]
      BY <1>7 DEF SkipUser, IInv, TypeOK
    <2>3. TableTypeOK' /\ OneUserPerAccount'
      BY <1>7, <1>0, TableFrame DEF SkipUser
    <2>4. TypeOK'
      BY <1>7, <2>1, <2>2, <2>3 DEF SkipUser, IInv, TypeOK, world
    <2>5. Progress'
      BY <1>7, <2>1 DEF SkipUser, IInv, TypeOK, Progress, NoJob
    <2> QED BY <2>3, <2>4, <2>5 DEF IInv
  <1> QED BY <1>1, <1>2, <1>3, <1>4, <1>5, <1>6, <1>7 DEF Update

LEMMA ScanStep ==
    ASSUME IInv, Scan
    PROVE  IInv'
  <1>0. /\ \A u \in Users : job[u] \in Job
        /\ TableTypeOK /\ OneUserPerAccount
        /\ NoJob \in Job /\ NoJob.phase = "off"
    BY NothingType DEF IInv, TypeOK, NoJob
  <1>1. CASE ListUsers
    <2>1. \A u \in Users :
             /\ job'[u] \in Job
             /\ job'[u].phase \in {"off", "listed"}
             /\ job'[u].phase # "off" => job'[u].acct \in Accounts
             /\ job'[u].phase \in {"listed", "queued"} => job'[u].next = 1
      <3> TAKE u \in Users
      <3>1. CASE link[u] = NoAccount
        BY <1>0, <1>1, <3>1 DEF ListUsers, NoJob
      <3>2. CASE link[u] # NoAccount
        <4>1. link[u] \in Accounts /\ failures[u] \in 0..MaxFailures
          BY <1>0, <3>2 DEF TableTypeOK
        <4>2. job'[u] = [NoJob EXCEPT !.phase = "listed", !.acct = link[u],
                                      !.fails = failures[u]]
          BY <1>1, <3>2 DEF ListUsers
        <4>3. NoJob.next = 1
          BY DEF NoJob
        <4> QED BY <1>0, <4>1, <4>2, <4>3 DEF Job
      <3> QED BY <3>1, <3>2
    <2>2. job' \in [Users -> Job]
      BY <1>1, <2>1 DEF ListUsers
    <2>3. TableTypeOK' /\ OneUserPerAccount'
      BY <1>0, <1>1, TableFrame DEF ListUsers
    <2>4. TypeOK'
      BY <1>1, <2>2, <2>3 DEF ListUsers, IInv, TypeOK, world, history
    <2>5. Progress'
      BY <1>1, <2>1 DEF ListUsers, IInv, Progress, history
    <2> QED BY <2>3, <2>4, <2>5 DEF IInv
  <1>2. CASE ListModes
    <2>1. \A u \in Users :
             /\ job'[u] \in Job
             /\ job'[u].phase \in {"off", "queued"}
             /\ job'[u].phase # "off" => job'[u].acct \in Accounts
             /\ job'[u].phase \in {"listed", "queued"} => job'[u].next = 1
      <3> TAKE u \in Users
      <3>1. CASE job[u].phase = "off"
        BY <1>0, <1>2, <3>1 DEF ListModes
      <3>2. CASE job[u].phase # "off"
        <4>1. /\ stats[u] \in [Modes -> Time]
              /\ job[u].acct \in Accounts
              /\ job[u].next = 1
          BY <1>0, <1>2, <3>2 DEF TableTypeOK, IInv, Progress, ListModes
        <4>2. job'[u] = [job[u] EXCEPT !.phase = "queued", !.old = stats[u],
                                       !.new = stats[u]]
          BY <1>2, <3>2 DEF ListModes
        <4> QED BY <1>0, <4>1, <4>2 DEF Job
      <3> QED BY <3>1, <3>2
    <2>2. job' \in [Users -> Job]
      BY <1>2, <2>1 DEF ListModes
    <2>3. mishaps' \in [Users -> SUBSET {"fetch", "save", "torn", "resaved"}]
      BY <1>2 DEF ListModes, IInv, TypeOK
    <2>4. TableTypeOK' /\ OneUserPerAccount'
      BY <1>0, <1>2, TableFrame DEF ListModes
    <2>5. TypeOK'
      BY <1>2, <2>2, <2>3, <2>4 DEF ListModes, IInv, TypeOK, world
    <2>6. Progress'
      BY <1>2, <2>1 DEF ListModes, IInv, Progress
    <2> QED BY <2>4, <2>5, <2>6 DEF IInv
  <1>3. CASE EndScan
    <2>1. TableTypeOK' /\ OneUserPerAccount'
      BY <1>0, <1>3, TableFrame DEF EndScan
    <2>2. TypeOK'
      BY <1>3, <2>1 DEF EndScan, IInv, TypeOK, world, history
    <2>3. Progress'
      BY <1>3 DEF EndScan, IInv, Progress, history
    <2> QED BY <2>1, <2>2, <2>3 DEF IInv
  <1> QED BY <1>1, <1>2, <1>3, UpdateStep DEF Scan

LEMMA MappingStep ==
    ASSUME IInv, MappingAnnouncer
    PROVE  IInv'
  <1>0. TableTypeOK /\ OneUserPerAccount
    BY DEF IInv, TypeOK
  <1>1. CASE WakeMapping
    <2>1. TableTypeOK' /\ OneUserPerAccount'
      BY <1>0, <1>1, TableFrame DEF WakeMapping
    <2>2. TypeOK'
      BY <1>1, <2>1 DEF WakeMapping, IInv, TypeOK, world, history
    <2>3. Progress'
      BY <1>1 DEF WakeMapping, IInv, Progress, history
    <2> QED BY <2>1, <2>2, <2>3 DEF IInv
  <1>2. ASSUME NEW u \in Users, TakeMapping(u)
        PROVE  IInv'
    <2>1. TableTypeOK' /\ OneUserPerAccount'
      BY <1>0, <1>2, TableFrame DEF TakeMapping
    <2>2. sent' \in SUBSET Delivery /\ resent' \in SUBSET Delivery
      <3>1. CASE HandOver(u, NewestPerTopic(mapping[u]))
        <4>1. NewestPerTopic(mapping[u]) \in SUBSET Item
          BY DEF NewestPerTopic, IInv, TypeOK
        <4> QED BY <3>1, <4>1, HandOverType DEF IInv
      <3>2. CASE UNCHANGED <<sent, resent>>
        BY <3>2 DEF IInv, TypeOK
      <3> QED BY <1>2, <3>1, <3>2 DEF TakeMapping
    <2>3. TypeOK'
      BY <1>2, <2>1, <2>2 DEF TakeMapping, IInv, TypeOK, world
    <2>4. Progress'
      BY <1>2 DEF TakeMapping, IInv, Progress
    <2> QED BY <2>1, <2>3, <2>4 DEF IInv
  <1> QED BY <1>1, <1>2 DEF MappingAnnouncer

LEMMA CrashStep ==
    ASSUME IInv, Crash
    PROVE  IInv'
  <1>0. /\ TableTypeOK /\ OneUserPerAccount
        /\ NoJob \in Job /\ NoJob.phase = "off"
        /\ NoSaving \in Saving /\ NoSaving.acct = NoAccount
    BY NothingType DEF IInv, TypeOK, NoJob, NoSaving
  <1>1. TableTypeOK' /\ OneUserPerAccount'
    BY <1>0, TableFrame DEF Crash
  <1>2. mishaps' \in [Users -> SUBSET {"fetch", "save", "torn", "resaved"}]
    BY DEF Crash, IInv, TypeOK
  <1>3. TypeOK'
    BY <1>0, <1>1, <1>2 DEF Crash, IInv, TypeOK, world
  <1>4. Progress'
    BY <1>0 DEF Crash, Progress
  <1> QED BY <1>1, <1>3, <1>4 DEF IInv

LEMMA NextIInv == IInv /\ [Next]_vars => IInv'
  <1> SUFFICES ASSUME IInv, [Next]_vars PROVE IInv'
    OBVIOUS
  <1>1. CASE UNCHANGED vars
    <2>1. TableTypeOK' /\ OneUserPerAccount'
      BY <1>1, TableFrame DEF vars, IInv, TypeOK
    <2> QED BY <1>1, <2>1 DEF vars, world, history, IInv, TypeOK, Progress
  <1>2. CASE Next
    BY <1>2, WorldStep, CommandsStep, ScanStep, MappingStep, CrashStep DEF Next
  <1> QED BY <1>1, <1>2

LEMMA SpecIInv == Spec => []IInv
  BY InitIInv, NextIInv, PTL DEF Spec

-----------------------------------------------------------------------------

(* Every variable of the announcers has its type in every reachable state, *)
(* in particular the failures of a user never pass MaxFailures             *)
(* (update_user) and the loop over the modes never runs past the last one. *)
THEOREM TypeCorrect == Spec => []TypeOK
  <1>1. IInv => TypeOK
    BY DEF IInv
  <1> QED BY <1>1, SpecIInv, PTL

(* No osu! account is ever saved by two Discord users, for any number of   *)
(* users, accounts and updates in flight (OsuUser::store, new_user).       *)
THEOREM AccountsAreUnique == Spec => []OneUserPerAccount
  <1>1. IInv => OneUserPerAccount
    BY DEF IInv
  <1> QED BY <1>1, SpecIInv, PTL

-----------------------------------------------------------------------------

LEMMA InitCollected == Init => Collected
  <1>1. NoJob.found = {}
    BY DEF NoJob
  <1> QED BY <1>1 DEF Init, Collected

(* One iteration of the loop over the modes adds scores of the account.    *)
LEMMA FetchCollects ==
    ASSUME TypeOK, Collected, NEW u \in Users, FetchMode(u)
    PROVE  Collected'
  <1> DEFINE j == job[u]
             m == ModeOrder[j.next]
             top == IF j.old[m] = Never THEN {}
                    ELSE Reported("top", j.acct, {m}, j.old[m], j.now)
             jj == [j EXCEPT !.new = [@ EXCEPT ![m] = j.now],
                             !.found = @ \cup top,
                             !.next = @ + 1,
                             !.phase = IF j.next = Len(ModeOrder) THEN "events" ELSE "modes"]
  <1>1. job' = [job EXCEPT ![u] = jj] /\ mapping' = mapping
    BY DEF FetchMode
  <1>2. \A i \in top : i.feed = "top" /\ i.acct = j.acct
    BY DEF Reported
  <1> HIDE DEF top
  <1>3. jj.found = j.found \cup top /\ jj.acct = j.acct
    BY DEF TypeOK, Job
  <1> HIDE DEF jj
  <1>4. \A i \in jj.found : i.feed \in {"top", "rank"} /\ i.acct = jj.acct
    BY <1>2, <1>3 DEF Collected
  <1> QED BY <1>1, <1>4 DEF TypeOK, Collected

(* The events add rank events of the account and set mapping events aside. *)
LEMMA EventsCollect ==
    ASSUME TypeOK, Collected, NEW u \in Users, FetchEvents(u)
    PROVE  Collected'
  <1> DEFINE j == job[u]
             ranks == UNION {Reported("rank", j.acct, {m}, j.old[m], j.now) : m \in Modes}
  <1>1. \A i \in ranks : i.feed = "rank" /\ i.acct = j.acct
    BY DEF Reported
  <1> HIDE DEF ranks
  <1>2. PICK kept \in SUBSET ranks :
           job' = [job EXCEPT ![u] = [j EXCEPT !.phase = "save", !.found = @ \cup kept]]
    BY DEF FetchEvents, ranks
  <1> DEFINE jj == [j EXCEPT !.phase = "save", !.found = @ \cup kept]
  <1>3. jj.found = j.found \cup kept /\ jj.acct = j.acct
    BY DEF TypeOK, Job
  <1>4. job' = [job EXCEPT ![u] = jj]
    BY <1>2
  <1> HIDE DEF jj
  <1>5. \A i \in jj.found : i.feed \in {"top", "rank"} /\ i.acct = jj.acct
    BY <1>1, <1>3 DEF Collected
  <1>6. \A v \in Users : \A i \in mapping'[v] : i.feed = "map"
    <2>1. \A i \in Reported("map", j.acct, Modes, LatestOf(j.old), j.now) : i.feed = "map"
      BY DEF Reported
    <2> QED BY <2>1 DEF FetchEvents, TypeOK, Collected
  <1> QED BY <1>4, <1>5, <1>6 DEF TypeOK, Collected

LEMMA NextCollected == TypeOK /\ Collected /\ [Next]_vars => Collected'
  <1> SUFFICES ASSUME TypeOK, Collected, [Next]_vars PROVE Collected'
    OBVIOUS
  <1>1. CASE UNCHANGED <<job, mapping>>
    BY <1>1 DEF Collected
  <1>2. CASE World
    BY <1>1, <1>2 DEF World, Tick, Happen
  <1>3. ASSUME NEW u \in Users, Commands(u) PROVE Collected'
    BY <1>1, <1>3 DEF Commands, BeginSaving, FetchForSaving, CommitSaving, Forget
  <1>4. CASE ListUsers
    <2>1. \A u \in Users : job'[u].found = {}
      BY <1>4 DEF ListUsers, NoJob
    <2> QED BY <1>4, <2>1 DEF ListUsers, Collected
  <1>5. CASE ListModes
    <2>1. \A u \in Users : job'[u] = NoJob \/ (job'[u].found = job[u].found
                                             /\ job'[u].acct = job[u].acct)
      BY <1>5 DEF ListModes, TypeOK, Job
    <2> QED BY <1>5, <2>1 DEF ListModes, Collected, NoJob
  <1>6. ASSUME NEW u \in Users, Update(u) PROVE Collected'
    <2>1. CASE BeginUpdate(u)
      BY <2>1 DEF BeginUpdate, TypeOK, Job, Collected, NoJob
    <2>2. CASE FetchModeFails(u)
      BY <2>2 DEF FetchModeFails, TypeOK, Job, Collected
    <2>3. CASE FetchEventsFails(u)
      BY <2>3 DEF FetchEventsFails, TypeOK, Job, Collected
    <2>4. CASE SaveAndAnnounce(u)
      BY <2>4 DEF SaveAndAnnounce, TypeOK, Collected, NoJob
    <2>5. CASE SkipUser(u)
      BY <2>5 DEF SkipUser, TypeOK, Collected, NoJob
    <2> QED BY <1>6, <2>1, <2>2, <2>3, <2>4, <2>5, FetchCollects, EventsCollect DEF Update
  <1>7. CASE EndScan
    BY <1>1, <1>7 DEF EndScan
  <1>8. CASE MappingAnnouncer
    BY <1>8 DEF MappingAnnouncer, WakeMapping, TakeMapping, TypeOK, Collected
  <1>9. CASE Crash
    BY <1>9 DEF Crash, Collected, NoJob
  <1> QED BY <1>1, <1>2, <1>3, <1>4, <1>5, <1>6, <1>7, <1>8, <1>9 DEF Next, Scan, vars

(* Only a stored update and the mapping announcer hand anything over.      *)
LEMMA HandedOver ==
    ASSUME TypeOK, Collected, [Next]_vars,
           NEW d \in sent' \ sent, d[2].feed \in {"top", "rank"}
    PROVE  link[d[1]] \in {NoAccount, d[2].acct}
  <1>1. sent' # sent
    OBVIOUS
  <1>2. ASSUME NEW u \in Users, SaveAndAnnounce(u)
        PROVE  link[d[1]] \in {NoAccount, d[2].acct}
    <2>1. PICK i \in job[u].found : d = <<u, i, epoch[u]>>
      BY <1>2 DEF SaveAndAnnounce, HandOver
    <2>2. i.acct = job[u].acct
      BY DEF Collected
    <2>3. link[u] \in {NoAccount, job[u].acct}
      BY <1>2 DEF SaveAndAnnounce, SaveUser, StoreAccepted, StoreRaced
    <2> QED BY <2>1, <2>2, <2>3
  <1>3. ASSUME NEW u \in Users, TakeMapping(u)
        PROVE  FALSE
    <2>1. PICK i \in NewestPerTopic(mapping[u]) : d = <<u, i, epoch[u]>>
      BY <1>3 DEF TakeMapping, HandOver
    <2>2. i.feed = "map"
      BY DEF NewestPerTopic, Collected
    <2> QED BY <2>1, <2>2
  <1>4. \/ \E u \in Users : SaveAndAnnounce(u)
        \/ \E u \in Users : TakeMapping(u)
    BY <1>1 DEF Next, vars, history, World, Tick, Happen, Commands, BeginSaving,
                FetchForSaving, CommitSaving, Forget, Scan, ListUsers, ListModes, Update,
                BeginUpdate, FetchMode, FetchModeFails, FetchEvents, FetchEventsFails,
                SkipUser, EndScan, MappingAnnouncer, WakeMapping, Crash
  <1> QED BY <1>2, <1>3, <1>4

(* An update's scores are announced only while its Discord user is linked  *)
(* to the account they are of, or to none, for any interleaving of saves,  *)
(* removals, scans and crashes (update_user, OsuUser::store).              *)
THEOREM AnnouncedForLinkedAccount == Spec => OnlyLinkedAccountAnnounced
  <1>1. TypeOK /\ Collected /\ [Next]_vars =>
           [\A d \in sent' \ sent :
              d[2].feed \in {"top", "rank"} => link[d[1]] \in {NoAccount, d[2].acct}]_vars
    BY HandedOver
  <1> QED BY <1>1, InitCollected, NextCollected, TypeCorrect, PTL
          DEF Spec, OnlyLinkedAccountAnnounced
-----------------------------------------------------------------------------
(* Refinement of AccountLinks *)

LEMMA InitLinks == Init => Links!Init /\ Asleep
  BY DEF Init, TableInit, Links!Init, NoJob, Asleep

LEMMA CommandsKeepAsleep ==
    ASSUME Asleep, World \/ \E u \in Users : Commands(u)
    PROVE  Asleep' /\ UNCHANGED job
  BY DEF Asleep, World, Tick, Happen, Commands, BeginSaving, FetchForSaving, CommitSaving,
         Forget

(* A saving or a removal is a claim or a release.                          *)
LEMMA CommandsLink ==
    ASSUME IInv, World \/ \E u \in Users : Commands(u), UNCHANGED job
    PROVE  [Links!Next]_Links!links
  <1> DEFINE underway == [u \in Users |-> job[u].acct]
  <1>1. underway' = underway
    OBVIOUS
  <1>2. CASE World
    BY <1>1, <1>2 DEF World, Tick, Happen, table, Links!links
  <1>3. ASSUME NEW u \in Users, NEW a \in Accounts, BeginSaving(u, a)
        PROVE  UNCHANGED Links!links
    BY <1>1, <1>3 DEF BeginSaving, table, Links!links
  <1>4. ASSUME NEW u \in Users, NEW m \in Modes, FetchForSaving(u, m)
        PROVE  UNCHANGED Links!links
    BY <1>1, <1>4 DEF FetchForSaving, table, Links!links
  <1>5. ASSUME NEW u \in Users, CommitSaving(u)
        PROVE  [Links!Next]_Links!links
    <2> DEFINE a == saving[u].acct
    <2>1. a \in Accounts
      BY <1>5 DEF CommitSaving, IInv, TypeOK, Saving
    <2>2. CASE NewUser(u, a, saving[u].got)
      <3>1. Links!Claim(u, a)
        BY <1>1, <2>2 DEF NewUser, HeldByAnother, WriteRow, Links!Claim, Links!Free
      <3> QED BY <2>1, <3>1 DEF Links!Next
    <2>3. CASE NewUserRejected(u, a)
      BY <1>1, <2>3 DEF NewUserRejected, table, Links!links
    <2> QED BY <1>5, <2>2, <2>3 DEF CommitSaving
  <1>6. ASSUME NEW u \in Users, Forget(u)
        PROVE  Links!Release(u)
    BY <1>1, <1>6 DEF Forget, RemoveUser, Links!Release
  <1> QED BY <1>2, <1>3, <1>4, <1>5, <1>6 DEF Commands, Links!Next

(* The end of an update, well or not.                                      *)
LEMMA EndsUnderway ==
    ASSUME NEW u \in Users, job \in [Users -> Job], job' = [job EXCEPT ![u] = NoJob]
    PROVE  [v \in Users |-> job'[v].acct]
              = [[v \in Users |-> job[v].acct] EXCEPT ![u] = NoAccount]
  BY DEF NoJob

(* An update keeps its account until it ends; it ends as Land or Abandon.  *)
LEMMA UpdateLinks ==
    ASSUME IInv, Asleep, NEW u \in Users, Update(u)
    PROVE  Asleep' /\ [Links!Next]_Links!links
  <1> DEFINE j == job[u]
             underway == [v \in Users |-> job[v].acct]
  <1>0. job \in [Users -> Job] /\ j \in Job
    BY DEF IInv, TypeOK
  <1>1. ASSUME NEW jj, job' = [job EXCEPT ![u] = jj], jj.acct = j.acct,
               jj.phase # "off", j.phase # "off", UNCHANGED <<link, scan>>
        PROVE  Asleep' /\ UNCHANGED Links!links
    <2>1. underway' = underway
      BY <1>0, <1>1
    <2>2. Asleep'
      BY <1>0, <1>1 DEF Asleep
    <2> QED BY <1>1, <2>1, <2>2 DEF Links!links
  <1>2. ASSUME job' = [job EXCEPT ![u] = NoJob], j.phase # "off", UNCHANGED scan
        PROVE  /\ Asleep'
               /\ underway[u] # NoAccount
               /\ underway' = [underway EXCEPT ![u] = NoAccount]
    <2>1. underway' = [underway EXCEPT ![u] = NoAccount]
      BY <1>0, <1>2, EndsUnderway
    <2>2. j.acct # NoAccount
      BY <1>2, SavedUsersAssumption DEF IInv, Progress
    <2>3. Asleep'
      BY <1>0, <1>2 DEF Asleep, NoJob
    <2> QED BY <2>1, <2>2, <2>3
  <1>3. CASE BeginUpdate(u)
    <2>1. CASE job' = [job EXCEPT ![u] = NoJob]
      <3>1. Links!Abandon(u)
        BY <1>2, <1>3, <2>1 DEF BeginUpdate, table, Links!Abandon
      <3> QED BY <1>2, <1>3, <2>1, <3>1 DEF BeginUpdate, Links!Next
    <2>2. CASE job' = [job EXCEPT ![u] = [j EXCEPT !.phase = "modes", !.now = clock]]
      <3> DEFINE jj == [j EXCEPT !.phase = "modes", !.now = clock]
      <3>1. jj.acct = j.acct /\ jj.phase = "modes"
        BY <1>0 DEF Job
      <3> HIDE DEF jj
      <3> QED BY <1>1, <1>3, <2>2, <3>1 DEF BeginUpdate, table, jj
    <2> QED BY <1>3, <2>1, <2>2 DEF BeginUpdate
  <1>4. CASE FetchMode(u)
    <2> DEFINE m == ModeOrder[j.next]
               top == IF j.old[m] = Never THEN {}
                      ELSE Reported("top", j.acct, {m}, j.old[m], j.now)
               jj == [j EXCEPT !.new = [@ EXCEPT ![m] = j.now],
                               !.found = @ \cup top,
                               !.next = @ + 1,
                               !.phase = IF j.next = Len(ModeOrder) THEN "events" ELSE "modes"]
    <2>1. job' = [job EXCEPT ![u] = jj]
      BY <1>4 DEF FetchMode
    <2>2. jj.acct = j.acct /\ jj.phase \in {"modes", "events"}
      BY <1>0 DEF Job
    <2> HIDE DEF jj
    <2> QED BY <1>1, <1>4, <2>1, <2>2 DEF FetchMode, table
  <1>5. CASE FetchModeFails(u)
    <2> DEFINE jj == [j EXCEPT !.phase = "events", !.fails = @ + 1]
    <2>1. jj.acct = j.acct /\ jj.phase = "events"
      BY <1>0 DEF Job
    <2>2. job' = [job EXCEPT ![u] = jj]
      BY <1>5 DEF FetchModeFails
    <2> HIDE DEF jj
    <2> QED BY <1>1, <1>5, <2>1, <2>2 DEF FetchModeFails, table
  <1>6. CASE FetchEvents(u)
    <2>1. PICK kept :
             job' = [job EXCEPT ![u] = [j EXCEPT !.phase = "save", !.found = @ \cup kept]]
      BY <1>6 DEF FetchEvents
    <2> DEFINE jj == [j EXCEPT !.phase = "save", !.found = @ \cup kept]
    <2>2. jj.acct = j.acct /\ jj.phase = "save"
      BY <1>0 DEF Job
    <2>3. job' = [job EXCEPT ![u] = jj]
      BY <2>1
    <2> HIDE DEF jj
    <2> QED BY <1>1, <1>6, <2>2, <2>3 DEF FetchEvents, table
  <1>7. CASE FetchEventsFails(u)
    <2> DEFINE jj == [j EXCEPT !.phase = "save"]
    <2>1. jj.acct = j.acct /\ jj.phase = "save"
      BY <1>0 DEF Job
    <2>2. job' = [job EXCEPT ![u] = jj]
      BY <1>7 DEF FetchEventsFails
    <2> HIDE DEF jj
    <2> QED BY <1>1, <1>7, <2>1, <2>2 DEF FetchEventsFails, table
  <1>8. CASE SaveAndAnnounce(u)
    <2>1. /\ job' = [job EXCEPT ![u] = NoJob] /\ j.phase # "off" /\ UNCHANGED scan
          /\ link' = [link EXCEPT ![u] = j.acct]
          /\ link[u] \in {NoAccount, j.acct}
          /\ link[u] = NoAccount => ~HeldByAnother(u, j.acct)
      BY <1>8 DEF SaveAndAnnounce, SaveUser, StoreAccepted, StoreRaced, StoreDuplicate, WriteRow
    <2>2. \A v \in Users \ {u} : link[v] # j.acct
      <3>1. CASE link[u] = NoAccount
        BY <2>1, <3>1 DEF HeldByAnother
      <3>2. CASE link[u] = j.acct
        <4>1. j.acct # NoAccount
          BY <2>1, SavedUsersAssumption DEF IInv, Progress
        <4> QED BY <3>2, <4>1 DEF IInv, OneUserPerAccount
      <3> QED BY <2>1, <3>1, <3>2
    <2>3. Links!Land(u)
      BY <1>2, <2>1, <2>2 DEF Links!Land, Links!Free
    <2> QED BY <1>2, <2>1, <2>3 DEF Links!Next
  <1>9. CASE SkipUser(u)
    <2>1. job' = [job EXCEPT ![u] = NoJob] /\ j.phase # "off" /\ UNCHANGED <<link, scan>>
      BY <1>9 DEF SkipUser, table
    <2>2. Links!Abandon(u)
      BY <1>2, <2>1 DEF Links!Abandon
    <2> QED BY <1>2, <2>1, <2>2 DEF Links!Next
  <1> QED BY <1>3, <1>4, <1>5, <1>6, <1>7, <1>8, <1>9 DEF Update

(* The first query of a scan is Read; the rest of the loop is invisible.   *)
LEMMA ScanLinks ==
    ASSUME IInv, Asleep, Scan
    PROVE  Asleep' /\ [Links!Next]_Links!links
  <1> DEFINE underway == [u \in Users |-> job[u].acct]
  <1>0. job \in [Users -> Job] /\ link \in [Users -> Accounts \cup {NoAccount}]
    BY DEF IInv, TypeOK, TableTypeOK
  <1>1. CASE ListUsers
    <2>1. underway = [u \in Users |-> NoAccount]
      BY <1>1 DEF ListUsers, Asleep
    <2>2. \A u \in Users : /\ job'[u].acct = link[u]
                           /\ job'[u].phase = "off" => link[u] = NoAccount
      BY <1>1 DEF ListUsers, NoJob
    <2>3. underway' = link
      BY <1>0, <2>2
    <2>4. Links!Read
      BY <1>1, <2>1, <2>3 DEF ListUsers, table, Links!Read
    <2>5. Asleep'
      BY <1>1, <2>2 DEF ListUsers, Asleep
    <2> QED BY <2>4, <2>5 DEF Links!Next
  <1>2. CASE ListModes
    <2>1. \A u \in Users : /\ job'[u].acct = job[u].acct
                           /\ job'[u].phase = "off" => job[u].phase = "off"
      BY <1>0, <1>2 DEF ListModes, Asleep, NoJob, Job
    <2>2. underway' = underway
      BY <2>1
    <2>3. Asleep'
      BY <1>2, <2>1 DEF ListModes, Asleep
    <2> QED BY <1>2, <2>2, <2>3 DEF ListModes, table, Links!links
  <1>3. CASE EndScan
    <2>1. Asleep' /\ underway' = underway
      BY <1>3 DEF EndScan, Asleep
    <2> QED BY <1>3, <2>1 DEF EndScan, table, Links!links
  <1> QED BY <1>1, <1>2, <1>3, UpdateLinks DEF Scan

LEMMA OthersLink ==
    ASSUME IInv, Asleep, MappingAnnouncer \/ Crash
    PROVE  Asleep' /\ [Links!Next]_Links!links
  <1> DEFINE underway == [u \in Users |-> job[u].acct]
  <1>1. CASE MappingAnnouncer
    <2>1. UNCHANGED <<link, job, scan>>
      BY <1>1 DEF MappingAnnouncer, WakeMapping, TakeMapping, table
    <2>2. underway' = underway
      BY <2>1
    <2> QED BY <2>1, <2>2 DEF Asleep, Links!links
  <1>2. CASE Crash
    <2>1. \A u \in Users : job'[u].acct = NoAccount /\ job'[u].phase = "off"
      BY <1>2 DEF Crash, NoJob
    <2>2. Links!Restart
      BY <1>2, <2>1 DEF Crash, table, Links!Restart
    <2> QED BY <2>1, <2>2 DEF Asleep, Links!Next
  <1> QED BY <1>1, <1>2

(* Every step of the announcers and of the commands is a step of           *)
(* AccountLinks or none of its business.                                   *)
LEMMA NextLinks ==
    IInv /\ Asleep /\ [Next]_vars => Asleep' /\ [Links!Next]_Links!links
  <1> SUFFICES ASSUME IInv, Asleep, [Next]_vars
               PROVE  Asleep' /\ [Links!Next]_Links!links
    OBVIOUS
  <1>1. CASE UNCHANGED vars
    <2>1. UNCHANGED <<link, job, scan>>
      BY <1>1 DEF vars, table
    <2>2. [u \in Users |-> job[u].acct]' = [u \in Users |-> job[u].acct]
      BY <2>1
    <2> QED BY <2>1, <2>2 DEF Asleep, Links!links
  <1>2. CASE Next
    BY <1>2, CommandsKeepAsleep, CommandsLink, ScanLinks, OthersLink DEF Next
  <1> QED BY <1>1, <1>2

(* The announcer, the commands and their faults implement AccountLinks for *)
(* any number of users and accounts: an update that took long never undoes *)
(* a saving or takes an account from its new owner (update_user, store).   *)
THEOREM UpdatesRespectClaims == Spec => LinksAreClaims
  <1>1. Init => Links!Init /\ Asleep
    BY InitLinks
  <1>2. IInv /\ Asleep /\ [Next]_vars => Asleep' /\ [Links!Next]_Links!links
    BY NextLinks
  <1> QED BY <1>1, <1>2, SpecIInv, PTL DEF Spec, LinksAreClaims, Links!Spec
-----------------------------------------------------------------------------
(* Whole seconds *)

LEMMA QuotientIsMonotone ==
    ASSUME NEW d \in Nat \ {0}, NEW p \in Int, NEW q \in Int,
           NEW r \in 0..(d - 1), NEW s \in 0..(d - 1), d * q + r <= d * p + s
    PROVE  q <= p
  <1> SUFFICES ASSUME p + 1 <= q PROVE FALSE
    OBVIOUS
  <1>1. d * (p + 1) <= d * q
    BY Z3
  <1>2. d * (p + 1) = d * p + d
    OBVIOUS
  <1> QED BY <1>1, <1>2

(* Truncating is no more than dropping what exceeds the last whole second. *)
LEMMA SecondsKeepsDates ==
    ASSUME NEW t \in Time, NEW d \in Time
    PROVE  /\ Seconds(t) \in Time /\ Seconds(t) <= t
           /\ Seconds(Seconds(t)) = Seconds(t)
           /\ Seconds(Never) = Never
           /\ Seconds(d) = d /\ d <= t => d <= Seconds(t)
  <1> DEFINE T == TicksPerSecond
             q(x) == x \div T
  <1>0. T \in Nat \ {0} /\ t \in Nat /\ d \in Nat
    BY SavedUsersAssumption DEF Time
  <1>1. \A x \in Nat : q(x) \in Nat /\ x % T \in 0..(T - 1) /\ x = T * q(x) + (x % T)
    BY <1>0
  <1>2. T * q(t) \in Nat /\ T * q(d) \in Nat
    BY <1>0, <1>1
  <1>3. Seconds(t) = T * q(t) /\ Seconds(d) = T * q(d)
    BY <1>0, <1>1, <1>2 DEF Seconds
  <1>4. (T * q(t)) % T = 0 /\ 0 % T = 0
    <2>1. T * q(T * q(t)) + ((T * q(t)) % T) = T * q(t)
      BY <1>1, <1>2
    <2>2. q(T * q(t)) <= q(t)
      BY <2>1, <1>0, <1>1, <1>2, QuotientIsMonotone
    <2>3. q(t) <= q(T * q(t))
      BY <2>1, <1>0, <1>1, <1>2, QuotientIsMonotone
    <2>4. q(t) \in Int /\ q(T * q(t)) \in Int
      BY <1>0, <1>1, <1>2
    <2>5. q(T * q(t)) = q(t)
      BY <2>2, <2>3, <2>4
    <2>6. (T * q(t)) % T \in Int
      BY <1>1, <1>2
    <2>7. (T * q(t)) % T = 0
      BY <2>1, <2>5, <2>6, <1>2
    <2>8. 0 % T = 0
      BY <1>0
    <2> QED BY <2>7, <2>8
  <1>5. Seconds(Seconds(t)) = Seconds(t)
    BY <1>2, <1>3, <1>4 DEF Seconds
  <1>6. ASSUME Seconds(d) = d, d <= t
        PROVE  d <= Seconds(t)
    <2>1. T * q(d) + 0 <= T * q(t) + (t % T)
      BY <1>0, <1>1, <1>2, <1>3, <1>6
    <2>2. q(d) <= q(t)
      <3>1. /\ q(d) \in Int /\ q(t) \in Int
            /\ 0 \in 0..(T - 1) /\ t % T \in 0..(T - 1)
        BY <1>0, <1>1
      <3> HIDE DEF q
      <3> QED BY <2>1, <3>1, <1>0, QuotientIsMonotone
    <2>3. T * q(d) <= T * q(t)
      <3> HIDE DEF q
      <3>1. \A x, y, z \in Nat : x <= y => z * x <= z * y
        BY Z3
      <3> QED BY <2>2, <3>1, <1>0, <1>1
    <2> QED BY <2>3, <1>3, <1>6
  <1>7. Seconds(Never) = Never
    BY <1>4 DEF Seconds, Never
  <1>8. Seconds(t) \in Time /\ Seconds(t) <= t
    <2>1. t % T \in Nat /\ t = Seconds(t) + (t % T)
      BY <1>0, <1>1 DEF Seconds
    <2>2. Seconds(t) \in Nat
      BY <1>2, <1>3
    <2>3. Seconds(t) <= t
      BY <1>0, <2>1, <2>2
    <2>4. t <= MaxTime /\ MaxTime \in Nat
      BY SavedUsersAssumption DEF Time
    <2> QED BY <1>0, <2>2, <2>3, <2>4 DEF Time
  <1> QED BY <1>5, <1>6, <1>7, <1>8

(* The modes that update_user visits are all there are.                    *)
LEMMA ModesAreVisited ==
    /\ Len(ModeOrder) \in Nat \ {0}
    /\ \A k \in 1..Len(ModeOrder) : ModeOrder[k] \in Modes
    /\ \A m \in Modes : \E k \in 1..Len(ModeOrder) : ModeOrder[k] = m
  BY AnnouncerAssumption DEF ToSet

(* The latest of the last updates is one of them, and none is later.       *)
LEMMA LatestIsLatest ==
    ASSUME NEW st \in [Modes -> Time]
    PROVE  /\ LatestOf(st) \in Time
           /\ \A m \in Modes : st[m] <= LatestOf(st)
           /\ \E m \in Modes : LatestOf(st) = st[m]
  <1> DEFINE B == {b \in Nat : \A m \in Modes : st[m] <= b}
  <1>0. Time \subseteq Nat /\ MaxTime \in Nat /\ \A t \in Time : t <= MaxTime
    BY SavedUsersAssumption DEF Time
  <1>1. MaxTime \in B
    BY <1>0
  <1>2. PICK b \in B : \A c \in B : b <= c
    <2> HIDE DEF B
    <2>1. B # {}
      BY <1>1
    <2>2. B \in SUBSET Nat
      BY DEF B
    <2> QED BY <2>1, <2>2, LeastExists
  <1>3. \E m \in Modes : st[m] = b
    <2> SUFFICES ASSUME \A m \in Modes : st[m] # b
                 PROVE  FALSE
      OBVIOUS
    <2>1. \A m \in Modes : st[m] \in Nat /\ st[m] < b
      <3>1. b \in Nat /\ \A m \in Modes : st[m] <= b
        BY <1>2
      <3>2. \A m \in Modes : st[m] \in Nat
        BY <1>0
      <3> QED BY <3>1, <3>2
    <2>2. PICK m \in Modes : TRUE
      BY ModesAreVisited
    <2>3. b - 1 \in Nat
      BY <2>1, <2>2, <1>2
    <2>4. b - 1 \in B
      BY <2>1, <2>3
    <2> QED BY <2>3, <2>4, <1>2
  <1>4. PICK m \in Modes : st[m] = b
    BY <1>3
  <1>5. b \in {st[n] : n \in Modes} /\ \A n \in Modes : st[n] <= b
    BY <1>2, <1>4
  <1>6. LatestOf(st) \in {st[n] : n \in Modes} /\ \A n \in Modes : st[n] <= LatestOf(st)
    BY <1>5 DEF LatestOf
  <1> QED BY <1>6

(* When every mode has the same last update, that is the latest.           *)
LEMMA LatestOfSame ==
    ASSUME NEW st \in [Modes -> Time], NEW t \in Time, \A m \in Modes : st[m] = t
    PROVE  LatestOf(st) = t
  BY LatestIsLatest

-----------------------------------------------------------------------------
(* What a step is for one user *)

RowKept(u) == link'[u] = link[u] /\ stats'[u] = stats[u]
JobKept(u) == job'[u] = job[u]
MapKept(u) == mapping'[u] = mapping[u]
HistoryKept(u) ==
    /\ epoch'[u] = epoch[u]
    /\ baseline'[u] = baseline[u]
    /\ mishaps'[u] = mishaps[u]

(* A user's part of HandOver, and nothing handed over.                     *)
Handed(u, its) ==
    \A i \in Item, e \in 0..MaxLinks :
        /\ <<u, i, e>> \in sent' <=> <<u, i, e>> \in sent \/ (i \in its /\ e = epoch[u])
        /\ <<u, i, e>> \in resent' <=>
               <<u, i, e>> \in resent \/ (i \in its /\ e = epoch[u] /\ <<u, i, e>> \in sent)

Untouched(u) ==
    RowKept(u) /\ JobKept(u) /\ MapKept(u) /\ HistoryKept(u) /\ Handed(u, {})

Saved(u) ==
    /\ JobKept(u) /\ MapKept(u) /\ Handed(u, {})
    /\ link'[u] \in Accounts
    /\ baseline'[u] = stats'[u]
    /\ epoch'[u] = epoch[u] + 1
    /\ mishaps'[u] = mishaps[u] \cup (IF job[u].phase = "off" /\ mapping[u] = {}
                                      THEN {} ELSE {"resaved"})

Removed(u) ==
    /\ JobKept(u) /\ MapKept(u) /\ HistoryKept(u) /\ Handed(u, {})
    /\ link'[u] = NoAccount
    /\ stats'[u] = NoStats

Listed(u) ==
    /\ RowKept(u) /\ MapKept(u) /\ HistoryKept(u) /\ Handed(u, {})
    /\ job[u].phase = "off"
    /\ \/ job'[u] = NoJob
       \/ /\ link[u] # NoAccount
          /\ job'[u].phase = "listed"
          /\ job'[u].acct = link[u]
          /\ job'[u].old = NoStats
          /\ job'[u].new = NoStats
          /\ job'[u].now = Never
          /\ job'[u].found = {}

(* What of an update most of its steps leave as it is.                     *)
CopyKept(u) == job'[u].acct = job[u].acct /\ job'[u].old = job[u].old

Copied(u) ==
    /\ RowKept(u) /\ MapKept(u) /\ Handed(u, {})
    /\ epoch'[u] = epoch[u]
    /\ baseline'[u] = baseline[u]
    /\ \/ /\ job[u].phase = "off"
          /\ job'[u] = NoJob
          /\ mishaps'[u] = mishaps[u]
       \/ /\ job[u].phase = "listed"
          /\ job'[u].phase = "queued"
          /\ job'[u].acct = job[u].acct
          /\ job'[u].old = stats[u]
          /\ job'[u].new = stats[u]
          /\ job'[u].found = job[u].found
          /\ mishaps'[u] = mishaps[u] \cup (IF link[u] # job[u].acct THEN {"torn"} ELSE {})

Begins(u) ==
    /\ RowKept(u) /\ MapKept(u) /\ HistoryKept(u) /\ Handed(u, {})
    /\ job[u].phase = "queued"
    /\ \/ job'[u] = NoJob
       \/ /\ CopyKept(u)
          /\ job'[u].phase = "modes"
          /\ job'[u].now = clock
          /\ job'[u].new = job[u].new
          /\ job'[u].found = job[u].found
          /\ job'[u].next = job[u].next

Fetches(u) ==
    LET m == ModeOrder[job[u].next]
    IN  /\ RowKept(u) /\ MapKept(u) /\ HistoryKept(u) /\ Handed(u, {})
        /\ CopyKept(u)
        /\ job[u].phase = "modes"
        /\ m \in Modes
        /\ job'[u].phase = IF job[u].next = Len(ModeOrder) THEN "events" ELSE "modes"
        /\ job'[u].now = job[u].now
        /\ job'[u].next = job[u].next + 1
        /\ \A n \in Modes : job'[u].new[n] = IF n = m THEN job[u].now ELSE job[u].new[n]
        /\ job'[u].found = job[u].found \cup
              (IF job[u].old[m] = Never THEN {}
               ELSE Reported("top", job[u].acct, {m}, job[u].old[m], job[u].now))

Fails(u) ==
    /\ RowKept(u) /\ MapKept(u) /\ Handed(u, {}) /\ CopyKept(u)
    /\ epoch'[u] = epoch[u]
    /\ baseline'[u] = baseline[u]
    /\ job[u].phase = "modes"
    /\ job'[u].phase = "events"
    /\ job'[u].now = job[u].now
    /\ job'[u].new = job[u].new
    /\ job'[u].found = job[u].found
    /\ mishaps'[u] = mishaps[u] \cup {"fetch"}

Ranks(u) ==
    UNION {Reported("rank", job[u].acct, {m}, job[u].old[m], job[u].now) : m \in Modes}

Hears(u) ==
    /\ RowKept(u) /\ HistoryKept(u) /\ Handed(u, {}) /\ CopyKept(u)
    /\ job[u].phase = "events"
    /\ job'[u].phase = "save"
    /\ job'[u].now = job[u].now
    /\ job'[u].new = job[u].new
    /\ \E kept \in SUBSET Ranks(u) : job'[u].found = job[u].found \cup kept
    /\ \/ MapKept(u)
       \/ mapping'[u] = mapping[u] \cup
             Reported("map", job[u].acct, Modes, LatestOf(job[u].old), job[u].now)

Stores(u) ==
    /\ MapKept(u) /\ Handed(u, job[u].found)
    /\ epoch'[u] = epoch[u]
    /\ mishaps'[u] = mishaps[u]
    /\ job[u].phase = "save"
    /\ job'[u] = NoJob
    /\ link[u] \in {NoAccount, job[u].acct}
    /\ link'[u] = job[u].acct
    /\ \A m \in Modes :
          /\ stats'[u][m] = Seconds(job[u].new[m])
          /\ baseline'[u][m] = IF Never \in {job[u].old[m], stats[u][m]}
                               THEN Seconds(job[u].new[m]) ELSE baseline[u][m]

(* An update is given up, or lost with all that is in memory.              *)
Drops(u) ==
    /\ RowKept(u) /\ Handed(u, {})
    /\ epoch'[u] = epoch[u]
    /\ baseline'[u] = baseline[u]
    /\ job'[u] = NoJob
    /\ mapping'[u] \in {mapping[u], {}}
    /\ mishaps'[u] = mishaps[u] \cup (IF job[u].phase = "off" THEN {} ELSE {"save"})

Takes(u) ==
    /\ RowKept(u) /\ JobKept(u) /\ HistoryKept(u)
    /\ mapping'[u] = {}
    /\ Handed(u, {}) \/ Handed(u, NewestPerTopic(mapping[u]))

UserStep(u) ==
    \/ Untouched(u) \/ Saved(u) \/ Removed(u)
    \/ Listed(u) \/ Copied(u) \/ Begins(u) \/ Fetches(u) \/ Fails(u) \/ Hears(u)
    \/ Stores(u) \/ Drops(u) \/ Takes(u)

(* A step of the world touches no user.                                    *)
LEMMA WorldTouchesNobody ==
    ASSUME World, NEW u \in Users
    PROVE  Untouched(u)
  BY DEF World, Tick, Happen, table, history, Untouched, RowKept, JobKept, MapKept,
         HistoryKept, Handed

LEMMA HandsOver ==
    ASSUME TypeOK, NEW u \in Users, NEW its, HandOver(u, its)
    PROVE  Handed(u, its) /\ \A v \in Users \ {u} : Handed(v, {})
  BY DEF HandOver, TypeOK, Handed

LEMMA NothingHandedOver ==
    ASSUME UNCHANGED <<sent, resent>>
    PROVE  \A u \in Users : Handed(u, {})
  BY DEF Handed

LEMMA CommandsSteps ==
    ASSUME IInv, NEW u \in Users, Commands(u)
    PROVE  UNCHANGED world /\ \A v \in Users : UserStep(v)
  <1>1. ASSUME NEW a \in Accounts, BeginSaving(u, a)
        PROVE  UNCHANGED world /\ \A v \in Users : Untouched(v)
    BY <1>1, NothingHandedOver
       DEF BeginSaving, table, history, Untouched, RowKept, JobKept, MapKept, HistoryKept
  <1>2. ASSUME NEW m \in Modes, FetchForSaving(u, m)
        PROVE  UNCHANGED world /\ \A v \in Users : Untouched(v)
    BY <1>2, NothingHandedOver
       DEF FetchForSaving, table, history, Untouched, RowKept, JobKept, MapKept, HistoryKept
  <1>3. CASE CommitSaving(u)
    <2>0. /\ UNCHANGED world
          /\ \A v \in Users : JobKept(v) /\ MapKept(v) /\ Handed(v, {})
      BY <1>3, NothingHandedOver DEF CommitSaving, JobKept, MapKept
    <2>1. CASE NewUserRejected(u, saving[u].acct) /\ UNCHANGED <<epoch, baseline, mishaps>>
      BY <2>0, <2>1 DEF NewUserRejected, table, Untouched, RowKept, HistoryKept, UserStep
    <2>2. CASE /\ NewUser(u, saving[u].acct, saving[u].got)
               /\ epoch' = [epoch EXCEPT ![u] = @ + 1]
               /\ baseline' = [baseline EXCEPT ![u] = InSeconds(saving[u].got)]
               /\ mishaps' = [mishaps EXCEPT ![u] =
                                @ \cup (IF job[u].phase = "off" /\ mapping[u] = {}
                                         THEN {} ELSE {"resaved"})]
      <3>0. saving[u].acct \in Accounts
        BY <1>3 DEF CommitSaving, IInv, TypeOK, Saving
      <3>t. /\ link \in [Users -> Accounts \cup {NoAccount}] /\ DOMAIN stats = Users
            /\ DOMAIN epoch = Users /\ DOMAIN baseline = Users /\ DOMAIN mishaps = Users
        BY DEF IInv, TypeOK, TableTypeOK
      <3>1. Saved(u)
        BY <2>0, <2>2, <3>0, <3>t DEF NewUser, WriteRow, Saved
      <3>2. \A v \in Users \ {u} : Untouched(v)
        BY <2>0, <2>2, <3>t DEF NewUser, WriteRow, Untouched, RowKept, HistoryKept
      <3> QED BY <2>0, <3>1, <3>2 DEF UserStep
    <2> QED BY <1>3, <2>1, <2>2 DEF CommitSaving
  <1>4. CASE Forget(u)
    <2>t. DOMAIN link = Users /\ DOMAIN stats = Users
      BY DEF IInv, TypeOK, TableTypeOK
    <2>0. /\ UNCHANGED world
          /\ \A v \in Users : JobKept(v) /\ MapKept(v) /\ HistoryKept(v) /\ Handed(v, {})
      BY <1>4, NothingHandedOver DEF Forget, history, JobKept, MapKept, HistoryKept
    <2>1. Removed(u)
      BY <1>4, <2>0, <2>t DEF Forget, RemoveUser, Removed
    <2>2. \A v \in Users \ {u} : Untouched(v)
      BY <1>4, <2>0, <2>t DEF Forget, RemoveUser, Untouched, RowKept
    <2> QED BY <2>0, <2>1, <2>2 DEF UserStep
  <1> QED BY <1>1, <1>2, <1>3, <1>4 DEF Commands, UserStep

(* What update_user's actions leave of the other variables.                *)
LEMMA OthersUntouched ==
    ASSUME IInv, NEW u \in Users, NEW jj, job' = [job EXCEPT ![u] = jj],
           UNCHANGED <<table, mapping, history>>
    PROVE  /\ job'[u] = jj
           /\ RowKept(u) /\ MapKept(u) /\ HistoryKept(u) /\ Handed(u, {})
           /\ \A v \in Users \ {u} : Untouched(v)
  <1>1. DOMAIN job = Users
    BY DEF IInv, TypeOK
  <1> QED BY <1>1 DEF table, history, Untouched, RowKept, JobKept, MapKept, HistoryKept, Handed

LEMMA UpdateSteps ==
    ASSUME IInv, NEW u \in Users, Update(u)
    PROVE  UNCHANGED world /\ UserStep(u) /\ \A v \in Users \ {u} : Untouched(v)
  <1> DEFINE j == job[u]
  <1>0. /\ j \in Job
        /\ DOMAIN job = Users /\ DOMAIN mishaps = Users /\ DOMAIN mapping = Users
        /\ link \in [Users -> Accounts \cup {NoAccount}] /\ DOMAIN stats = Users
        /\ DOMAIN baseline = Users
    BY DEF IInv, TypeOK, TableTypeOK
  <1>1. CASE BeginUpdate(u)
    <2> DEFINE jj == [j EXCEPT !.phase = "modes", !.now = clock]
    <2>1. /\ jj.acct = j.acct /\ jj.old = j.old /\ jj.new = j.new /\ jj.found = j.found
          /\ jj.next = j.next /\ jj.phase = "modes" /\ jj.now = clock
      BY <1>0 DEF Job
    <2>2. job' = [job EXCEPT ![u] = NoJob] \/ job' = [job EXCEPT ![u] = jj]
      BY <1>1 DEF BeginUpdate
    <2> HIDE DEF jj
    <2>3. PICK k \in {NoJob, jj} : job' = [job EXCEPT ![u] = k]
      BY <2>2
    <2>4. /\ job'[u] = k
          /\ RowKept(u) /\ MapKept(u) /\ HistoryKept(u) /\ Handed(u, {})
          /\ \A v \in Users \ {u} : Untouched(v)
      BY <1>1, <2>3, OthersUntouched DEF BeginUpdate
    <2>5. Begins(u)
      BY <1>1, <2>1, <2>4 DEF BeginUpdate, Begins, CopyKept
    <2> QED BY <1>1, <2>4, <2>5 DEF BeginUpdate, UserStep
  <1>2. CASE FetchMode(u)
    <2> DEFINE m == ModeOrder[j.next]
               top == IF j.old[m] = Never THEN {}
                      ELSE Reported("top", j.acct, {m}, j.old[m], j.now)
               jj == [j EXCEPT !.new = [@ EXCEPT ![m] = j.now],
                               !.found = @ \cup top,
                               !.next = @ + 1,
                               !.phase = IF j.next = Len(ModeOrder) THEN "events" ELSE "modes"]
    <2>0. j.phase = "modes" /\ job' = [job EXCEPT ![u] = jj]
      BY <1>2 DEF FetchMode
    <2>1. m \in Modes
      BY <1>0, <2>0, ModesAreVisited DEF Job, IInv, Progress
    <2>2. /\ jj.acct = j.acct /\ jj.old = j.old /\ jj.now = j.now /\ jj.next = j.next + 1
          /\ jj.phase = IF j.next = Len(ModeOrder) THEN "events" ELSE "modes"
          /\ jj.found = j.found \cup top
          /\ jj.new = [j.new EXCEPT ![m] = j.now]
      <3> HIDE DEF m, top
      <3> QED BY <1>0 DEF Job
    <2>3. \A n \in Modes : jj.new[n] = IF n = m THEN j.now ELSE j.new[n]
      BY <1>0, <2>2 DEF Job
    <2> HIDE DEF jj
    <2>4. /\ job'[u] = jj
          /\ RowKept(u) /\ MapKept(u) /\ HistoryKept(u) /\ Handed(u, {})
          /\ \A v \in Users \ {u} : Untouched(v)
      BY <1>2, <2>0, OthersUntouched DEF FetchMode
    <2>5. Fetches(u)
      BY <2>0, <2>1, <2>2, <2>3, <2>4 DEF Fetches, CopyKept
    <2> QED BY <1>2, <2>4, <2>5 DEF FetchMode, UserStep
  <1>3. CASE FetchModeFails(u)
    <2> DEFINE jj == [j EXCEPT !.phase = "events", !.fails = @ + 1]
    <2>1. /\ jj.acct = j.acct /\ jj.old = j.old /\ jj.now = j.now /\ jj.new = j.new
          /\ jj.found = j.found /\ jj.phase = "events"
      BY <1>0 DEF Job
    <2>2. job' = [job EXCEPT ![u] = jj]
      BY <1>3 DEF FetchModeFails
    <2> HIDE DEF jj
    <2>3. Fails(u)
      BY <1>0, <1>3, <2>1, <2>2, NothingHandedOver
         DEF FetchModeFails, Fails, table, RowKept, MapKept, CopyKept
    <2>4. \A v \in Users \ {u} : Untouched(v)
      BY <1>0, <1>3, <2>2, NothingHandedOver
         DEF FetchModeFails, table, Untouched, RowKept, JobKept, MapKept, HistoryKept
    <2> QED BY <1>3, <2>3, <2>4 DEF FetchModeFails, UserStep
  <1>4. CASE FetchEvents(u)
    <2>1. PICK kept \in SUBSET Ranks(u) :
             job' = [job EXCEPT ![u] = [j EXCEPT !.phase = "save", !.found = @ \cup kept]]
      <3>1. Ranks(u) \in SUBSET Ranks(u)
        OBVIOUS
      <3> HIDE DEF j
      <3>2. \E kept \in IF "events" \in Faults THEN SUBSET Ranks(u) ELSE {Ranks(u)} :
               job' = [job EXCEPT ![u] = [j EXCEPT !.phase = "save", !.found = @ \cup kept]]
        BY <1>4 DEF FetchEvents, Ranks, j
      <3> QED BY <3>1, <3>2
    <2> DEFINE jj == [j EXCEPT !.phase = "save", !.found = @ \cup kept]
    <2>2. /\ jj.acct = j.acct /\ jj.old = j.old /\ jj.now = j.now /\ jj.new = j.new
          /\ jj.found = j.found \cup kept /\ jj.phase = "save"
      BY <1>0 DEF Job
    <2>3. job' = [job EXCEPT ![u] = jj]
      BY <2>1
    <2> HIDE DEF jj
    <2>4. /\ j.phase = "events"
          /\ UNCHANGED <<table, world, epoch, baseline, mishaps, sent, resent>>
          /\ mapping' = [mapping EXCEPT ![u] =
                          @ \cup Reported("map", j.acct, Modes, LatestOf(j.old), j.now)]
      BY <1>4 DEF FetchEvents, history
    <2>5. Hears(u)
      <3>1. RowKept(u) /\ HistoryKept(u) /\ Handed(u, {}) /\ CopyKept(u)
        BY <1>0, <2>2, <2>3, <2>4, NothingHandedOver
           DEF table, RowKept, HistoryKept, CopyKept
      <3>2. mapping'[u] = mapping[u] \cup
               Reported("map", j.acct, Modes, LatestOf(j.old), j.now)
        BY <1>0, <2>4
      <3>3. job'[u] = jj
        BY <1>0, <2>3
      <3> QED BY <2>1, <2>2, <2>4, <3>1, <3>2, <3>3 DEF Hears
    <2>6. \A v \in Users \ {u} : Untouched(v)
      BY <1>0, <2>3, <2>4, NothingHandedOver
         DEF table, Untouched, RowKept, JobKept, MapKept, HistoryKept
    <2> QED BY <2>4, <2>5, <2>6 DEF UserStep
  <1>5. CASE FetchEventsFails(u)
    <2> DEFINE jj == [j EXCEPT !.phase = "save"]
    <2>1. /\ jj.acct = j.acct /\ jj.old = j.old /\ jj.now = j.now /\ jj.new = j.new
          /\ jj.found = j.found /\ jj.phase = "save"
      BY <1>0 DEF Job
    <2>2. job' = [job EXCEPT ![u] = jj]
      BY <1>5 DEF FetchEventsFails
    <2> HIDE DEF jj
    <2>3. /\ job'[u] = jj
          /\ RowKept(u) /\ MapKept(u) /\ HistoryKept(u) /\ Handed(u, {})
          /\ \A v \in Users \ {u} : Untouched(v)
      BY <1>5, <2>2, OthersUntouched DEF FetchEventsFails
    <2>4. \E kept \in SUBSET Ranks(u) : jj.found = j.found \cup kept
      <3>1. {} \in SUBSET Ranks(u) /\ jj.found = j.found \cup {}
        BY <2>1
      <3> QED BY <3>1
    <2>5. Hears(u)
      BY <1>5, <2>1, <2>3, <2>4 DEF FetchEventsFails, Hears, CopyKept
    <2> QED BY <1>5, <2>3, <2>5 DEF FetchEventsFails, UserStep
  <1>6. CASE SaveAndAnnounce(u)
    <2>1. /\ StoreAccepted(u, j.acct) /\ WriteRow(u, j.acct, 0, j.new)
          /\ HandOver(u, j.found) /\ j.phase = "save"
          /\ job' = [job EXCEPT ![u] = NoJob]
          /\ UNCHANGED <<world, mapping, epoch, mishaps>>
          /\ baseline' = [baseline EXCEPT ![u] =
                            [m \in Modes |-> IF Never \in {j.old[m], stats[u][m]}
                                             THEN Seconds(j.new[m]) ELSE @[m]]]
      BY <1>6 DEF SaveAndAnnounce, SaveUser, FailuresToStore
    <2>2. Handed(u, j.found) /\ \A v \in Users \ {u} : Handed(v, {})
      BY <2>1, HandsOver DEF IInv
    <2>3. link[u] \in {NoAccount, j.acct} /\ link'[u] = j.acct
      BY <1>0, <2>1 DEF StoreAccepted, StoreRaced, WriteRow
    <2>4. \A m \in Modes :
             /\ stats'[u][m] = Seconds(j.new[m])
             /\ baseline'[u][m] = IF Never \in {j.old[m], stats[u][m]}
                                  THEN Seconds(j.new[m]) ELSE baseline[u][m]
      BY <1>0, <2>1 DEF WriteRow, InSeconds
    <2>5. Stores(u)
      BY <1>0, <2>1, <2>2, <2>3, <2>4 DEF Stores, MapKept
    <2>6. \A v \in Users \ {u} : Untouched(v)
      BY <1>0, <2>1, <2>2 DEF WriteRow, Untouched, RowKept, JobKept, MapKept, HistoryKept
    <2> QED BY <2>1, <2>5, <2>6 DEF UserStep
  <1>7. CASE SkipUser(u)
    <2>1. Drops(u)
      BY <1>0, <1>7, NothingHandedOver DEF SkipUser, table, Drops, RowKept
    <2>2. \A v \in Users \ {u} : Untouched(v)
      BY <1>0, <1>7, NothingHandedOver
         DEF SkipUser, table, Untouched, RowKept, JobKept, MapKept, HistoryKept
    <2> QED BY <1>7, <2>1, <2>2 DEF SkipUser, UserStep
  <1> QED BY <1>1, <1>2, <1>3, <1>4, <1>5, <1>6, <1>7 DEF Update

(* Every step is one of the world, which touches no user, or one in which  *)
(* the world stands still and each user's part makes a step of its own.    *)
LEMMA StepsOfUsers ==
    ASSUME IInv, Asleep, [Next]_vars
    PROVE  \/ World /\ \A u \in Users : Untouched(u)
           \/ UNCHANGED world /\ \A u \in Users : UserStep(u)
  <1>0. /\ \A u \in Users : job[u] \in Job
        /\ NoJob.phase = "off" /\ NoJob.old = NoStats /\ NoJob.new = NoStats
        /\ NoJob.now = Never /\ NoJob.found = {}
    BY DEF IInv, TypeOK, NoJob
  <1>1. CASE World
    BY <1>1, WorldTouchesNobody
  <1>2. ASSUME UNCHANGED <<table, world, job, mapping, history>>
        PROVE  UNCHANGED world /\ \A u \in Users : UserStep(u)
    BY <1>2, NothingHandedOver
       DEF table, history, UserStep, Untouched, RowKept, JobKept, MapKept, HistoryKept
  <1>3. ASSUME NEW u \in Users, Commands(u)
        PROVE  UNCHANGED world /\ \A v \in Users : UserStep(v)
    BY <1>3, CommandsSteps
  <1>4. CASE ListUsers
    <2>1. ASSUME NEW u \in Users
          PROVE  Listed(u)
      <3>1. RowKept(u) /\ MapKept(u) /\ HistoryKept(u) /\ Handed(u, {})
        BY <1>4, NothingHandedOver
           DEF ListUsers, table, history, RowKept, MapKept, HistoryKept
      <3>2. job[u].phase = "off"
        BY <1>4 DEF ListUsers, Asleep
      <3>3. CASE link[u] = NoAccount
        BY <1>4, <3>1, <3>2, <3>3 DEF ListUsers, Listed
      <3>4. CASE link[u] # NoAccount
        <4> DEFINE jj == [NoJob EXCEPT !.phase = "listed", !.acct = link[u],
                                       !.fails = failures[u]]
        <4>1. job'[u] = jj
          BY <1>4, <3>4 DEF ListUsers
        <4>2. /\ jj.phase = "listed" /\ jj.acct = link[u] /\ jj.old = NoStats
              /\ jj.new = NoStats /\ jj.now = Never /\ jj.found = {}
          BY DEF NoJob
        <4> HIDE DEF jj
        <4> QED BY <3>1, <3>2, <3>4, <4>1, <4>2 DEF Listed
      <3> QED BY <3>3, <3>4
    <2> QED BY <1>4, <2>1 DEF ListUsers, UserStep
  <1>5. CASE ListModes
    <2>1. ASSUME NEW u \in Users
          PROVE  Copied(u)
      <3>1. /\ RowKept(u) /\ MapKept(u) /\ Handed(u, {})
            /\ epoch'[u] = epoch[u] /\ baseline'[u] = baseline[u]
            /\ mishaps'[u] = mishaps[u] \cup (IF job[u].phase # "off" /\ link[u] # job[u].acct
                                              THEN {"torn"} ELSE {})
        BY <1>5, NothingHandedOver DEF ListModes, table, RowKept, MapKept
      <3>2. job[u].phase \in {"off", "listed"}
        BY <1>5 DEF ListModes, IInv, Progress
      <3>3. CASE job[u].phase = "off"
        BY <1>5, <3>1, <3>3 DEF ListModes, Copied
      <3>4. CASE job[u].phase = "listed"
        <4> DEFINE jj == [job[u] EXCEPT !.phase = "queued", !.old = stats[u], !.new = stats[u]]
        <4>1. job'[u] = jj
          BY <1>5, <3>4 DEF ListModes
        <4>2. /\ jj.phase = "queued" /\ jj.acct = job[u].acct /\ jj.old = stats[u]
              /\ jj.new = stats[u] /\ jj.found = job[u].found
          BY <1>0 DEF Job
        <4> HIDE DEF jj
        <4> QED BY <3>1, <3>4, <4>1, <4>2 DEF Copied
      <3> QED BY <3>2, <3>3, <3>4
    <2> QED BY <1>5, <2>1 DEF ListModes, UserStep
  <1>6. ASSUME NEW u \in Users, Update(u)
        PROVE  UNCHANGED world /\ \A v \in Users : UserStep(v)
    BY <1>6, UpdateSteps DEF UserStep
  <1>7. CASE EndScan
    BY <1>2, <1>7 DEF EndScan
  <1>8. CASE WakeMapping
    BY <1>2, <1>8 DEF WakeMapping
  <1>9. ASSUME NEW u \in Users, TakeMapping(u)
        PROVE  UNCHANGED world /\ \A v \in Users : UserStep(v)
    <2>0. DOMAIN mapping = Users
      BY DEF IInv, TypeOK
    <2>1. UNCHANGED <<table, world, job, epoch, baseline, mishaps>>
      BY <1>9 DEF TakeMapping
    <2>2. /\ mapping'[u] = {} /\ \A v \in Users \ {u} : MapKept(v)
      BY <1>9, <2>0 DEF TakeMapping, MapKept
    <2>3. /\ Handed(u, {}) \/ Handed(u, NewestPerTopic(mapping[u]))
          /\ \A v \in Users \ {u} : Handed(v, {})
      <3>1. CASE HandOver(u, NewestPerTopic(mapping[u]))
        BY <3>1, HandsOver DEF IInv
      <3>2. CASE UNCHANGED <<sent, resent>>
        BY <3>2, NothingHandedOver
      <3> QED BY <1>9, <3>1, <3>2 DEF TakeMapping
    <2>4. Takes(u) /\ \A v \in Users \ {u} : Untouched(v)
      BY <2>1, <2>2, <2>3 DEF table, Takes, Untouched, RowKept, JobKept, HistoryKept
    <2> QED BY <2>1, <2>4 DEF UserStep
  <1>10. CASE Crash
    <2>1. ASSUME NEW u \in Users
          PROVE  Drops(u)
      BY <1>10, NothingHandedOver DEF Crash, table, Drops, RowKept
    <2> QED BY <1>10, <2>1 DEF Crash, UserStep
  <1>11. CASE UNCHANGED vars
    BY <1>2, <1>11 DEF vars
  <1> QED BY <1>1, <1>3, <1>4, <1>5, <1>6, <1>7, <1>8, <1>9, <1>10, <1>11
          DEF Next, Scan, MappingAnnouncer

-----------------------------------------------------------------------------
(* No score skipped, no score repeated: what an update knows *)

(* The phases in which the copy of the modes is there, and those in which  *)
(* the update has begun.                                                   *)
AtWork == {"queued", "modes", "events", "save"}
Begun == {"modes", "events", "save"}

(* Handed over for a user, ever and since the account was last saved.      *)
EverSent(u) == {i \in Item : \E e \in 0..MaxLinks : <<u, i, e>> \in sent}
SentNow(u) == {i \in Item : <<u, i, epoch[u]>> \in sent}

(* Items carry whole seconds that have begun, and whatever is collected or *)
(* handed over is an item of the world.                                    *)
Dated ==
    /\ \A i \in items : Seconds(i.date) = i.date /\ i.date <= clock
    /\ \A d \in sent : d[2] \in items /\ d[3] <= epoch[d[1]]
    /\ \A u \in Users : mapping[u] \subseteq items /\ job[u].found \subseteq items

(* The copy of a row agrees with the row until the user saves again; the   *)
(* row may be gone.                                                        *)
Fresh(u) ==
    "resaved" \notin mishaps[u] =>
        /\ job[u].phase = "listed" => link[u] \in {NoAccount, job[u].acct}
        /\ job[u].phase \in AtWork =>
               link[u] = NoAccount \/ (link[u] = job[u].acct /\ job[u].old = stats[u])

(* What an update has collected lies in its windows, and each mode either  *)
(* has been moved to the update's instant or not at all.                   *)
InWindow(u) ==
    LET j == job[u]
    IN  /\ j.phase \notin Begun => j.found = {}
        /\ j.phase = "queued" => j.new = j.old
        /\ \A m \in Modes : j.new[m] \in {j.old[m], j.now}
        /\ \A i \in j.found :
              /\ j.old[i.topic] < i.date
              /\ i.date <= j.now
              /\ i.feed = "top" => j.old[i.topic] # Never /\ j.new[i.topic] = j.now

(* Without a failed fetch the modes visited so far have been moved.        *)
Visited(u) ==
    LET j == job[u]
    IN  "fetch" \notin mishaps[u] =>
            /\ j.phase = "modes" => \A k \in 1..(j.next - 1) : j.new[ModeOrder[k]] = j.now
            /\ j.phase \in {"events", "save"} => \A m \in Modes : j.new[m] = j.now

(* What was handed over, or is about to be posted, is not after the start  *)
(* of an update under way.                                                 *)
Heard(u) ==
    job[u].phase \in Begun =>
        \A i \in mapping[u] \cup EverSent(u) : i.date <= job[u].now

CopyInv == /\ Dated
           /\ \A u \in Users : Fresh(u) /\ InWindow(u) /\ Visited(u) /\ Heard(u)

-----------------------------------------------------------------------------
(* No score skipped *)

(* A user without a row has no modes.                                      *)
NoRow(u) == link[u] = NoAccount => stats[u] = NoStats

(* What is dated in the part of a window an update has moved past was      *)
(* collected by it.                                                        *)
Covered(u) ==
    \A i \in items :
        /\ i.feed = "top"
        /\ i.acct = job[u].acct
        /\ job[u].old[i.topic] # Never
        /\ job[u].old[i.topic] < i.date
        /\ i.date <= job[u].new[i.topic]
        /\ <<u, i>> \notin late
        => i \in job[u].found

NoGap(u) ==
    \A i \in items :
        /\ i.feed = "top"
        /\ i.acct = link[u]
        /\ "resaved" \notin mishaps[u]
        /\ i.date > baseline[u][i.topic]
        /\ i.date <= stats[u][i.topic]
        /\ <<u, i>> \notin late
        => \E e \in 0..MaxLinks : <<u, i, e>> \in sent

GapsInv == \A u \in Users : NoRow(u) /\ Covered(u) /\ NoGap(u)

-----------------------------------------------------------------------------
(* No score repeated *)

(* A best score handed over since the last saving is behind the record of  *)
(* its mode, and behind the copy of it.                                    *)
TopsBehind(u) ==
    \A i \in SentNow(u) :
        i.feed = "top" =>
            /\ stats[u][i.topic] = Never \/ i.date <= stats[u][i.topic]
            /\ job[u].phase \in AtWork =>
                  job[u].old[i.topic] = Never \/ i.date <= job[u].old[i.topic]

(* So is a rank event, until a fetch fails or the row changes under the    *)
(* scan.                                                                   *)
RanksBehind(u) ==
    mishaps[u] \cap {"fetch", "torn"} = {} =>
        \A i \in SentNow(u) :
            i.feed = "rank" =>
                /\ link[u] # NoAccount => i.date <= stats[u][i.topic]
                /\ job[u].phase \in AtWork => i.date <= job[u].old[i.topic]

(* So is a mapping event, whichever mode was updated last, until something *)
(* goes wrong; those yet to be posted have not been.                       *)
MapsBehind(u) ==
    mishaps[u] = {} =>
        /\ mapping[u] \cap SentNow(u) = {}
        /\ \A i \in mapping[u] \cup SentNow(u) :
              i.feed = "map" =>
                  /\ job[u].phase \in {"off", "listed"} /\ link[u] # NoAccount
                        => i.date <= LatestOf(stats[u])
                  /\ job[u].phase \in {"queued", "modes", "events"}
                        => i.date <= LatestOf(job[u].old)

RepeatsInv == /\ RepeatsNeedAMishap
              /\ \A u \in Users : TopsBehind(u) /\ RanksBehind(u) /\ MapsBehind(u)
-----------------------------------------------------------------------------
(* CopyInv *)

(* The types of what concerns one user.                                    *)
LEMMA UserTypes ==
    ASSUME TypeOK, NEW u \in Users
    PROVE  /\ \A t \in Time : t \in Nat
           /\ \A i \in items : i \in Item
           /\ \A i \in Item : i.topic \in Modes /\ i.date \in Time /\ i.acct \in Accounts
           /\ stats[u] \in [Modes -> Time] /\ \A m \in Modes : stats[u][m] \in Time
           /\ job[u].old \in [Modes -> Time] /\ \A m \in Modes : job[u].old[m] \in Time
           /\ job[u].new \in [Modes -> Time] /\ \A m \in Modes : job[u].new[m] \in Time
           /\ job[u].now \in Time
           /\ job[u].found \subseteq Item /\ mapping[u] \subseteq Item
           /\ epoch[u] \in 0..MaxLinks
  <1>1. \A t \in Time : t \in Nat
    BY SavedUsersAssumption DEF Time
  <1>2. \A i \in items : i \in Item
    BY DEF TypeOK
  <1>3. \A i \in Item : i.topic \in Modes /\ i.date \in Time /\ i.acct \in Accounts
    BY DEF Item
  <1>4. stats[u] \in [Modes -> Time]
    BY DEF TypeOK, TableTypeOK
  <1>5. /\ job[u].old \in [Modes -> Time] /\ job[u].new \in [Modes -> Time]
        /\ job[u].now \in Time /\ job[u].found \subseteq Item
    BY DEF TypeOK, Job
  <1>6. mapping[u] \subseteq Item /\ epoch[u] \in 0..MaxLinks
    BY DEF TypeOK
  <1> QED BY <1>1, <1>2, <1>3, <1>4, <1>5, <1>6

LEMMA FreshStep ==
    ASSUME TypeOK, NEW u \in Users, Fresh(u), UserStep(u)
    PROVE  Fresh(u)'
  <1> USE DEF Fresh, AtWork
  <1>1. CASE Untouched(u)
    BY <1>1 DEF Untouched, RowKept, JobKept, HistoryKept
  <1>2. CASE Saved(u)
    BY <1>2 DEF Saved, JobKept
  <1>3. CASE Removed(u)
    BY <1>3 DEF Removed, JobKept, HistoryKept
  <1>4. CASE Listed(u)
    BY <1>4 DEF Listed, RowKept, HistoryKept, NoJob
  <1>5. CASE Copied(u)
    BY <1>5 DEF Copied, RowKept, NoJob
  <1>6. CASE Begins(u)
    BY <1>6 DEF Begins, RowKept, HistoryKept, CopyKept, NoJob
  <1>7. CASE Fetches(u)
    BY <1>7 DEF Fetches, RowKept, HistoryKept, CopyKept
  <1>8. CASE Fails(u)
    BY <1>8 DEF Fails, RowKept, CopyKept
  <1>9. CASE Hears(u)
    BY <1>9 DEF Hears, RowKept, HistoryKept, CopyKept
  <1>10. CASE Stores(u)
    BY <1>10 DEF Stores, NoJob
  <1>11. CASE Drops(u)
    BY <1>11 DEF Drops, NoJob
  <1>12. CASE Takes(u)
    BY <1>12 DEF Takes, RowKept, JobKept, HistoryKept
  <1> QED BY <1>1, <1>2, <1>3, <1>4, <1>5, <1>6, <1>7, <1>8, <1>9, <1>10, <1>11, <1>12
          DEF UserStep

(* What the events add lies in the window that was looked at.              *)
LEMMA RanksInWindow ==
    ASSUME NEW u \in Users
    PROVE  \A i \in Ranks(u) :
              /\ i \in items /\ i.feed = "rank" /\ i.topic \in Modes
              /\ job[u].old[i.topic] < i.date /\ i.date <= job[u].now
  BY DEF Ranks, Reported, IsAnnounceableDate

LEMMA WindowStep ==
    ASSUME TypeOK, NEW u \in Users, InWindow(u), UserStep(u)
    PROVE  InWindow(u)'
  <1> USE DEF InWindow, Begun
  <1>0. NoJob.phase = "off" /\ NoJob.found = {} /\ \A m \in Modes : NoJob.new[m] = NoJob.old[m]
    BY DEF NoJob
  <1>n. CASE job'[u] = NoJob
    BY <1>n, <1>0
  <1>1. CASE JobKept(u)
    BY <1>1 DEF JobKept
  <1>4. CASE Listed(u)
    BY <1>n, <1>4 DEF Listed, NoStats
  <1>5. CASE Copied(u)
    <2>1. CASE job[u].phase = "listed" /\ job'[u].found = job[u].found
               /\ job'[u].phase = "queued" /\ job'[u].old = stats[u] /\ job'[u].new = stats[u]
      BY <2>1
    <2> QED BY <1>n, <1>5, <2>1 DEF Copied
  <1>6. CASE Begins(u)
    <2>1. CASE job'[u] # NoJob
      BY <1>6, <2>1 DEF Begins, CopyKept
    <2> QED BY <1>n, <2>1
  <1>7. CASE Fetches(u)
    <2> DEFINE m == ModeOrder[job[u].next]
               top == IF job[u].old[m] = Never THEN {}
                      ELSE Reported("top", job[u].acct, {m}, job[u].old[m], job[u].now)
    <2>1. /\ m \in Modes /\ job'[u].old = job[u].old /\ job'[u].now = job[u].now
          /\ job'[u].phase \in {"modes", "events"} /\ job[u].phase = "modes"
          /\ \A n \in Modes : job'[u].new[n] = IF n = m THEN job[u].now ELSE job[u].new[n]
          /\ job'[u].found = job[u].found \cup top
      BY <1>7 DEF Fetches, CopyKept
    <2>2. \A i \in top : /\ i.topic = m /\ job[u].old[m] # Never
                         /\ job[u].old[m] < i.date /\ i.date <= job[u].now
      <3> HIDE DEF m
      <3>1. CASE job[u].old[m] = Never
        BY <3>1
      <3>2. CASE job[u].old[m] # Never
        <4>1. top = Reported("top", job[u].acct, {m}, job[u].old[m], job[u].now)
          BY <3>2
        <4> HIDE DEF top
        <4> QED BY <3>2, <4>1 DEF Reported, IsAnnounceableDate
      <3> QED BY <3>1, <3>2
    <2>3. \A i \in job[u].found : i.topic \in Modes
      BY DEF TypeOK, Job, Item
    <2> HIDE DEF m, top
    <2> QED BY <2>1, <2>2, <2>3
  <1>8. CASE Fails(u)
    BY <1>8 DEF Fails, CopyKept
  <1>9. CASE Hears(u)
    BY <1>9, RanksInWindow DEF Hears, CopyKept
  <1> QED BY <1>n, <1>1, <1>4, <1>5, <1>6, <1>7, <1>8, <1>9
          DEF UserStep, Untouched, Saved, Removed, Stores, Drops, Takes

LEMMA VisitedStep ==
    ASSUME TypeOK, Progress, NEW u \in Users, Visited(u), UserStep(u)
    PROVE  Visited(u)'
  <1> USE DEF Visited
  <1>0. NoJob.phase = "off"
    BY DEF NoJob
  <1>n. CASE job'[u] = NoJob
    BY <1>n, <1>0
  <1>1. CASE JobKept(u) /\ mishaps[u] \subseteq mishaps'[u]
    BY <1>1 DEF JobKept
  <1>4. CASE Listed(u)
    BY <1>n, <1>4 DEF Listed
  <1>5. CASE Copied(u)
    BY <1>n, <1>5 DEF Copied
  <1>6. CASE Begins(u)
    <2>1. CASE job'[u] # NoJob
      <3>1. job'[u].next = 1 /\ job'[u].phase = "modes"
        BY <1>6, <2>1 DEF Begins, Progress
      <3> QED BY <3>1
    <2> QED BY <1>n, <2>1
  <1>7. CASE Fetches(u)
    <2> DEFINE m == ModeOrder[job[u].next]
    <2>1. /\ job'[u].now = job[u].now /\ job'[u].next = job[u].next + 1
          /\ job'[u].phase = IF job[u].next = Len(ModeOrder) THEN "events" ELSE "modes"
          /\ job[u].phase = "modes" /\ mishaps'[u] = mishaps[u]
          /\ \A n \in Modes : job'[u].new[n] = IF n = m THEN job[u].now ELSE job[u].new[n]
      BY <1>7 DEF Fetches, HistoryKept
    <2>2. job[u].next \in 1..Len(ModeOrder) /\ Len(ModeOrder) \in Nat
      BY <2>1, ModesAreVisited DEF TypeOK, Job, Progress
    <2>3. \A k \in 1..Len(ModeOrder) : ModeOrder[k] \in Modes
      BY ModesAreVisited
    <2>4. ASSUME "fetch" \notin mishaps[u]
          PROVE  \A k \in 1..job[u].next : job'[u].new[ModeOrder[k]] = job[u].now
      <3> TAKE k \in 1..job[u].next
      <3>1. ModeOrder[k] \in Modes
        BY <2>2, <2>3
      <3>2. CASE k = job[u].next
        BY <2>1, <3>1, <3>2
      <3>3. CASE k # job[u].next
        <4>1. k \in 1..(job[u].next - 1)
          BY <2>2, <3>3
        <4>2. job[u].new[ModeOrder[k]] = job[u].now
          BY <2>1, <2>4, <4>1
        <4> QED BY <2>1, <3>1, <4>2
      <3> QED BY <3>2, <3>3
    <2>5. CASE job[u].next = Len(ModeOrder)
      <3>1. ASSUME "fetch" \notin mishaps[u], NEW n \in Modes
            PROVE  job'[u].new[n] = job[u].now
        <4>1. PICK k \in 1..Len(ModeOrder) : ModeOrder[k] = n
          BY ModesAreVisited
        <4> QED BY <2>4, <2>5, <3>1, <4>1
      <3>2. job'[u].phase = "events"
        BY <2>1, <2>5
      <3> QED BY <2>1, <3>1, <3>2
    <2>6. CASE job[u].next # Len(ModeOrder)
      <3>1. job'[u].phase = "modes" /\ job'[u].next - 1 = job[u].next
        BY <2>1, <2>2, <2>6
      <3> QED BY <2>1, <2>4, <3>1
    <2> QED BY <2>5, <2>6
  <1>8. CASE Fails(u)
    BY <1>8 DEF Fails
  <1>9. CASE Hears(u)
    BY <1>9 DEF Hears, HistoryKept
  <1> QED BY <1>n, <1>1, <1>4, <1>5, <1>6, <1>7, <1>8, <1>9
          DEF UserStep, Untouched, Saved, Removed, Stores, Drops, Takes, HistoryKept

LEMMA DatedStep ==
    ASSUME TypeOK, Dated, NEW u \in Users, UserStep(u)
    PROVE  /\ \A i \in Item, e \in 0..MaxLinks :
                 <<u, i, e>> \in sent' => i \in items /\ e <= epoch'[u]
           /\ mapping'[u] \subseteq items
           /\ job'[u].found \subseteq items
  <1>0. epoch[u] \in Nat /\ \A e \in 0..MaxLinks : e \in Nat
    BY AnnouncerAssumption DEF TypeOK
  <1>1. \A i \in Item, e \in 0..MaxLinks : <<u, i, e>> \in sent => i \in items /\ e <= epoch[u]
    BY DEF Dated
  <1>2. mapping[u] \subseteq items /\ job[u].found \subseteq items /\ NoJob.found = {}
    BY DEF Dated, NoJob
  <1>3. epoch'[u] \in {epoch[u], epoch[u] + 1}
    BY DEF UserStep, Untouched, Saved, Removed, Listed, Copied, Begins, Fetches, Fails, Hears,
           Stores, Drops, Takes, HistoryKept
  <1>4. ASSUME Handed(u, {})
        PROVE  \A i \in Item, e \in 0..MaxLinks :
                  <<u, i, e>> \in sent' => i \in items /\ e <= epoch'[u]
    BY <1>0, <1>1, <1>3, <1>4 DEF Handed
  <1>5. ASSUME NEW its \in SUBSET items, Handed(u, its)
        PROVE  \A i \in Item, e \in 0..MaxLinks :
                  <<u, i, e>> \in sent' => i \in items /\ e <= epoch'[u]
    BY <1>0, <1>1, <1>3, <1>5 DEF Handed
  <1>6. CASE Fetches(u)
    <2> DEFINE m == ModeOrder[job[u].next]
    <2>1. Reported("top", job[u].acct, {m}, job[u].old[m], job[u].now) \subseteq items
      BY DEF Reported
    <2>2. job'[u].found \subseteq items
      BY <1>2, <1>6, <2>1 DEF Fetches
    <2> QED BY <1>2, <1>4, <1>6, <2>2 DEF Fetches, MapKept
  <1>7. CASE Hears(u)
    <2>1. Ranks(u) \subseteq items
          /\ Reported("map", job[u].acct, Modes, LatestOf(job[u].old), job[u].now) \subseteq items
      BY DEF Ranks, Reported
    <2> QED BY <1>2, <1>4, <1>7, <2>1 DEF Hears, MapKept
  <1>8. CASE Stores(u)
    BY <1>2, <1>5, <1>8 DEF Stores, MapKept
  <1>9. CASE Takes(u)
    <2>1. NewestPerTopic(mapping[u]) \in SUBSET items
      BY <1>2 DEF NewestPerTopic
    <2> QED BY <1>2, <1>4, <1>5, <1>9, <2>1 DEF Takes, JobKept
  <1>10. CASE Drops(u)
    BY <1>2, <1>4, <1>10 DEF Drops
  <1>11. CASE Listed(u)
    BY <1>2, <1>4, <1>11 DEF Listed, MapKept
  <1>12. CASE Copied(u)
    BY <1>2, <1>4, <1>12 DEF Copied, MapKept
  <1>13. CASE Begins(u)
    BY <1>2, <1>4, <1>13 DEF Begins, MapKept
  <1>14. CASE Fails(u)
    BY <1>2, <1>4, <1>14 DEF Fails, MapKept
  <1>15. CASE JobKept(u) /\ MapKept(u) /\ Handed(u, {})
    BY <1>2, <1>4, <1>15 DEF JobKept, MapKept
  <1> QED BY <1>6, <1>7, <1>8, <1>9, <1>10, <1>11, <1>12, <1>13, <1>14, <1>15
          DEF UserStep, Untouched, Saved, Removed

LEMMA HeardStep ==
    ASSUME TypeOK, Dated, NEW u \in Users, Heard(u), UserStep(u)
    PROVE  Heard(u)'
  <1> USE DEF Begun
  <1>0. NoJob.phase = "off"
    BY DEF NoJob
  <1>e. ASSUME NEW its, Handed(u, its)
        PROVE  EverSent(u)' \subseteq EverSent(u) \cup its
    BY <1>e DEF EverSent, Handed
  <1>n. CASE job'[u].phase \notin Begun
    BY <1>n DEF Heard
  <1>1. CASE JobKept(u) /\ MapKept(u) /\ Handed(u, {})
    <2>1. EverSent(u)' \subseteq EverSent(u)
      BY <1>1, <1>e
    <2> QED BY <1>1, <2>1 DEF Heard, JobKept, MapKept
  <1>2. CASE Takes(u)
    <2>1. NewestPerTopic(mapping[u]) \subseteq mapping[u]
      BY DEF NewestPerTopic
    <2>2. EverSent(u)' \subseteq EverSent(u) \cup mapping[u]
      BY <1>2, <1>e, <2>1 DEF Takes
    <2> QED BY <1>2, <2>2 DEF Heard, Takes, JobKept
  <1>3. CASE Begins(u) /\ job'[u] # NoJob
    <2>1. job'[u].now = clock /\ mapping'[u] = mapping[u] /\ EverSent(u)' \subseteq EverSent(u)
      BY <1>3, <1>e DEF Begins, MapKept
    <2>2. \A i \in mapping[u] \cup EverSent(u) : i.date <= clock
      BY DEF Dated, EverSent
    <2> QED BY <2>1, <2>2 DEF Heard
  <1>4. CASE Fetches(u) \/ Fails(u)
    <2>1. /\ job'[u].now = job[u].now /\ job[u].phase \in Begun
          /\ mapping'[u] = mapping[u] /\ EverSent(u)' \subseteq EverSent(u)
      BY <1>4, <1>e DEF Fetches, Fails, MapKept
    <2> QED BY <2>1 DEF Heard
  <1>5. CASE Hears(u)
    <2> DEFINE maps == Reported("map", job[u].acct, Modes, LatestOf(job[u].old), job[u].now)
    <2>1. /\ job'[u].now = job[u].now /\ job[u].phase \in Begun
          /\ mapping'[u] \subseteq mapping[u] \cup maps /\ EverSent(u)' \subseteq EverSent(u)
      BY <1>5, <1>e DEF Hears, MapKept
    <2>2. \A i \in maps : i.date <= job[u].now
      BY DEF Reported, IsAnnounceableDate
    <2> HIDE DEF maps
    <2> QED BY <2>1, <2>2 DEF Heard
  <1>6. CASE Listed(u)
    BY <1>0, <1>n, <1>6 DEF Listed
  <1>7. CASE Copied(u)
    BY <1>0, <1>n, <1>7 DEF Copied
  <1>8. CASE job'[u] = NoJob
    BY <1>0, <1>n, <1>8
  <1> QED BY <1>1, <1>2, <1>3, <1>4, <1>5, <1>6, <1>7, <1>8
          DEF UserStep, Untouched, Saved, Removed, Stores, Drops

LEMMA WorldStaysDated ==
    ASSUME TypeOK, Dated, World
    PROVE  Dated'
  <1>0. /\ clock \in Nat /\ \A i \in items : i.date \in Nat
        /\ MaxTime \in Nat /\ \A t \in Time : t \in Nat
    BY SavedUsersAssumption DEF TypeOK, Time, Item
  <1>1. CASE Tick
    BY <1>0, <1>1 DEF Tick, Dated, history
  <1>2. ASSUME NEW f \in Feeds, NEW a \in Accounts, NEW m \in Modes, Happen(f, a, m)
        PROVE  Dated'
    <2> DEFINE i == [feed |-> f, acct |-> a, topic |-> m, date |-> Seconds(clock + 1)]
    <2>1. clock + 1 \in Time /\ clock' = clock + 1
      BY <1>0, <1>2 DEF Happen, Time
    <2>2. Seconds(clock + 1) <= clock + 1 /\ Seconds(Seconds(clock + 1)) = Seconds(clock + 1)
      BY <2>1, SecondsKeepsDates
    <2>3. i.date = Seconds(clock + 1) /\ items' = items \cup {i}
      BY <1>2 DEF Happen
    <2> HIDE DEF i
    <2>4. \A k \in items' : Seconds(k.date) = k.date /\ k.date <= clock'
      BY <1>0, <2>1, <2>2, <2>3 DEF Dated
    <2>5. UNCHANGED <<sent, epoch, mapping, job>> /\ items \subseteq items'
      BY <1>2 DEF Happen, history
    <2> QED BY <2>4, <2>5 DEF Dated
  <1> QED BY <1>1, <1>2 DEF World

LEMMA InitCopyInv == Init => CopyInv
  <1> SUFFICES ASSUME Init PROVE CopyInv
    OBVIOUS
  <1>1. Dated
    BY DEF Init, Dated, NoJob
  <1>2. ASSUME NEW u \in Users
        PROVE  Fresh(u) /\ InWindow(u) /\ Visited(u) /\ Heard(u)
    <2>1. job[u] = NoJob /\ NoJob.phase = "off" /\ NoJob.found = {} /\ NoJob.new = NoJob.old
      BY DEF Init, NoJob
    <2> QED BY <2>1 DEF Fresh, InWindow, Visited, Heard, AtWork, Begun
  <1> QED BY <1>1, <1>2 DEF CopyInv

LEMMA NextCopyInv ==
    ASSUME IInv, IInv', Asleep, CopyInv, [Next]_vars
    PROVE  CopyInv'
  <1>0. TypeOK /\ Progress /\ TypeOK' /\ Dated
    BY DEF IInv, CopyInv
  <1>1. \A u \in Users : UserStep(u)
    BY StepsOfUsers DEF UserStep
  <1>2. \A u \in Users : Fresh(u)' /\ InWindow(u)' /\ Visited(u)' /\ Heard(u)'
    BY <1>0, <1>1, FreshStep, WindowStep, VisitedStep, HeardStep DEF CopyInv
  <1>3. Dated'
    <2>1. CASE World
      BY <1>0, <2>1, WorldStaysDated
    <2>2. CASE UNCHANGED world
      <3>1. \A u \in Users :
               /\ \A i \in Item, e \in 0..MaxLinks :
                     <<u, i, e>> \in sent' => i \in items /\ e <= epoch'[u]
               /\ mapping'[u] \subseteq items
               /\ job'[u].found \subseteq items
        BY <1>0, <1>1, DatedStep
      <3>2. \A d \in sent' : \E u \in Users, i \in Item, e \in 0..MaxLinks : d = <<u, i, e>>
        BY <1>0 DEF TypeOK, Delivery
      <3>3. \A d \in sent' : d[2] \in items /\ d[3] <= epoch'[d[1]]
        BY <3>1, <3>2
      <3> QED BY <1>0, <2>2, <3>1, <3>3 DEF Dated, world
    <2> QED BY <2>1, <2>2, StepsOfUsers
  <1> QED BY <1>2, <1>3 DEF CopyInv

(* The copy that an update works on, and the windows it looks at.          *)
LEMMA SpecCopyInv == Spec => [](IInv /\ Asleep /\ CopyInv)
  <1>1. Init => Asleep
    BY InitLinks
  <1>2. IInv /\ Asleep /\ [Next]_vars => Asleep'
    BY NextLinks
  <1>3. IInv /\ IInv' /\ Asleep /\ CopyInv /\ [Next]_vars => CopyInv'
    BY NextCopyInv
  <1> QED BY <1>1, <1>2, <1>3, InitCopyInv, SpecIInv, PTL DEF Spec

-----------------------------------------------------------------------------
(* GapsInv *)

LEMMA NoRowStep ==
    ASSUME TypeOK, Progress, NEW u \in Users, NoRow(u), UserStep(u)
    PROVE  NoRow(u)'
  <1>1. job[u].phase = "save" => job[u].acct # NoAccount
    BY SavedUsersAssumption DEF Progress
  <1> QED BY <1>1, SavedUsersAssumption
          DEF NoRow, UserStep, Untouched, Saved, Removed, Listed, Copied, Begins, Fetches,
              Fails, Hears, Stores, Drops, Takes, RowKept

LEMMA CoveredStep ==
    ASSUME TypeOK, TypeOK', NEW u \in Users, Covered(u), UserStep(u), UNCHANGED world
    PROVE  Covered(u)'
  <1>0. /\ items' = items /\ late' = late
        /\ \A i \in items : i.topic \in Modes /\ i.date \in Nat
        /\ \A m \in Modes : stats[u][m] \in Nat /\ NoJob.old[m] = Never
    <2>1. \A t \in Time : t \in Nat
      BY SavedUsersAssumption DEF Time
    <2>2. items' = items /\ late' = late
      BY DEF world
    <2>3. \A i \in items : i.topic \in Modes /\ i.date \in Nat
      BY <2>1 DEF TypeOK, Item
    <2>4. \A m \in Modes : stats[u][m] \in Nat
      BY <2>1 DEF TypeOK, TableTypeOK
    <2>5. NoJob.old = NoStats /\ \A m \in Modes : NoStats[m] = Never
      BY DEF NoJob, NoStats
    <2> QED BY <2>2, <2>3, <2>4, <2>5
  <1>n. CASE job'[u] = NoJob
    BY <1>0, <1>n DEF Covered
  <1>1. CASE JobKept(u)
    BY <1>0, <1>1 DEF Covered, JobKept
  <1>2. CASE CopyKept(u) /\ job'[u].new = job[u].new /\ job[u].found \subseteq job'[u].found
    BY <1>0, <1>2 DEF Covered, CopyKept
  <1>3. CASE Listed(u)
    <2>1. CASE job'[u].old = NoStats
      BY <1>0, <2>1 DEF Covered, NoStats
    <2> QED BY <1>n, <1>3, <2>1 DEF Listed
  <1>4. CASE Copied(u)
    <2>1. CASE job'[u].old = stats[u] /\ job'[u].new = stats[u]
      BY <1>0, <2>1 DEF Covered
    <2> QED BY <1>n, <1>4, <2>1 DEF Copied
  <1>5. CASE Fetches(u)
    <2> DEFINE m == ModeOrder[job[u].next]
               top == IF job[u].old[m] = Never THEN {}
                      ELSE Reported("top", job[u].acct, {m}, job[u].old[m], job[u].now)
    <2>1. /\ job'[u].old = job[u].old /\ job'[u].acct = job[u].acct
          /\ \A n \in Modes : job'[u].new[n] = IF n = m THEN job[u].now ELSE job[u].new[n]
          /\ job'[u].found = job[u].found \cup top
      BY <1>5 DEF Fetches, CopyKept
    <2> SUFFICES ASSUME NEW i \in items,
                        i.feed = "top", i.acct = job[u].acct, job[u].old[i.topic] # Never,
                        job[u].old[i.topic] < i.date, i.date <= job'[u].new[i.topic],
                        <<u, i>> \notin late
                 PROVE  i \in job'[u].found
      BY <1>0, <2>1 DEF Covered
    <2>2. CASE i.topic = m
      <3> HIDE DEF m
      <3>1. top = Reported("top", job[u].acct, {m}, job[u].old[m], job[u].now)
        BY <2>2
      <3>2. i.date <= job[u].now
        BY <1>0, <2>1, <2>2
      <3> HIDE DEF top
      <3>3. i \in Reported("top", job[u].acct, {m}, job[u].old[m], job[u].now)
        BY <2>2, <3>2 DEF Reported, IsAnnounceableDate
      <3> QED BY <2>1, <3>1, <3>3
    <2>3. CASE i.topic # m
      <3> HIDE DEF m, top
      <3>1. i.date <= job[u].new[i.topic]
        BY <1>0, <2>1, <2>3
      <3>2. i \in job[u].found
        BY <3>1 DEF Covered
      <3> QED BY <2>1, <3>2
    <2> QED BY <2>2, <2>3
  <1>6. CASE Fails(u)
    BY <1>2, <1>6 DEF Fails
  <1>7. CASE Hears(u)
    BY <1>2, <1>7 DEF Hears
  <1>8. CASE Begins(u)
    BY <1>n, <1>2, <1>8 DEF Begins
  <1> QED BY <1>n, <1>1, <1>3, <1>4, <1>5, <1>6, <1>7, <1>8
          DEF UserStep, Untouched, Saved, Removed, Stores, Drops, Takes

LEMMA NoGapStep ==
    ASSUME TypeOK, TypeOK', Progress, NEW u \in Users, Fresh(u), NoRow(u), Covered(u), NoGap(u),
           UserStep(u), UNCHANGED world
    PROVE  NoGap(u)'
  <1>0. /\ items' = items /\ late' = late
        /\ \A i \in items : i \in Item /\ i.topic \in Modes /\ i.date \in Time /\ i.acct \in Accounts
        /\ \A m \in Modes : /\ stats[u][m] \in Time /\ stats'[u][m] \in Time
                            /\ job[u].old[m] \in Time /\ job[u].new[m] \in Time
        /\ \A t \in Time : t \in Nat
        /\ epoch[u] \in 0..MaxLinks
    <2>1. items' = items /\ late' = late
      BY DEF world
    <2>2. \A m \in Modes : stats'[u][m] \in Time
      BY DEF TypeOK, TableTypeOK
    <2> QED BY <2>1, <2>2, UserTypes
  <1>1. ASSUME NEW i \in items, NEW e \in 0..MaxLinks, <<u, i, e>> \in sent
        PROVE  <<u, i, e>> \in sent'
    BY <1>0, <1>1 DEF UserStep, Untouched, Saved, Removed, Listed, Copied, Begins, Fetches,
                      Fails, Hears, Stores, Drops, Takes, Handed
  <1>2. CASE RowKept(u) /\ baseline'[u] = baseline[u] /\ mishaps[u] \subseteq mishaps'[u]
    BY <1>0, <1>1, <1>2 DEF NoGap, RowKept
  <1>3. CASE Saved(u)
    BY <1>0, <1>3 DEF NoGap, Saved
  <1>4. CASE Removed(u)
    BY <1>0, <1>4, SavedUsersAssumption DEF NoGap, Removed
  <1>5. CASE Stores(u)
    <2> SUFFICES ASSUME NEW i \in items,
                        i.feed = "top", i.acct = job[u].acct, "resaved" \notin mishaps[u],
                        i.date > baseline'[u][i.topic], i.date <= stats'[u][i.topic],
                        <<u, i>> \notin late
                 PROVE  \E e \in 0..MaxLinks : <<u, i, e>> \in sent'
      BY <1>0, <1>5 DEF NoGap, Stores
    <2> DEFINE m == i.topic
    <2>0. m \in Modes /\ i.date \in Time /\ i \in Item
      BY <1>0
    <2>1. /\ stats'[u][m] = Seconds(job[u].new[m])
          /\ baseline'[u][m] = IF Never \in {job[u].old[m], stats[u][m]}
                               THEN Seconds(job[u].new[m]) ELSE baseline[u][m]
          /\ link[u] \in {NoAccount, job[u].acct}
          /\ job[u].phase = "save" /\ Handed(u, job[u].found)
      BY <1>5, <2>0 DEF Stores
    <2>2. job[u].old[m] # Never /\ stats[u][m] # Never /\ baseline'[u][m] = baseline[u][m]
      BY <1>0, <2>0, <2>1
    <2>3. link[u] # NoAccount
      BY <2>0, <2>2 DEF NoRow, NoStats
    <2>4. link[u] = job[u].acct /\ job[u].old = stats[u]
      BY <2>1, <2>3 DEF Fresh, AtWork
    <2>5. CASE i.date <= stats[u][m]
      <3>1. \E e \in 0..MaxLinks : <<u, i, e>> \in sent
        BY <2>2, <2>4, <2>5 DEF NoGap
      <3> QED BY <1>1, <3>1
    <2>6. CASE job[u].old[m] < i.date
      <3>1. Seconds(job[u].new[m]) \in Time /\ Seconds(job[u].new[m]) <= job[u].new[m]
        BY <1>0, <2>0, SecondsKeepsDates
      <3>2. i.date <= job[u].new[m]
        BY <1>0, <2>0, <2>1, <3>1
      <3>3. i \in job[u].found
        BY <2>2, <2>6, <3>2 DEF Covered
      <3>4. <<u, i, epoch[u]>> \in sent'
        BY <1>0, <2>0, <2>1, <3>3 DEF Handed
      <3> QED BY <1>0, <3>4
    <2> QED BY <1>0, <2>0, <2>4, <2>5, <2>6
  <1> QED BY <1>2, <1>3, <1>4, <1>5
          DEF UserStep, Untouched, Listed, Copied, Begins, Fetches, Fails, Hears, Drops, Takes,
              HistoryKept

(* What happens too late for an update is late; the rest is ahead of it.   *)
LEMMA WorldKeepsGaps ==
    ASSUME TypeOK, NEW u \in Users, Covered(u), NoGap(u), Untouched(u), World
    PROVE  Covered(u)' /\ NoGap(u)'
  <1>0. /\ job'[u] = job[u] /\ link'[u] = link[u] /\ stats'[u] = stats[u]
        /\ baseline'[u] = baseline[u] /\ mishaps'[u] = mishaps[u]
    BY DEF Untouched, JobKept, RowKept, HistoryKept
  <1>1. sent' = sent
    BY DEF World, Tick, Happen, history
  <1>2. CASE Tick
    BY <1>0, <1>1, <1>2 DEF Tick, Covered, NoGap
  <1>3. ASSUME NEW f \in Feeds, NEW a \in Accounts, NEW m \in Modes, Happen(f, a, m)
        PROVE  Covered(u)' /\ NoGap(u)'
    <2> DEFINE i == [feed |-> f, acct |-> a, topic |-> m, date |-> Seconds(clock + 1)]
    <2>1. /\ items' = items \cup {i} /\ late \subseteq late'
          /\ (i \notin items /\ (i.date <= stats[u][m] \/ i.date <= job[u].new[m]))
                => <<u, i>> \in late'
      BY <1>3 DEF Happen
    <2>2. i.topic = m
      OBVIOUS
    <2> HIDE DEF i
    <2>3. ASSUME NEW k \in items', k \notin items, <<u, k>> \notin late'
          PROVE  /\ ~ (k.date <= stats[u][k.topic])
                 /\ ~ (k.date <= job[u].new[k.topic])
      BY <2>1, <2>2, <2>3
    <2>4. Covered(u)'
      BY <1>0, <2>1, <2>3 DEF Covered
    <2>5. NoGap(u)'
      BY <1>0, <1>1, <2>1, <2>3 DEF NoGap
    <2> QED BY <2>4, <2>5
  <1> QED BY <1>2, <1>3 DEF World

LEMMA InitGapsInv == Init => GapsInv
  <1> SUFFICES ASSUME Init, NEW u \in Users
               PROVE  NoRow(u) /\ Covered(u) /\ NoGap(u)
    BY DEF GapsInv
  <1>1. items = {}
    BY DEF Init
  <1>2. NoRow(u)
    BY DEF Init, TableInit, NoRow
  <1> QED BY <1>1, <1>2 DEF Covered, NoGap

LEMMA NextGapsInv ==
    ASSUME IInv, IInv', Asleep, CopyInv, GapsInv, [Next]_vars
    PROVE  GapsInv'
  <1>0. TypeOK /\ Progress /\ TypeOK'
    BY DEF IInv
  <1>1. CASE World /\ \A u \in Users : Untouched(u)
    <2>1. \A u \in Users : Covered(u)' /\ NoGap(u)'
      BY <1>0, <1>1, WorldKeepsGaps DEF GapsInv
    <2>2. \A u \in Users : NoRow(u)'
      BY <1>1 DEF GapsInv, NoRow, Untouched, RowKept
    <2> QED BY <2>1, <2>2 DEF GapsInv
  <1>2. CASE UNCHANGED world /\ \A u \in Users : UserStep(u)
    BY <1>0, <1>2, NoRowStep, CoveredStep, NoGapStep DEF GapsInv, CopyInv
  <1> QED BY <1>1, <1>2, StepsOfUsers

(* No best score is passed over by the updates of a user's modes, whatever *)
(* fetches fail, stores are lost, savings interfere or the bot does        *)
(* between two scans, except those set within the second of an update that *)
(* had already moved past it (update_user, is_announceable_date).          *)
THEOREM NoScoreIsSkipped == Spec => []NoTopScoreSkipped
  <1>1. GapsInv => NoTopScoreSkipped
    BY DEF GapsInv, NoGap, NoTopScoreSkipped
  <1>2. IInv /\ IInv' /\ Asleep /\ CopyInv /\ GapsInv /\ [Next]_vars => GapsInv'
    BY NextGapsInv
  <1> QED BY <1>1, <1>2, InitGapsInv, SpecCopyInv, PTL DEF Spec

-----------------------------------------------------------------------------
(* RepeatsInv *)

NoRepeat(u) ==
    \A i \in Item, e \in 0..MaxLinks :
        <<u, i, e>> \in resent =>
            /\ i.feed # "top"
            /\ i.feed = "rank" => mishaps[u] \cap {"fetch", "torn"} # {}
            /\ i.feed = "map" => mishaps[u] # {}

(* What is handed over since the last saving, after a step.                *)
LEMMA SentNowStep ==
    ASSUME TypeOK, TypeOK', Dated, NEW u \in Users
    PROVE  /\ \A its : Handed(u, its) /\ epoch'[u] = epoch[u]
                          => SentNow(u)' = SentNow(u) \cup (its \cap Item)
           /\ Saved(u) => SentNow(u)' = {}
  <1>1. ASSUME NEW its, Handed(u, its), epoch'[u] = epoch[u]
        PROVE  SentNow(u)' = SentNow(u) \cup (its \cap Item)
    <2>1. epoch[u] \in 0..MaxLinks
      BY UserTypes
    <2> QED BY <1>1, <2>1 DEF SentNow, Handed
  <1>2. ASSUME Saved(u)
        PROVE  SentNow(u)' = {}
    <2>1. epoch[u] \in Nat /\ epoch'[u] = epoch[u] + 1 /\ epoch'[u] \in 0..MaxLinks
      BY <1>2, AnnouncerAssumption DEF Saved, TypeOK
    <2>2. \A i \in Item : <<u, i, epoch'[u]>> \notin sent
      BY <2>1 DEF Dated
    <2>3. \A i \in Item : <<u, i, epoch'[u]>> \notin sent'
      BY <1>2, <2>1, <2>2 DEF Saved, Handed
    <2> QED BY <2>3 DEF SentNow
  <1> QED BY <1>1, <1>2

(* What is handed over is an item of the world.                            *)
LEMMA SentIsDated ==
    ASSUME TypeOK, Dated, NEW u \in Users, NEW i \in EverSent(u) \cup mapping[u] \cup job[u].found
    PROVE  i \in items /\ i \in Item /\ Seconds(i.date) = i.date
  <1>1. i \in items
    BY DEF Dated, EverSent
  <1> QED BY <1>1 DEF Dated, TypeOK

LEMMA SentNowIsSent ==
    ASSUME TypeOK, NEW u \in Users
    PROVE  SentNow(u) \subseteq EverSent(u) /\ SentNow(u) \subseteq Item
  BY UserTypes DEF SentNow, EverSent

(* A date that an update has moved a mode past stays behind it when the    *)
(* row is stored in whole seconds.                                         *)
LEMMA StoredBehind ==
    ASSUME TypeOK, Dated, NEW u \in Users, NEW i \in EverSent(u) \cup mapping[u] \cup job[u].found,
           NEW t \in Time, i.date <= t
    PROVE  i.date <= Seconds(t)
  <1>1. Seconds(i.date) = i.date /\ i.date \in Time
    BY SentIsDated, UserTypes
  <1> QED BY <1>1, SecondsKeepsDates

LEMMA TopsStep ==
    ASSUME TypeOK, TypeOK', Collected, Dated, NEW u \in Users, InWindow(u), Heard(u),
           TopsBehind(u), UserStep(u)
    PROVE  TopsBehind(u)'
  <1> USE DEF AtWork
  <1>0. NoJob.phase = "off" /\ NoStats \in [Modes -> Time] /\ \A m \in Modes : NoStats[m] = Never
    BY NothingType DEF NoJob, NoStats
  <1>t. \A i \in Item : i.topic \in Modes
    BY UserTypes
  <1>s. /\ Handed(u, {}) /\ epoch'[u] = epoch[u] => SentNow(u)' = SentNow(u)
        /\ \A i \in SentNow(u)' : i \in Item
    BY SentNowStep DEF SentNow
  <1>1. CASE /\ RowKept(u) /\ SentNow(u)' = SentNow(u)
             /\ job'[u].phase \in AtWork => job[u].phase \in AtWork /\ job'[u].old = job[u].old
    BY <1>1 DEF TopsBehind, RowKept
  <1>2. CASE Saved(u)
    <2>1. SentNow(u)' = {}
      BY <1>2, SentNowStep
    <2> QED BY <2>1 DEF TopsBehind
  <1>3. CASE Removed(u)
    <2>1. /\ stats'[u] = NoStats /\ job'[u] = job[u] /\ SentNow(u)' = SentNow(u)
      BY <1>3, <1>s DEF Removed, JobKept, HistoryKept
    <2> QED BY <1>0, <1>t, <1>s, <2>1 DEF TopsBehind
  <1>4. CASE Copied(u)
    <2>1. CASE job'[u] = NoJob
      BY <1>0, <1>1, <1>4, <1>s, <2>1 DEF Copied
    <2>2. CASE job'[u].old = stats[u]
      <3>1. stats'[u] = stats[u] /\ SentNow(u)' = SentNow(u)
        BY <1>4, <1>s DEF Copied, RowKept
      <3> QED BY <2>2, <3>1 DEF TopsBehind
    <2> QED BY <1>4, <2>1, <2>2 DEF Copied
  <1>5. CASE Stores(u)
    <2>1. SentNow(u)' = SentNow(u) \cup job[u].found
      BY <1>5, SentNowStep, UserTypes DEF Stores
    <2>2. job'[u].phase = "off" /\ job[u].phase = "save"
      BY <1>0, <1>5 DEF Stores
    <2>3. ASSUME NEW i \in SentNow(u) \cup job[u].found, i.feed = "top"
          PROVE  stats'[u][i.topic] = Never \/ i.date <= stats'[u][i.topic]
      <3> DEFINE m == i.topic
      <3>0. i \in Item /\ m \in Modes /\ i \in EverSent(u) \cup mapping[u] \cup job[u].found
        <4>1. i \in Item
          BY UserTypes, SentNowIsSent
        <4>2. i \in EverSent(u) \cup mapping[u] \cup job[u].found
          BY SentNowIsSent
        <4> QED BY <1>t, <4>1, <4>2
      <3>1. /\ job[u].new[m] \in Time /\ job[u].old[m] \in Time /\ job[u].now \in Time
            /\ stats'[u][m] = Seconds(job[u].new[m])
            /\ job[u].new[m] \in {job[u].old[m], job[u].now}
        BY <3>0, <1>5, UserTypes DEF Stores, InWindow
      <3>2. CASE i.date <= job[u].new[m]
        BY <3>0, <3>1, <3>2, StoredBehind
      <3>3. CASE i \in job[u].found
        <4>1. i.date <= job[u].new[m]
          BY <3>3, <2>3 DEF InWindow
        <4> QED BY <4>1, <3>2
      <3>4. CASE i \in SentNow(u)
        <4>1. job[u].old[m] = Never \/ i.date <= job[u].old[m]
          BY <3>4, <2>2, <2>3 DEF TopsBehind
        <4>2. i.date <= job[u].now
          BY <3>4, <2>2, SentNowIsSent DEF Heard, Begun
        <4>3. CASE job[u].new[m] = job[u].now
          BY <3>2, <4>2, <4>3
        <4>4. CASE job[u].new[m] = job[u].old[m] /\ job[u].old[m] = Never
          BY <3>1, <4>4, SecondsKeepsDates
        <4>5. CASE job[u].new[m] = job[u].old[m] /\ i.date <= job[u].old[m]
          BY <3>2, <4>5
        <4> QED BY <3>1, <4>1, <4>3, <4>4, <4>5
      <3> QED BY <3>3, <3>4
    <2> QED BY <2>1, <2>2, <2>3 DEF TopsBehind
  <1>6. CASE Takes(u)
    <2>1. \A i \in SentNow(u)' : i \in SentNow(u) \/ i.feed = "map"
      <3>1. NewestPerTopic(mapping[u]) \subseteq mapping[u]
        BY DEF NewestPerTopic
      <3>2. SentNow(u)' \subseteq SentNow(u) \cup mapping[u]
        BY <1>6, <3>1, SentNowStep DEF Takes, HistoryKept
      <3> QED BY <3>2 DEF Collected
    <2> QED BY <1>6, <2>1 DEF TopsBehind, Takes, RowKept, JobKept
  <1>7. CASE Listed(u)
    BY <1>0, <1>1, <1>7, <1>s DEF Listed, HistoryKept
  <1>8. CASE Begins(u)
    BY <1>0, <1>1, <1>8, <1>s DEF Begins, HistoryKept, CopyKept
  <1>9. CASE Fetches(u)
    BY <1>1, <1>9, <1>s DEF Fetches, HistoryKept, CopyKept
  <1>10. CASE Fails(u)
    BY <1>1, <1>10, <1>s DEF Fails, CopyKept
  <1>11. CASE Hears(u)
    BY <1>1, <1>11, <1>s DEF Hears, HistoryKept, CopyKept
  <1>12. CASE Drops(u)
    BY <1>0, <1>1, <1>12, <1>s DEF Drops
  <1>13. CASE Untouched(u)
    BY <1>1, <1>13, <1>s DEF Untouched, HistoryKept, JobKept
  <1> QED BY <1>2, <1>3, <1>4, <1>5, <1>6, <1>7, <1>8, <1>9, <1>10, <1>11, <1>12, <1>13
          DEF UserStep

LEMMA RanksStep ==
    ASSUME TypeOK, TypeOK', Progress, Collected, Dated, NEW u \in Users, InWindow(u), Visited(u),
           Heard(u), RanksBehind(u), UserStep(u)
    PROVE  RanksBehind(u)'
  <1> USE DEF AtWork
  <1>0. NoJob.phase = "off"
    BY DEF NoJob
  <1>s. /\ Handed(u, {}) /\ epoch'[u] = epoch[u] => SentNow(u)' = SentNow(u)
        /\ \A i \in SentNow(u)' : i \in Item
    BY SentNowStep DEF SentNow
  <1>1. CASE /\ RowKept(u) /\ SentNow(u)' = SentNow(u) /\ mishaps[u] \subseteq mishaps'[u]
             /\ job'[u].phase \in AtWork => job[u].phase \in AtWork /\ job'[u].old = job[u].old
    BY <1>1 DEF RanksBehind, RowKept
  <1>2. CASE Saved(u)
    <2>1. SentNow(u)' = {}
      BY <1>2, SentNowStep
    <2> QED BY <2>1 DEF RanksBehind
  <1>3. CASE Removed(u)
    <2>1. /\ link'[u] = NoAccount /\ job'[u] = job[u] /\ SentNow(u)' = SentNow(u)
          /\ mishaps'[u] = mishaps[u]
      BY <1>3, <1>s DEF Removed, JobKept, HistoryKept
    <2> QED BY <2>1 DEF RanksBehind
  <1>4. CASE Copied(u)
    <2>1. CASE job'[u] = NoJob /\ mishaps'[u] = mishaps[u]
      BY <1>0, <1>1, <1>4, <1>s, <2>1 DEF Copied
    <2>2. CASE /\ job[u].phase = "listed" /\ job'[u].old = stats[u]
               /\ mishaps'[u] = mishaps[u] \cup (IF link[u] # job[u].acct THEN {"torn"} ELSE {})
      <3>1. stats'[u] = stats[u] /\ link'[u] = link[u] /\ SentNow(u)' = SentNow(u)
        BY <1>4, <1>s DEF Copied, RowKept
      <3>2. "torn" \notin mishaps'[u] => link[u] # NoAccount
        BY <2>2, SavedUsersAssumption DEF Progress
      <3>3. mishaps[u] \subseteq mishaps'[u]
        BY <2>2
      <3> QED BY <2>2, <3>1, <3>2, <3>3 DEF RanksBehind
    <2> QED BY <1>4, <2>1, <2>2 DEF Copied
  <1>5. CASE Stores(u)
    <2>1. SentNow(u)' = SentNow(u) \cup job[u].found
      BY <1>5, SentNowStep, UserTypes DEF Stores
    <2>2. job'[u].phase = "off" /\ job[u].phase = "save" /\ mishaps'[u] = mishaps[u]
      BY <1>0, <1>5 DEF Stores
    <2>3. ASSUME NEW i \in SentNow(u) \cup job[u].found, "fetch" \notin mishaps[u]
          PROVE  i.date <= stats'[u][i.topic]
      <3>1. i \in Item /\ i \in EverSent(u) \cup mapping[u] \cup job[u].found
        <4>1. i \in Item
          BY UserTypes, SentNowIsSent
        <4>2. i \in EverSent(u) \cup mapping[u] \cup job[u].found
          BY SentNowIsSent
        <4> QED BY <4>1, <4>2
      <3>2. i.topic \in Modes /\ job[u].now \in Time
        BY <3>1, UserTypes
      <3>3. stats'[u][i.topic] = Seconds(job[u].now)
        BY <1>5, <2>2, <2>3, <3>2 DEF Stores, Visited
      <3>4. i.date <= job[u].now
        <4>1. CASE i \in job[u].found
          BY <4>1 DEF InWindow
        <4>2. CASE i \in SentNow(u)
          BY <4>2, <2>2, SentNowIsSent DEF Heard, Begun
        <4> QED BY <4>1, <4>2
      <3> QED BY <3>1, <3>2, <3>3, <3>4, StoredBehind
    <2> QED BY <2>1, <2>2, <2>3 DEF RanksBehind
  <1>6. CASE Takes(u)
    <2>1. \A i \in SentNow(u)' : i \in SentNow(u) \/ i.feed = "map"
      <3>1. NewestPerTopic(mapping[u]) \subseteq mapping[u]
        BY DEF NewestPerTopic
      <3>2. SentNow(u)' \subseteq SentNow(u) \cup mapping[u]
        BY <1>6, <3>1, SentNowStep DEF Takes, HistoryKept
      <3> QED BY <3>2 DEF Collected
    <2> QED BY <1>6, <2>1 DEF RanksBehind, Takes, RowKept, JobKept, HistoryKept
  <1>7. CASE Listed(u)
    BY <1>0, <1>1, <1>7, <1>s DEF Listed, HistoryKept
  <1>8. CASE Begins(u)
    BY <1>0, <1>1, <1>8, <1>s DEF Begins, HistoryKept, CopyKept
  <1>9. CASE Fetches(u)
    BY <1>1, <1>9, <1>s DEF Fetches, HistoryKept, CopyKept
  <1>10. CASE Fails(u)
    BY <1>1, <1>10, <1>s DEF Fails, CopyKept
  <1>11. CASE Hears(u)
    BY <1>1, <1>11, <1>s DEF Hears, HistoryKept, CopyKept
  <1>12. CASE Drops(u)
    BY <1>0, <1>1, <1>12, <1>s DEF Drops
  <1>13. CASE Untouched(u)
    BY <1>1, <1>13, <1>s DEF Untouched, HistoryKept, JobKept
  <1> QED BY <1>2, <1>3, <1>4, <1>5, <1>6, <1>7, <1>8, <1>9, <1>10, <1>11, <1>12, <1>13
          DEF UserStep

LEMMA MapsStep ==
    ASSUME TypeOK, TypeOK', Progress, Collected, Dated, NEW u \in Users, Fresh(u), InWindow(u),
           Visited(u), Heard(u), MapsBehind(u), UserStep(u)
    PROVE  MapsBehind(u)'
  <1>0. NoJob.phase = "off"
    BY DEF NoJob
  <1>s. /\ Handed(u, {}) /\ epoch'[u] = epoch[u] => SentNow(u)' = SentNow(u)
        /\ \A i \in SentNow(u)' : i \in Item
    BY SentNowStep DEF SentNow
  <1>n. CASE mishaps'[u] # {}
    BY <1>n DEF MapsBehind
  <1>1. CASE /\ RowKept(u) /\ SentNow(u)' = SentNow(u) /\ mishaps'[u] = mishaps[u]
             /\ mapping'[u] \subseteq mapping[u]
             /\ job'[u].phase \in {"off", "listed"} => job[u].phase \in {"off", "listed"}
             /\ job'[u].phase \in {"queued", "modes", "events"} =>
                   /\ job[u].phase \in {"queued", "modes", "events"}
                   /\ job'[u].old = job[u].old
    BY <1>1 DEF MapsBehind, RowKept
  <1>2. CASE Saved(u)
    <2>1. SentNow(u)' = {}
      BY <1>2, SentNowStep
    <2>2. mishaps'[u] = {} => mapping'[u] = {}
      BY <1>2 DEF Saved, MapKept
    <2> QED BY <2>1, <2>2 DEF MapsBehind
  <1>3. CASE Removed(u)
    <2>1. /\ link'[u] = NoAccount /\ job'[u] = job[u] /\ SentNow(u)' = SentNow(u)
          /\ mishaps'[u] = mishaps[u] /\ mapping'[u] = mapping[u]
      BY <1>3, <1>s DEF Removed, JobKept, MapKept, HistoryKept
    <2> QED BY <2>1 DEF MapsBehind
  <1>4. CASE Copied(u)
    <2>1. CASE job[u].phase = "off" /\ job'[u] = NoJob /\ mishaps'[u] = mishaps[u]
      BY <1>0, <1>1, <1>4, <1>s, <2>1 DEF Copied, MapKept
    <2>2. CASE /\ job[u].phase = "listed" /\ job'[u].phase = "queued" /\ job'[u].old = stats[u]
               /\ mishaps'[u] = mishaps[u] \cup (IF link[u] # job[u].acct THEN {"torn"} ELSE {})
      <3>1. SentNow(u)' = SentNow(u) /\ mapping'[u] = mapping[u]
        BY <1>4, <1>s DEF Copied, MapKept
      <3>2. mishaps'[u] = {} => link[u] # NoAccount /\ mishaps[u] = {}
        BY <2>2, SavedUsersAssumption DEF Progress
      <3> QED BY <2>2, <3>1, <3>2 DEF MapsBehind
    <2> QED BY <1>4, <2>1, <2>2 DEF Copied
  <1>5. CASE Stores(u)
    <2>1. SentNow(u)' = SentNow(u) \cup job[u].found
      BY <1>5, SentNowStep, UserTypes DEF Stores
    <2>2. /\ job'[u].phase = "off" /\ job[u].phase = "save" /\ mishaps'[u] = mishaps[u]
          /\ mapping'[u] = mapping[u]
      BY <1>0, <1>5 DEF Stores, MapKept
    <2>3. \A i \in job[u].found : i.feed # "map" /\ i \notin mapping[u]
      BY DEF Collected
    <2>4. ASSUME mishaps[u] = {}, NEW i \in mapping[u] \cup SentNow(u)
          PROVE  i.date <= LatestOf(stats'[u])
      <3>1. i \in EverSent(u) \cup mapping[u] \cup job[u].found
        BY SentNowIsSent
      <3>2. job[u].now \in Time /\ Seconds(job[u].now) \in Time
        BY UserTypes, SecondsKeepsDates
      <3>3. i.date <= job[u].now
        BY <2>2, <2>4, SentNowIsSent DEF Heard, Begun
      <3>4. \A m \in Modes : stats'[u][m] = Seconds(job[u].now)
        BY <1>5, <2>2, <2>4 DEF Stores, Visited
      <3>5. stats'[u] \in [Modes -> Time]
        BY DEF TypeOK, TableTypeOK
      <3>6. LatestOf(stats'[u]) = Seconds(job[u].now)
        BY <3>2, <3>4, <3>5, LatestOfSame
      <3> QED BY <3>1, <3>2, <3>3, <3>6, StoredBehind
    <2> QED BY <2>1, <2>2, <2>3, <2>4 DEF MapsBehind
  <1>6. CASE Takes(u)
    <2>1. NewestPerTopic(mapping[u]) \subseteq mapping[u]
      BY DEF NewestPerTopic
    <2>2. SentNow(u)' \subseteq SentNow(u) \cup mapping[u]
      BY <1>6, <2>1, SentNowStep DEF Takes, HistoryKept
    <2> QED BY <1>6, <2>2 DEF MapsBehind, Takes, RowKept, JobKept, HistoryKept
  <1>7. CASE Listed(u)
    BY <1>0, <1>1, <1>7, <1>s DEF Listed, HistoryKept, MapKept
  <1>8. CASE Begins(u)
    <2>1. CASE job'[u] = NoJob
      <3>1. /\ SentNow(u)' = SentNow(u) /\ mishaps'[u] = mishaps[u] /\ mapping'[u] = mapping[u]
            /\ link'[u] = link[u] /\ stats'[u] = stats[u] /\ job[u].phase = "queued"
        BY <1>8, <1>s DEF Begins, HistoryKept, MapKept, RowKept
      <3>2. mishaps[u] = {} /\ link[u] # NoAccount => job[u].old = stats[u]
        BY <3>1 DEF Fresh, AtWork
      <3> QED BY <1>0, <2>1, <3>1, <3>2 DEF MapsBehind
    <2>2. CASE job'[u] # NoJob
      BY <1>1, <1>8, <1>s, <2>2 DEF Begins, HistoryKept, CopyKept, MapKept
    <2> QED BY <2>1, <2>2
  <1>9. CASE Fetches(u)
    BY <1>1, <1>9, <1>s DEF Fetches, HistoryKept, CopyKept, MapKept
  <1>10. CASE Fails(u)
    BY <1>n, <1>10 DEF Fails
  <1>11. CASE Hears(u)
    <2> DEFINE maps == Reported("map", job[u].acct, Modes, LatestOf(job[u].old), job[u].now)
    <2>1. /\ job[u].phase = "events" /\ job'[u].phase = "save" /\ SentNow(u)' = SentNow(u)
          /\ mapping'[u] \subseteq mapping[u] \cup maps /\ mishaps'[u] = mishaps[u]
      BY <1>11, <1>s DEF Hears, HistoryKept, MapKept
    <2>2. ASSUME mishaps[u] = {}, NEW i \in maps
          PROVE  i \notin SentNow(u)
      <3>1. i.feed = "map" /\ i.date > LatestOf(job[u].old) /\ i \in items
        BY DEF Reported, IsAnnounceableDate
      <3>2. i.date \in Nat /\ LatestOf(job[u].old) \in Nat
        BY <3>1, UserTypes, LatestIsLatest
      <3>3. i \in SentNow(u) => i.date <= LatestOf(job[u].old)
        BY <2>1, <2>2, <3>1 DEF MapsBehind
      <3> QED BY <3>1, <3>2, <3>3
    <2> HIDE DEF maps
    <2> QED BY <2>1, <2>2 DEF MapsBehind
  <1>12. CASE Drops(u)
    <2>1. CASE job[u].phase = "off"
      BY <1>0, <1>1, <1>12, <1>s, <2>1 DEF Drops
    <2>2. CASE job[u].phase # "off"
      BY <1>n, <1>12, <2>2 DEF Drops
    <2> QED BY <2>1, <2>2
  <1>13. CASE Untouched(u)
    BY <1>1, <1>13, <1>s DEF Untouched, HistoryKept, JobKept, MapKept
  <1> QED BY <1>2, <1>3, <1>4, <1>5, <1>6, <1>7, <1>8, <1>9, <1>10, <1>11, <1>12, <1>13
          DEF UserStep

LEMMA RepeatStep ==
    ASSUME TypeOK, Collected, NEW u \in Users, InWindow(u),
           TopsBehind(u), RanksBehind(u), MapsBehind(u), NoRepeat(u), UserStep(u)
    PROVE  NoRepeat(u)'
  <1>1. mishaps[u] \subseteq mishaps'[u]
    BY DEF UserStep, Untouched, Saved, Removed, Listed, Copied, Begins, Fetches, Fails, Hears,
           Stores, Drops, Takes, HistoryKept
  <1>2. CASE Handed(u, {})
    BY <1>1, <1>2 DEF NoRepeat, Handed
  <1>3. CASE Stores(u)
    <2>1. ASSUME NEW i \in job[u].found, i \in SentNow(u)
          PROVE  i.feed = "rank" /\ mishaps[u] \cap {"fetch", "torn"} # {}
      <3>1. /\ i.topic \in Modes /\ i.date \in Nat /\ job[u].old[i.topic] \in Nat
            /\ job[u].phase = "save"
        BY <1>3, <2>1, SentNowIsSent, UserTypes DEF Stores
      <3>2. job[u].old[i.topic] < i.date
        BY DEF InWindow
      <3>3. i.feed # "top"
        <4>1. i.feed = "top" => job[u].old[i.topic] # Never
          BY DEF InWindow
        <4>2. i.feed = "top" => job[u].old[i.topic] = Never \/ i.date <= job[u].old[i.topic]
          BY <2>1, <3>1 DEF TopsBehind, AtWork
        <4> QED BY <3>1, <3>2, <4>1, <4>2
      <3>4. i.feed = "rank"
        BY <3>3 DEF Collected
      <3>5. mishaps[u] \cap {"fetch", "torn"} = {} => i.date <= job[u].old[i.topic]
        BY <2>1, <3>1, <3>4 DEF RanksBehind, AtWork
      <3> QED BY <3>1, <3>2, <3>4, <3>5
    <2>2. \A i \in Item, e \in 0..MaxLinks :
             <<u, i, e>> \in resent' =>
                 <<u, i, e>> \in resent \/ (i \in job[u].found /\ i \in SentNow(u))
      BY <1>3 DEF Stores, Handed, SentNow
    <2> QED BY <1>1, <2>1, <2>2 DEF NoRepeat
  <1>4. CASE Takes(u) /\ Handed(u, NewestPerTopic(mapping[u]))
    <2>1. NewestPerTopic(mapping[u]) \subseteq mapping[u]
      BY DEF NewestPerTopic
    <2>2. \A i \in Item, e \in 0..MaxLinks :
             <<u, i, e>> \in resent' =>
                 <<u, i, e>> \in resent \/ (i \in mapping[u] /\ i \in SentNow(u))
      BY <1>4, <2>1 DEF Handed, SentNow
    <2>3. \A i \in mapping[u] : i.feed = "map" /\ (i \in SentNow(u) => mishaps[u] # {})
      BY DEF Collected, MapsBehind
    <2> QED BY <1>1, <2>2, <2>3 DEF NoRepeat
  <1> QED BY <1>2, <1>3, <1>4
          DEF UserStep, Untouched, Saved, Removed, Listed, Copied, Begins, Fetches, Fails, Hears,
              Drops, Takes

Repeats == \A u \in Users :
              TopsBehind(u) /\ RanksBehind(u) /\ MapsBehind(u) /\ NoRepeat(u)

(* Repeats is what RepeatsInv says, user by user.                          *)
LEMMA RepeatsSays ==
    ASSUME TypeOK, Repeats
    PROVE  RepeatsInv
  <1>1. \A d \in resent : \E u \in Users, i \in Item, e \in 0..MaxLinks : d = <<u, i, e>>
    BY DEF TypeOK, Delivery
  <1>2. \A i \in Item : i.feed \in {"top", "rank", "map"}
    BY AnnouncerAssumption DEF Item
  <1>3. RepeatsNeedAMishap
    <2> SUFFICES ASSUME NEW d \in resent
                 PROVE  CASE d[2].feed = "top"  -> FALSE
                          [] d[2].feed = "rank" -> mishaps[d[1]] \cap {"fetch", "torn"} # {}
                          [] d[2].feed = "map"  -> mishaps[d[1]] # {}
      BY DEF RepeatsNeedAMishap
    <2>1. PICK u \in Users, i \in Item, e \in 0..MaxLinks : d = <<u, i, e>>
      BY <1>1
    <2>2. /\ i.feed # "top"
          /\ i.feed = "rank" => mishaps[u] \cap {"fetch", "torn"} # {}
          /\ i.feed = "map" => mishaps[u] # {}
      BY <2>1 DEF Repeats, NoRepeat
    <2>3. d[1] = u /\ d[2] = i
      BY <2>1
    <2>4. CASE i.feed = "rank"
      BY <2>2, <2>3, <2>4
    <2>5. CASE i.feed = "map"
      BY <2>2, <2>3, <2>5
    <2> QED BY <1>2, <2>2, <2>4, <2>5
  <1> QED BY <1>3 DEF Repeats, RepeatsInv

LEMMA InitRepeats == Init => Repeats
  <1> SUFFICES ASSUME Init, NEW u \in Users
               PROVE  TopsBehind(u) /\ RanksBehind(u) /\ MapsBehind(u) /\ NoRepeat(u)
    BY DEF Repeats
  <1>1. SentNow(u) = {} /\ mapping[u] = {} /\ resent = {}
    BY DEF Init, SentNow
  <1> QED BY <1>1 DEF TopsBehind, RanksBehind, MapsBehind, NoRepeat

LEMMA NextRepeats ==
    ASSUME IInv, IInv', Asleep, Collected, CopyInv, Repeats, [Next]_vars
    PROVE  Repeats'
  <1>0. TypeOK /\ Progress /\ TypeOK' /\ Dated
    BY DEF IInv, CopyInv
  <1>1. \A u \in Users : UserStep(u)
    BY StepsOfUsers DEF UserStep
  <1> SUFFICES ASSUME NEW u \in Users
               PROVE  TopsBehind(u)' /\ RanksBehind(u)' /\ MapsBehind(u)' /\ NoRepeat(u)'
    BY DEF Repeats
  <1>2. Fresh(u) /\ InWindow(u) /\ Visited(u) /\ Heard(u)
    BY DEF CopyInv
  <1>3. TopsBehind(u) /\ RanksBehind(u) /\ MapsBehind(u) /\ NoRepeat(u)
    BY DEF Repeats
  <1> QED BY <1>0, <1>1, <1>2, <1>3, TopsStep, RanksStep, MapsStep, RepeatStep

(* Within one saving of an account no best score is announced twice, and a *)
(* rank or mapping event only after a mishap that explains it, for any     *)
(* interleaving of the two announcers, savings, removals and crashes       *)
(* (update_user: last_update is taken from the copy, now once).            *)
THEOREM ScoresAreNotRepeated == Spec => []RepeatsNeedAMishap
  <1>1. TypeOK /\ Repeats => RepeatsNeedAMishap
    BY RepeatsSays DEF RepeatsInv
  <1>2. IInv /\ IInv' /\ Asleep /\ Collected /\ CopyInv /\ Repeats /\ [Next]_vars => Repeats'
    BY NextRepeats
  <1> QED BY <1>1, <1>2, InitRepeats, InitCollected, NextCollected, SpecCopyInv, TypeCorrect,
             PTL DEF Spec

=============================================================================
