--------------------------- MODULE OsuSavedUsers ---------------------------
(***************************************************************************)
(* The table of saved osu! users and the transactions the bot runs on it:  *)
(* youmubot-db-sql/src/models/osu_user.rs and the wrapper in               *)
(* youmubot-osu/src/discord/db.rs.  A row links one Discord user to one    *)
(* osu! account; a second table holds, for each osu! mode, the time of the *)
(* last update.  The row of a user is deleted with its modes (ON DELETE    *)
(* CASCADE) and an account belongs to at most one row (UNIQUE).            *)
(*                                                                         *)
(* The modules of the project that use the table EXTEND this one; each     *)
(* transaction is one action, as SQLite makes it.                          *)
(***************************************************************************)
EXTENDS Integers

CONSTANTS
    Users,          \* Discord users
    Accounts,       \* osu! accounts
    NoAccount,      \* "no row": the user is not saved
    Modes,          \* osu! modes
    TicksPerSecond, \* resolution of the bot's clock against stored seconds
    MaxTime,        \* bound on the clock
    MaxFailures     \* MAX_FAILURES of the announcer

ASSUME SavedUsersAssumption ==
    /\ NoAccount \notin Accounts
    /\ TicksPerSecond \in Nat \ {0}
    /\ MaxTime \in Nat
    /\ MaxTime >= TicksPerSecond
    /\ MaxFailures \in Nat \ {0}

VARIABLES
    link,           \* osu_users.id of each Discord user
    failures,       \* osu_users.failures
    stats           \* osu_user_mode_stats.last_update of each user and mode

table == <<link, failures, stats>>

(* A mode without a row has last update Never; instants start at one       *)
(* second, so that every real date is later than Never.                    *)
Never == 0
Time == 0..MaxTime
NoStats == [m \in Modes |-> Never]

(* A variant that rounds up instead of down.                               *)
SecondsRoundedUp(t) == t + (TicksPerSecond - (t % TicksPerSecond))

(* Timestamps are stored in whole seconds.                                 *)
Seconds(t) == t - (t % TicksPerSecond)
InSeconds(st) == [m \in Modes |-> Seconds(st[m])]

TableTypeOK ==
    /\ link \in [Users -> Accounts \cup {NoAccount}]
    /\ failures \in [Users -> 0..MaxFailures]
    /\ stats \in [Users -> [Modes -> Time]]

(* The table a restarted bot may find: a row for some of the users.        *)
TableInit ==
    /\ link \in [Users -> Accounts \cup {NoAccount}]
    /\ \A u, v \in Users : link[u] = link[v] /\ link[u] # NoAccount => u = v
    /\ failures = [u \in Users |-> 0]
    /\ stats = [u \in Users |->
                  IF link[u] = NoAccount THEN NoStats
                  ELSE [m \in Modes |-> Seconds(TicksPerSecond)]]

-----------------------------------------------------------------------------

(* Some other user already holds the account: the UNIQUE index rejects it. *)
HeldByAnother(u, a) == \E v \in Users \ {u} : link[v] = a

(* A variant of store that does not compare the account with the stored    *)
(* one.                                                                    *)
StoreNeverRaced(u, a) == FALSE

(* The three outcomes of OsuUser::store inside a transaction.              *)
StoreRaced(u, a) == link[u] \notin {NoAccount, a}
StoreDuplicate(u, a) == link[u] = NoAccount /\ HeldByAnother(u, a)
StoreAccepted(u, a) == ~StoreRaced(u, a) /\ ~StoreDuplicate(u, a)

(* What a committed transaction leaves: the row is upserted, the mode rows *)
(* are deleted and written again.                                          *)
WriteRow(u, a, f, st) ==
    /\ link' = [link EXCEPT ![u] = a]
    /\ failures' = [failures EXCEPT ![u] = f]
    /\ stats' = [stats EXCEPT ![u] = InSeconds(st)]

(* OsuSavedUsers::save when it returns Ok(true).                           *)
SaveUser(u, a, f, st) ==
    /\ StoreAccepted(u, a)
    /\ WriteRow(u, a, f, st)

(* A variant of new_user without the UNIQUE index.                         *)
NewUserUnchecked(u, a, st) == WriteRow(u, a, 0, st)

(* OsuSavedUsers::new_user: the row is deleted and stored in one           *)
(* transaction, which the UNIQUE index may abort.                          *)
NewUser(u, a, st) ==
    /\ ~HeldByAnother(u, a)
    /\ WriteRow(u, a, 0, st)

NewUserRejected(u, a) ==
    /\ HeldByAnother(u, a)
    /\ UNCHANGED table

(* OsuSavedUsers::remove_user: the mode rows go with the row.              *)
RemoveUser(u) ==
    /\ link[u] # NoAccount
    /\ link' = [link EXCEPT ![u] = NoAccount]
    /\ failures' = [failures EXCEPT ![u] = 0]
    /\ stats' = [stats EXCEPT ![u] = NoStats]

-----------------------------------------------------------------------------

(* An osu! account is saved by at most one Discord user, whatever saves,   *)
(* forced saves, removals and announcer updates interleave (store,         *)
(* new_user and the UNIQUE index).                                         *)
OneUserPerAccount ==
    \A u, v \in Users : link[u] = link[v] /\ link[u] # NoAccount => u = v
=============================================================================
