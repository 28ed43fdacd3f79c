----------------------------- MODULE IgnoreList -----------------------------
(***************************************************************************)
(* The users the bot ignores: youmubot-core/src/admin/ignore.rs, the table *)
(* of youmubot-db-sql/src/models/ignore_list.rs, and the check both        *)
(* frameworks of youmubot/src/main.rs make before a command.               *)
(*                                                                         *)
(* The table is copied into memory when the bot starts.  A command of an   *)
(* owner changes the table first and the copy after, and several commands  *)
(* may run at once.                                                        *)
(***************************************************************************)
EXTENDS Naturals

CONSTANTS
    People,         \* Discord users
    OwnerCommands,  \* `ignore add` and `ignore remove` in progress
    IgnoreFaults    \* what may fail: "db", "stop" (the bot stops)

ASSUME IgnoreListAssumption == IgnoreFaults \subseteq {"db", "stop"}

VARIABLES
    ignoredUsers,   \* the table ignored_users
    list,           \* IgnoredUsers::list
    owner,          \* the commands in progress
    told,           \* history: whose ignoring was the last thing confirmed
    mixed           \* history: people whose last commands ran at once

ignoreVars == <<ignoredUsers, list, owner, told, mixed>>

NoOwner == [at |-> "none"]
Owner == {NoOwner} \cup [at : {"table", "list"}, does : {"add", "remove"}, who : People]

IgnoreListTypeOK ==
    /\ ignoredUsers \in SUBSET People
    /\ list \in SUBSET People
    /\ owner \in [OwnerCommands -> Owner]
    /\ told \in SUBSET People
    /\ mixed \in SUBSET People

(* from_db                                                                 *)
IgnoreListInit ==
    /\ ignoredUsers \in SUBSET People
    /\ list = ignoredUsers
    /\ owner = [o \in OwnerCommands |-> NoOwner]
    /\ told = {}
    /\ mixed = {}

-----------------------------------------------------------------------------

(* should_ignore, which command_check asks before a command is run.        *)
ShouldIgnore(p) == p \in list

About(p) == {o \in OwnerCommands : owner[o] # NoOwner /\ owner[o].who = p}

BeginIgnore(o, does, p) ==
    /\ owner[o] = NoOwner
    /\ owner' = [owner EXCEPT ![o] = [at |-> "table", does |-> does, who |-> p]]
    /\ told' = told \ {p}
    /\ mixed' = IF About(p) = {} THEN mixed \ {p} ELSE mixed \cup {p}
    /\ UNCHANGED <<ignoredUsers, list>>

Changed(set, o) ==
    IF owner[o].does = "add" THEN set \cup {owner[o].who} ELSE set \ {owner[o].who}

(* A variant that goes on when the table could not be changed.             *)
ChangeTableUnchecked(o) ==
    /\ owner[o].at = "table"
    /\ \/ ignoredUsers' = Changed(ignoredUsers, o)
       \/ "db" \in IgnoreFaults /\ UNCHANGED ignoredUsers
    /\ owner' = [owner EXCEPT ![o].at = "list"]
    /\ UNCHANGED <<list, told, mixed>>

(* The upsert or the delete; when it fails the command ends with an error. *)
ChangeTable(o) ==
    /\ owner[o].at = "table"
    /\ \/ /\ ignoredUsers' = Changed(ignoredUsers, o)
          /\ owner' = [owner EXCEPT ![o].at = "list"]
       \/ /\ "db" \in IgnoreFaults
          /\ owner' = [owner EXCEPT ![o] = NoOwner]
          /\ UNCHANGED ignoredUsers
    /\ UNCHANGED <<list, told, mixed>>

(* The copy follows, and the owner is told.                                *)
ChangeList(o) ==
    /\ owner[o].at = "list"
    /\ list' = Changed(list, o)
    /\ told' = Changed(told, o)
    /\ owner' = [owner EXCEPT ![o] = NoOwner]
    /\ UNCHANGED <<ignoredUsers, mixed>>

(* The bot stops, and starts with what the table has.                      *)
Restart ==
    /\ "stop" \in IgnoreFaults
    /\ list' = ignoredUsers
    /\ owner' = [o \in OwnerCommands |-> NoOwner]
    /\ UNCHANGED <<ignoredUsers, told, mixed>>

IgnoreListNext ==
    \/ \E o \in OwnerCommands, p \in People, does \in {"add", "remove"} :
          BeginIgnore(o, does, p)
    \/ \E o \in OwnerCommands : ChangeTable(o) \/ ChangeList(o)
    \/ Restart

IgnoreListSpec == IgnoreListInit /\ [][IgnoreListNext]_ignoreVars

-----------------------------------------------------------------------------
(* Properties *)

(* Once an owner was told that somebody is ignored their commands are      *)
(* refused, whatever fails and however often the bot stops, until a        *)
(* command about them is given again; unless commands about them ran at    *)
(* once, which may leave table and copy different until the next one (add, *)
(* remove, from_db).                                                       *)
IgnoredStayIgnored == \A p \in told \ mixed : ShouldIgnore(p)

(* What makes it inductive: a command about somebody runs alone unless     *)
(* they are mixed, an add has changed the table when it comes to the copy, *)
(* and nothing is under way about those for whom the property is claimed.  *)
Settled ==
    /\ \A o, r \in OwnerCommands :
          /\ owner[o] # NoOwner
          /\ owner[r] # NoOwner
          /\ owner[o].who = owner[r].who
          /\ owner[o].who \notin mixed
          => o = r
    /\ \A o \in OwnerCommands :
          /\ owner[o] # NoOwner
          /\ owner[o].at = "list"
          /\ owner[o].does = "add"
          /\ owner[o].who \notin mixed
          => owner[o].who \in ignoredUsers
    /\ \A p \in told \ mixed : About(p) = {} /\ p \in ignoredUsers
=============================================================================
