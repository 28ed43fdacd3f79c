----------------------------- MODULE SavedFiles -----------------------------
(***************************************************************************)
(* Settings in YAML files: DB and DBWriteGuard of youmubot-db/src/lib.rs   *)
(* with two of its users, the channels of the announcers                   *)
(* (youmubot-prelude/src/announcer.rs) and the assignable roles            *)
(* (youmubot-core/src/{db.rs,community/roles.rs}) of one server.           *)
(*                                                                         *)
(* A file is read when the bot starts and written as a whole when a guard  *)
(* that lent its data for writing is dropped, after the lock of the data   *)
(* was given back: other commands run in between.  A failed write is only  *)
(* printed.  The list of roles may first have to be taken over from an     *)
(* older file.                                                             *)
(***************************************************************************)
EXTENDS FiniteSets

CONSTANTS
    Announcers,     \* keys of announcers, each with a channel or none
    Assignable,     \* roles, each in the list or not
    Given,          \* what may be set: a channel, a description
    Unset,          \* no channel, not in the list
    Admins,         \* commands in progress
    FileFaults      \* what may fail: "save", "remove", "stop"

ASSUME SavedFilesAssumption ==
    /\ Announcers \cap Assignable = {}
    /\ Unset \notin Given
    /\ FileFaults \subseteq {"save", "remove", "stop"}

Settings == Announcers \cup Assignable
Data == [Settings -> Given \cup {Unset}]

VARIABLES
    bot,            \* what the bot has come to
    data,           \* the data of both databases, in memory
    file,           \* their files
    hasNew, hasOld, \* whether the files of the roles are there
    oldRoles,       \* what is in the older one
    admin,          \* the commands, from the change of the data on
    confirmed,      \* history: what each setting was last said to be
    unwritten,      \* history: settings that a failed write has left out
    doubtful        \* history: settings changed twice at once, or cut off

fileVars == <<bot, data, file, hasNew, hasOld, oldRoles, admin, confirmed, unwritten, doubtful>>
fileHistory == <<confirmed, unwritten, doubtful>>
roleFiles == <<hasNew, hasOld, oldRoles>>

NoAdmin == [at |-> "none"]
Admin == {NoAdmin} \cup [at : {"saving"}, sets : Settings, to : Given \cup {Unset}]

SavedFilesTypeOK ==
    /\ bot \in {"down", "created", "copied", "up"}
    /\ data \in Data /\ file \in Data
    /\ hasNew \in BOOLEAN /\ hasOld \in BOOLEAN
    /\ hasNew \/ hasOld
    /\ oldRoles \in [Assignable -> Given \cup {Unset}]
    /\ admin \in [Admins -> Admin]
    /\ confirmed \in Data
    /\ unwritten \subseteq Settings
    /\ doubtful \subseteq Settings
    /\ bot # "up" => \A a \in Admins : admin[a] = NoAdmin

SavedFilesInit ==
    /\ bot = "down"
    /\ file \in Data
    /\ data = file
    /\ hasNew \in BOOLEAN
    /\ hasOld = ~hasNew
    /\ oldRoles \in [Assignable -> Given \cup {Unset}]
    /\ ~hasNew => \A r \in Assignable : file[r] = Unset
    /\ hasNew => \A r \in Assignable : oldRoles[r] = Unset
    /\ admin = [a \in Admins |-> NoAdmin]
    /\ confirmed = [s \in Settings |-> IF s \in Assignable /\ hasOld THEN oldRoles[s] ELSE file[s]]
    /\ unwritten = {}
    /\ doubtful = {}

-----------------------------------------------------------------------------
(* Starting *)

FileOf(s) == IF s \in Announcers THEN Announcers ELSE Assignable

(* A file is written as a whole, with what its data are by then.  When     *)
(* that fails it stays as it is, and whoever asked for it goes on.         *)
Write(some, new) ==
    \/ /\ file' = [s \in Settings |-> IF s \in some THEN new[s] ELSE file[s]]
       /\ unwritten' = unwritten \ some
    \/ /\ "save" \in FileFaults
       /\ unwritten' = unwritten \cup {s \in some : new[s] # file[s]}
       /\ UNCHANGED file

(* Variant: the older list of roles is preferred as long as it is there.   *)
LoadOldRolesFirst ==
    /\ bot = "down"
    /\ hasNew
    /\ bot' = IF hasOld THEN "created" ELSE "up"
    /\ data' = file
    /\ UNCHANGED <<file, roleFiles, admin, fileHistory>>

(* The files are loaded, the announcers' one made when it is not there.    *)
LoadFiles ==
    /\ bot = "down"
    /\ hasNew
    /\ bot' = "up"
    /\ data' = file
    /\ UNCHANGED <<file, roleFiles, admin, fileHistory>>

(* There is only the older list: a new file is made, with an empty one.    *)
CreateRoles ==
    /\ bot = "down"
    /\ ~hasNew
    /\ hasNew' = TRUE
    /\ bot' = "created"
    /\ data' = file
    /\ UNCHANGED <<file, hasOld, oldRoles, admin, fileHistory>>

CopyRoles ==
    /\ bot = "created"
    /\ bot' = "copied"
    /\ data' = [s \in Settings |-> IF s \in Assignable THEN oldRoles[s] ELSE data[s]]
    /\ Write(Assignable, data')
    /\ UNCHANGED <<roleFiles, admin, confirmed, doubtful>>

(* The older file goes whether or not its list was written.                *)
RemoveOldRoles ==
    /\ bot = "copied"
    /\ bot' = "up"
    /\ \/ hasOld' = FALSE /\ oldRoles' = [r \in Assignable |-> Unset]
       \/ "remove" \in FileFaults /\ UNCHANGED <<hasOld, oldRoles>>
    /\ UNCHANGED <<data, file, hasNew, admin, fileHistory>>

-----------------------------------------------------------------------------
(* Commands.  What they ask Discord before, and refuse, changes nothing.   *)

Saving(s) == {a \in Admins : admin[a] # NoAdmin /\ admin[a].sets = s}

(* borrow_mut, up to the end of its lock.                                  *)
Change(a, s, to) ==
    /\ bot = "up"
    /\ admin[a] = NoAdmin
    /\ data' = [data EXCEPT ![s] = to]
    /\ admin' = [admin EXCEPT ![a] = [at |-> "saving", sets |-> s, to |-> to]]
    /\ doubtful' = IF Saving(s) = {} THEN doubtful \ {s} ELSE doubtful \cup {s}
    /\ UNCHANGED <<bot, file, roleFiles, confirmed, unwritten>>

RegisterAnnouncer(a, key, channel) == key \in Announcers /\ Change(a, key, channel)

RemoveAnnouncer(a, key) == key \in Announcers /\ Change(a, key, Unset)

AddRole(a, role, description) == role \in Assignable /\ Change(a, role, description)

(* A role that is not in the list is not removed from it.                  *)
RemoveRole(a, role) ==
    /\ role \in Assignable
    /\ data[role] # Unset
    /\ Change(a, role, Unset)

(* The guard is dropped, and the admin is told, written or not.            *)
SaveOnDrop(a) ==
    LET s == admin[a].sets
    IN  /\ admin[a] # NoAdmin
        /\ Write(FileOf(s), data)
        /\ confirmed' = [confirmed EXCEPT ![s] = admin[a].to]
        /\ admin' = [admin EXCEPT ![a] = NoAdmin]
        /\ UNCHANGED <<bot, data, roleFiles, doubtful>>

Stop ==
    /\ "stop" \in FileFaults
    /\ bot # "down"
    /\ bot' = "down"
    /\ data' = file
    /\ admin' = [a \in Admins |-> NoAdmin]
    /\ doubtful' = doubtful \cup unwritten \cup {s \in Settings : Saving(s) # {}}
                   \cup {s \in Assignable : bot = "created" /\ oldRoles[s] # file[s]}
    /\ unwritten' = {}
    /\ UNCHANGED <<file, roleFiles, confirmed>>

SavedFilesNext ==
    \/ LoadFiles \/ CreateRoles \/ CopyRoles \/ RemoveOldRoles
    \/ \E a \in Admins, key \in Announcers, channel \in Given : RegisterAnnouncer(a, key, channel)
    \/ \E a \in Admins, key \in Announcers : RemoveAnnouncer(a, key)
    \/ \E a \in Admins, role \in Assignable, description \in Given : AddRole(a, role, description)
    \/ \E a \in Admins, role \in Assignable : RemoveRole(a, role)
    \/ \E a \in Admins : SaveOnDrop(a)
    \/ Stop

SavedFilesSpec == SavedFilesInit /\ [][SavedFilesNext]_fileVars

-----------------------------------------------------------------------------
(* Properties *)

(* While the bot is up a setting is what was last confirmed, in memory and *)
(* in its file, over all restarts and the taking over of the older list of *)
(* roles.  A failed write leaves it out of the file until a later write of *)
(* the same file; and nothing is said of a setting that two commands       *)
(* changed at once or that a stop has cut off (DBWriteGuard::drop,         *)
(* load_role_list).                                                        *)
ConfirmedIsKept ==
    bot = "up" => \A s \in Settings \ doubtful :
        Saving(s) = {} =>
            /\ data[s] = confirmed[s]
            /\ s \in unwritten \/ file[s] = confirmed[s]
=============================================================================
