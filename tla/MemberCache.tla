---------------------------- MODULE MemberCache ----------------------------
(***************************************************************************)
(* The cache of guild members of youmubot-prelude/src/member_cache.rs.     *)
(*                                                                         *)
(* A query looks for the user in its own table, then in the listing of the *)
(* guild, and at last asks for the user alone.  Each table is behind one   *)
(* asynchronous mutex that is held while Discord is asked.  Every entry    *)
(* carries, besides its timeout, the time it was fetched (for the          *)
(* properties).                                                            *)
(***************************************************************************)
EXTENDS Integers, FiniteSets

CONSTANTS
    Users, Guilds,
    Callers,        \* tasks that use the cache, one call each
    NoCaller,       \* the mutex is free
    Valid,          \* VALID_CACHE_SECONDS
    Invalid,        \* INVALID_CACHE_SECONDS
    MaxTime,        \* bound on the clock
    Faults          \* requests that may fail: "listing", "member"

ASSUME MemberCacheAssumption ==
    /\ NoCaller \notin Callers
    /\ Valid \in Nat \ {0}
    /\ Invalid \in 1..Valid
    /\ MaxTime \in Nat
    /\ Faults \subseteq {"listing", "member"}

VARIABLES
    clock,
    members,        \* the members of each guild, as Discord knows them
    perUser,        \* per_user
    perGuild,       \* per_guild
    userLock,       \* who holds the mutex of per_user
    guildLock,      \* and of per_guild
    call            \* the call of each caller

vars == <<clock, members, perUser, perGuild, userLock, guildLock, call>>

Time == 0..MaxTime

(* A failed listing is remembered as None, a failed member request as no   *)
(* member.                                                                 *)
None == [known |-> FALSE, set |-> {}]
Some(s) == [known |-> TRUE, set |-> s]
Listing == [known : BOOLEAN, set : SUBSET Users]

NoEntry == [value |-> None, at |-> -1, timeout |-> 0]
Entry == [value : Listing, at : {-1} \cup Time, timeout : 0..(MaxTime + Valid + Invalid)]

(* A call: where it is, what it asks, the two times it noted, and where    *)
(* its answer came from.                                                   *)
Idle == [pc |-> "idle"]
Call ==
    {Idle} \cup
    [pc : {"look", "guild", "listing", "user", "member"}, op : {"query", "members"},
     user : Users, guild : Guilds, now : Time, now2 : Time]
    \cup
    [pc : {"done"}, op : {"query", "members"}, user : Users, guild : Guilds,
     now : Time, via : {"perUser", "perGuild", "member", "kept"}, entry : Entry]

TypeOK ==
    /\ clock \in Time
    /\ members \in [Guilds -> SUBSET Users]
    /\ perUser \in [Users \X Guilds -> Entry]
    /\ perGuild \in [Guilds -> Entry]
    /\ userLock \in Callers \cup {NoCaller}
    /\ guildLock \in Callers \cup {NoCaller}
    /\ call \in [Callers -> Call]
    /\ \A c \in Callers : call[c].pc = "listing" <=> guildLock = c
    /\ \A c \in Callers : call[c].pc = "member" <=> userLock = c

Init ==
    /\ clock = 0
    /\ members \in [Guilds -> SUBSET Users]
    /\ perUser = [k \in Users \X Guilds |-> NoEntry]
    /\ perGuild = [g \in Guilds |-> NoEntry]
    /\ userLock = NoCaller
    /\ guildLock = NoCaller
    /\ call = [c \in Callers |-> Idle]

-----------------------------------------------------------------------------

Tick ==
    /\ clock < MaxTime
    /\ clock' = clock + 1
    /\ UNCHANGED <<members, perUser, perGuild, userLock, guildLock, call>>

(* A user joins or leaves a guild.                                         *)
Move(u, g) ==
    /\ members' = [members EXCEPT ![g] = IF u \in @ THEN @ \ {u} ELSE @ \cup {u}]
    /\ UNCHANGED <<clock, perUser, perGuild, userLock, guildLock, call>>

StillValid(e, now) == e.timeout > now

(* A variant that keeps a failed listing as long as one that succeeded.    *)
ListingTimeoutSame(value, now) == now + Valid

ListingTimeout(value, now) == now + (IF value.known THEN Valid ELSE Invalid)

Done(c, via, e) ==
    [pc |-> "done", op |-> call[c].op, user |-> call[c].user, guild |-> call[c].guild,
     now |-> call[c].now, via |-> via, entry |-> e]

Goto(c, pc) == call' = [call EXCEPT ![c].pc = pc]

(* The listing answers: a query goes on without it when it is not known.   *)
AnswerFromListing(c, e) ==
    IF call[c].op = "query" /\ ~e.value.known THEN Goto(c, "user")
    ELSE call' = [call EXCEPT ![c] = Done(c, "perGuild", e)]

-----------------------------------------------------------------------------
(* query and query_members *)

Start(c, op, u, g) ==
    /\ call[c] = Idle
    /\ call' = [call EXCEPT ![c] = [pc |-> IF op = "query" THEN "look" ELSE "guild",
                                    op |-> op, user |-> u, guild |-> g,
                                    now |-> clock, now2 |-> clock]]
    /\ UNCHANGED <<clock, members, perUser, perGuild, userLock, guildLock>>

(* The first look at per_user.                                             *)
Look(c) ==
    /\ call[c].pc = "look"
    /\ userLock = NoCaller
    /\ LET e == perUser[<<call[c].user, call[c].guild>>]
       IN  call' = IF StillValid(e, call[c].now)
                   THEN [call EXCEPT ![c] = Done(c, "perUser", e)]
                   ELSE [call EXCEPT ![c].pc = "guild", ![c].now2 = clock]
    /\ UNCHANGED <<clock, members, perUser, perGuild, userLock, guildLock>>

(* A variant that lets go of the mutex before it asks Discord.             *)
LockGuildUnheld(c) ==
    /\ call[c].pc = "guild"
    /\ guildLock = NoCaller
    /\ LET e == perGuild[call[c].guild]
       IN  IF StillValid(e, call[c].now2) THEN AnswerFromListing(c, e) ELSE Goto(c, "listing")
    /\ UNCHANGED <<clock, members, perUser, perGuild, userLock, guildLock>>

(* The mutex of per_guild is taken, perhaps long after now2; it is kept    *)
(* for the request when the listing is too old.                            *)
LockGuild(c) ==
    /\ call[c].pc = "guild"
    /\ guildLock = NoCaller
    /\ LET e == perGuild[call[c].guild]
       IN  IF StillValid(e, call[c].now2)
           THEN AnswerFromListing(c, e) /\ UNCHANGED guildLock
           ELSE Goto(c, "listing") /\ guildLock' = c
    /\ UNCHANGED <<clock, members, perUser, perGuild, userLock>>

(* Discord lists the members, or the request fails.                        *)
ListMembers(c) ==
    /\ call[c].pc = "listing"
    /\ \E value \in {Some(members[call[c].guild])}
                    \cup (IF "listing" \in Faults THEN {None} ELSE {}) :
          LET e == [value |-> value, at |-> clock,
                    timeout |-> ListingTimeout(value, call[c].now2)]
          IN  /\ perGuild' = [perGuild EXCEPT ![call[c].guild] = e]
              /\ AnswerFromListing(c, e)
    /\ guildLock' = NoCaller
    /\ UNCHANGED <<clock, members, perUser, userLock>>

(* The second look at per_user.                                            *)
LockUser(c) ==
    /\ call[c].pc = "user"
    /\ userLock = NoCaller
    /\ LET e == perUser[<<call[c].user, call[c].guild>>]
       IN  IF StillValid(e, call[c].now)
           THEN call' = [call EXCEPT ![c] = Done(c, "perUser", e)] /\ UNCHANGED userLock
           ELSE Goto(c, "member") /\ userLock' = c
    /\ UNCHANGED <<clock, members, perUser, perGuild, guildLock>>

(* or_insert leaves an entry that is there alone, expired or not.          *)
GetMember(c) ==
    LET key == <<call[c].user, call[c].guild>>
        is == members[call[c].guild] \cap {call[c].user}
    IN  /\ call[c].pc = "member"
        /\ \E value \in {Some(is)} \cup (IF "member" \in Faults THEN {Some({})} ELSE {}) :
              LET e == [value |-> value, at |-> clock, timeout |-> call[c].now + Valid]
              IN  IF perUser[key] = NoEntry
                  THEN /\ perUser' = [perUser EXCEPT ![key] = e]
                       /\ call' = [call EXCEPT ![c] = Done(c, "member", e)]
                  ELSE /\ call' = [call EXCEPT ![c] = Done(c, "kept", perUser[key])]
                       /\ UNCHANGED perUser
        /\ userLock' = NoCaller
        /\ UNCHANGED <<clock, members, perGuild, guildLock>>

(* The caller uses the answer, and calls again some time.                  *)
Return(c) ==
    /\ call[c].pc = "done"
    /\ call' = [call EXCEPT ![c] = Idle]
    /\ UNCHANGED <<clock, members, perUser, perGuild, userLock, guildLock>>

-----------------------------------------------------------------------------

Next ==
    \/ Tick
    \/ \E u \in Users, g \in Guilds : Move(u, g)
    \/ \E c \in Callers, op \in {"query", "members"}, u \in Users, g \in Guilds :
          Start(c, op, u, g)
    \/ \E c \in Callers : Look(c) \/ LockGuild(c) \/ ListMembers(c)
                          \/ LockUser(c) \/ GetMember(c) \/ Return(c)

Spec == Init /\ [][Next]_vars

-----------------------------------------------------------------------------
(* Properties *)

Answered(c) == call[c].pc = "done"

(* What was fetched less than Valid before the call, or during it.         *)
Fresh(c) == call[c].entry.at > call[c].now - Valid

(* The members a listing answers with were there less than fifteen minutes *)
(* before the call, although its timeout counts from the time a caller     *)
(* noted before it waited for the mutex, and so was one found in per_user. *)
(* That a listing is unavailable is said for two minutes only              *)
(* (query_members, query).                                                 *)
FoundIsFresh ==
    \A c \in Callers : Answered(c) =>
        /\ call[c].via # "kept" => Fresh(c)
        /\ ~call[c].entry.value.known => call[c].entry.at > call[c].now - Invalid

-----------------------------------------------------------------------------
(* A claim of the repository the code does not keep *)

(* "15 minutes": no answer is older.                                       *)
AnswersAreFresh == \A c \in Callers : Answered(c) => Fresh(c)
=============================================================================
