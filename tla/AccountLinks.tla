---------------------------- MODULE AccountLinks ----------------------------
(***************************************************************************)
(* What the bot promises about saved osu! accounts, whatever the modes,    *)
(* windows, failures and announcements of an update are: a link is a claim *)
(* of an account nobody else has, and an update, which works for long on   *)
(* what it read, in the end at most brings that link back.                 *)
(***************************************************************************)
CONSTANTS Users, Accounts, NoAccount

VARIABLES
    holder,         \* the account of each Discord user
    underway        \* the account an update of the user is working on

links == <<holder, underway>>

Free(u, a) == \A v \in Users \ {u} : holder[v] # a

Init ==
    /\ holder \in [Users -> Accounts \cup {NoAccount}]
    /\ \A u, v \in Users : holder[u] = holder[v] /\ holder[u] # NoAccount => u = v
    /\ underway = [u \in Users |-> NoAccount]

Claim(u, a) ==
    /\ Free(u, a)
    /\ holder' = [holder EXCEPT ![u] = a]
    /\ UNCHANGED underway

Release(u) ==
    /\ holder' = [holder EXCEPT ![u] = NoAccount]
    /\ UNCHANGED underway

(* A scan reads the links once all updates of the one before have ended.   *)
Read ==
    /\ underway = [u \in Users |-> NoAccount]
    /\ underway' = holder
    /\ UNCHANGED holder

(* An update ends well: its link is still there, or was removed in the     *)
(* meantime and comes back if nobody has claimed the account since.        *)
Land(u) ==
    /\ underway[u] # NoAccount
    /\ holder[u] \in {underway[u], NoAccount}
    /\ Free(u, underway[u])
    /\ holder' = [holder EXCEPT ![u] = underway[u]]
    /\ underway' = [underway EXCEPT ![u] = NoAccount]

Abandon(u) ==
    /\ underway[u] # NoAccount
    /\ underway' = [underway EXCEPT ![u] = NoAccount]
    /\ UNCHANGED holder

Restart ==
    /\ underway' = [u \in Users |-> NoAccount]
    /\ UNCHANGED holder

Next ==
    \/ \E u \in Users, a \in Accounts : Claim(u, a)
    \/ \E u \in Users : Release(u) \/ Land(u) \/ Abandon(u)
    \/ Read
    \/ Restart

Spec == Init /\ [][Next]_links
=============================================================================
