--------------------------- MODULE MCCfAnnouncer ---------------------------
(***************************************************************************)
(* Codeforces for TLC: the announcer and the live watches.  They have      *)
(* nothing in common, so a behaviour uses one of them and leaves the other *)
(* as it is.  Users, handles and contests of the announcer are             *)
(* interchangeable: contests are ordered by rated only.  So are the calls. *)
(***************************************************************************)
EXTENDS CfAnnouncer, ContestWatch, TLC

CONSTANTS u1, u2, a1, a2, k1, k2, k3, w1, w2, q1, h1

VARIABLE used

scansVars == <<vars, contestVars, used>>

Symmetry ==
    Permutations(Users) \cup Permutations(Handles) \cup Permutations(Contests)
    \cup Permutations(Watches)

ScansTypeOK == TypeOK /\ ContestWatchTypeOK

ScansInit ==
    /\ used \in {"announcer", "watches"}
    /\ Init
    /\ ContestWatchInit
    /\ used = "announcer" => \A q \in Watched : site[q].start = 0

ScansNext ==
    /\ \/ used = "announcer" /\ Next /\ UNCHANGED contestVars
       \/ used = "watches" /\ ContestWatchNext /\ UNCHANGED vars
    /\ UNCHANGED used

ScansSpec == ScansInit /\ [][ScansNext]_scansVars
=============================================================================
