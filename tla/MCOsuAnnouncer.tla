--------------------------- MODULE MCOsuAnnouncer ---------------------------
(***************************************************************************)
(* Small instances of OsuAnnouncer for TLC.  The Discord users are         *)
(* interchangeable, and so are the accounts; modes are visited in order.   *)
(***************************************************************************)
EXTENDS OsuAnnouncer

CONSTANTS u1, u2, a1, a2, m1, m2

OneMode == <<m1>>
TwoModes == <<m1, m2>>
Symmetry == Permutations(Users) \cup Permutations(Accounts)
=============================================================================
