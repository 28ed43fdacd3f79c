--------------------------- MODULE MCMemberCache ---------------------------
(***************************************************************************)
(* Small instances of MemberCache for TLC.  Callers are interchangeable.   *)
(***************************************************************************)
EXTENDS MemberCache, TLC

CONSTANTS u1, g1, c1, c2, c3

Symmetry == Permutations(Callers)
=============================================================================
