------------------------------ MODULE MCCaches ------------------------------
(***************************************************************************)
(* What the bot keeps in memory of something else, for TLC: guild members, *)
(* osu! beatmaps, their files with the rate-limited client, the ignored    *)
(* users and the settings in YAML files.  They have nothing in common, so  *)
(* a behaviour uses one of them and leaves the others as they are.         *)
(***************************************************************************)
EXTENDS MemberCache, MapCaches, IgnoreList, SavedFiles, TLC

CONSTANTS u1, g1, c1, c2, t1, p1, p2, o1, o2, e1, e2, r1, v1

VARIABLE used

cachesVars == <<vars, mapCachesVars, ignoreVars, fileVars, used>>

StdAndMania == (1 :> "std" @@ 2 :> "mania")

(* Callers, loaders and admins are the same tasks.                         *)
Symmetry == Permutations(Callers) \cup Permutations(Announcers)

CachesTypeOK == TypeOK /\ MapCachesTypeOK /\ IgnoreListTypeOK /\ SavedFilesTypeOK

CachesInit ==
    /\ used \in {"members", "maps", "files", "ignored", "settings"}
    /\ Init
    /\ MapCachesInit
    /\ IgnoreListInit
    /\ SavedFilesInit
    /\ used # "members" => members = [g \in Guilds |-> {}]
    /\ used \notin {"maps", "files"} => ~ranked
    /\ used # "ignored" => ignoredUsers = {}
    /\ used # "settings" => hasNew /\ \A s \in Settings : file[s] = Unset

(* The calls of the two beatmap caches meet only in the command that clears *)
(* them both.                                                              *)
CallsAre(ops) ==
    \A c \in Loaders : IF load'[c].at = "unused" THEN TRUE ELSE load'[c].op \in ops

CachesNext ==
    /\ \/ used = "members" /\ Next /\ UNCHANGED <<mapCachesVars, ignoreVars, fileVars>>
       \/ /\ used = "maps"
          /\ MapCachesNext
          /\ CallsAre({"map", "set", "clear"})
          /\ UNCHANGED <<vars, ignoreVars, fileVars>>
       \/ /\ used = "files"
          /\ MapCachesNext
          /\ CallsAre({"file", "clear"})
          /\ UNCHANGED <<vars, ignoreVars, fileVars>>
       \/ used = "ignored" /\ IgnoreListNext /\ UNCHANGED <<vars, mapCachesVars, fileVars>>
       \/ used = "settings" /\ SavedFilesNext /\ UNCHANGED <<vars, mapCachesVars, ignoreVars>>
    /\ UNCHANGED used

CachesSpec == CachesInit /\ [][CachesNext]_cachesVars
=============================================================================
