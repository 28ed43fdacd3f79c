------------------------------ MODULE MapCaches ------------------------------
(***************************************************************************)
(* The osu! beatmap caches: BeatmapMetaCache of                            *)
(* youmubot-osu/src/discord/beatmap_cache.rs, BeatmapCache of              *)
(* oppai_cache.rs, and their tables in youmubot-db-sql/src/models/osu.rs.  *)
(*                                                                         *)
(* osu! has one beatmapset.  Its mapper changes the maps until the set is  *)
(* ranked; a map is known by its version.  A row of osu_cached_beatmaps    *)
(* has a map and a mode as its key, a row of osu_cached_beatmapsets links  *)
(* the set to such a key and a FOREIGN KEY keeps the one while there is    *)
(* the other.  The files of the maps are kept apart, and downloaded        *)
(* through a rate-limited client.                                          *)
(***************************************************************************)
EXTENDS Ratelimit

CONSTANTS
    Loaders,        \* tasks that use the caches, one call at a time
    Maps,           \* the maps of the set
    MapModes,       \* osu! modes
    NativeMode,     \* the mode of each map
    MaxVersion,     \* bound on the changes to a map
    MapFaults       \* what may fail: "api", "db"

ASSUME MapCachesAssumption ==
    /\ Borrowers = Loaders
    /\ Maps # {}
    /\ NativeMode \in [Maps -> MapModes]
    /\ MaxVersion \in Nat
    /\ MapFaults \subseteq {"api", "db"}

VARIABLES
    version,        \* the maps as osu! has them now
    ranked,         \* whether the set is ranked
    rows,           \* osu_cached_beatmaps
    links,          \* osu_cached_beatmapsets
    files,          \* osu_cached_beatmap_contents
    load            \* the call of each loader

osu == <<version, ranked>>
tables == <<rows, links, files>>
mapCachesVars == <<ratelimitVars, osu, tables, load>>

NoVersion == -1
Versions == [Maps -> {NoVersion} \cup 0..MaxVersion]
Nothing == [b \in Maps |-> NoVersion]
Only(b, v) == [Nothing EXCEPT ![b] = v]

Keys == Maps \X MapModes
NativeKey(b) == <<b, NativeMode[b]>>
AnyKey == NativeKey(CHOOSE b \in Maps : TRUE)

(* A call asks for a map by some mode, or by none, for the set, for a file *)
(* or for an empty cache.  `asked` are the versions when it asked for what *)
(* osu! has, `got` those it has got.                                       *)
Unused == [at |-> "unused"]
Places == {"look", "fetch", "store", "borrow", "download", "clear rows", "clear files",
           "answered"}
Ongoing == [at : Places, op : {"map", "set", "file", "clear"}, key : Keys,
            asked : Versions, got : Versions]
Load == {Unused} \cup Ongoing

MapCachesTypeOK ==
    /\ RatelimitTypeOK
    /\ version \in [Maps -> 0..MaxVersion]
    /\ ranked \in BOOLEAN
    /\ rows \in [Keys -> {NoVersion} \cup 0..MaxVersion]
    /\ links \in SUBSET {k \in Keys : rows[k] # NoVersion}
    /\ files \in Versions
    /\ load \in [Loaders -> Load]
    /\ \A c \in Loaders : c \in holding <=> load[c].at = "download"

MapCachesInit ==
    /\ RatelimitInit
    /\ version = [b \in Maps |-> 0]
    /\ ranked \in BOOLEAN
    /\ rows = [k \in Keys |-> NoVersion]
    /\ links = {}
    /\ files = Nothing
    /\ load = [c \in Loaders |-> Unused]

-----------------------------------------------------------------------------
(* osu! *)

ChangeMap(b) ==
    /\ ~ranked
    /\ version[b] < MaxVersion
    /\ version' = [version EXCEPT ![b] = @ + 1]
    /\ UNCHANGED <<ratelimitVars, ranked, tables, load>>

RankSet ==
    /\ ~ranked
    /\ ranked' = TRUE
    /\ UNCHANGED <<ratelimitVars, version, tables, load>>

-----------------------------------------------------------------------------
(* Calls *)

Goes(c, at) == load' = [load EXCEPT ![c].at = at]
Gets(c, at, got) == load' = [load EXCEPT ![c].at = at, ![c].got = got]
Answers(c, got) == Gets(c, "answered", got)
Fails(c) == load' = [load EXCEPT ![c] = Unused]
MayFail(c, fault) == fault \in MapFaults /\ Fails(c)

Calls(c, op, k, asked) ==
    /\ load[c] = Unused
    /\ load' = [load EXCEPT ![c] = [at |-> "look", op |-> op, key |-> k, asked |-> asked,
                                    got |-> Nothing]]
    /\ UNCHANGED <<ratelimitVars, osu, tables>>

(* get_beatmap by a mode, and get_beatmap_default: of the rows of the four *)
(* modes only the one of the map's own is taken.                           *)
GetBeatmap(c, b, m) == Calls(c, "map", <<b, m>>, version)
GetBeatmapDefault(c, b) == Calls(c, "map", NativeKey(b), version)
GetBeatmapset(c) == Calls(c, "set", AnyKey, version)
GetFile(c, b) == Calls(c, "file", NativeKey(b), Nothing)
Clear(c) == Calls(c, "clear", AnyKey, Nothing)

(* The caller goes on, and calls again some time.                          *)
CallEnds(c) ==
    /\ load[c].at = "answered"
    /\ load' = [load EXCEPT ![c] = Unused]
    /\ UNCHANGED <<ratelimitVars, osu, tables>>

-----------------------------------------------------------------------------
(* BeatmapMetaCache *)

(* by_id                                                                   *)
LookUpMap(c) ==
    LET k == load[c].key
    IN  /\ load[c].at = "look" /\ load[c].op = "map"
        /\ \/ IF rows[k] # NoVersion THEN Answers(c, Only(load[c].key[1], rows[k]))
              ELSE Goes(c, "fetch")
           \/ MayFail(c, "db")
        /\ UNCHANGED <<ratelimitVars, osu, tables>>

(* by_beatmapset: the rows that the set is linked to, if there are any.    *)
LookUpSet(c) ==
    LET linked == [b \in Maps |-> IF NativeKey(b) \in links THEN rows[NativeKey(b)]
                                  ELSE NoVersion]
    IN  /\ load[c].at = "look" /\ load[c].op = "set"
        /\ \/ IF links # {} THEN Answers(c, linked) ELSE Goes(c, "fetch")
           \/ MayFail(c, "db")
        /\ UNCHANGED <<ratelimitVars, osu, tables>>

(* A variant that stores every map it fetches.                             *)
FetchAndKeep(c) ==
    LET got == IF load[c].op = "set" THEN version ELSE Only(load[c].key[1], version[load[c].key[1]])
    IN  /\ load[c].at = "fetch"
        /\ Gets(c, "store", got)
        /\ UNCHANGED <<ratelimitVars, osu, tables>>

(* The API answers; only what is ranked is stored.                         *)
Fetch(c) ==
    LET got == IF load[c].op = "set" THEN version ELSE Only(load[c].key[1], version[load[c].key[1]])
    IN  /\ load[c].at = "fetch"
        /\ \/ Gets(c, IF ranked THEN "store" ELSE "answered", got)
           \/ MayFail(c, "api")
        /\ UNCHANGED <<ratelimitVars, osu, tables>>

(* insert_if_possible: a store that fails is only printed.                 *)
StoreMap(c) ==
    /\ load[c].at = "store" /\ load[c].op = "map"
    /\ Answers(c, load[c].got)
    /\ rows' \in {[rows EXCEPT ![load[c].key] = load[c].got[load[c].key[1]]]}
                 \cup (IF "db" \in MapFaults THEN {rows} ELSE {})
    /\ UNCHANGED <<ratelimitVars, osu, links, files>>

(* The rows and links of the maps of the set `some`.                       *)
Linking(some, got) ==
    /\ rows' = [k \in Keys |-> IF k[1] \in some /\ k = NativeKey(k[1]) THEN got[k[1]]
                               ELSE rows[k]]
    /\ links' = links \cup {NativeKey(b) : b \in some}

(* A variant without a transaction: what was stored before a failure stays. *)
StoreSetInParts(c) ==
    /\ load[c].at = "store" /\ load[c].op = "set"
    /\ \E some \in SUBSET Maps :
          /\ Linking(some, load[c].got)
          /\ IF some = Maps THEN Answers(c, load[c].got) ELSE MayFail(c, "db")
    /\ UNCHANGED <<ratelimitVars, osu, files>>

(* get_beatmapset: one transaction for all maps; it fails as a whole, and  *)
(* the call with it.                                                       *)
StoreSet(c) ==
    /\ load[c].at = "store" /\ load[c].op = "set"
    /\ \/ Linking(Maps, load[c].got) /\ Answers(c, load[c].got)
       \/ MayFail(c, "db") /\ UNCHANGED <<rows, links>>
    /\ UNCHANGED <<ratelimitVars, osu, files>>

(* clear_all: first the links, then the rows.                              *)
ClearLinks(c) ==
    /\ load[c].at = "look" /\ load[c].op = "clear"
    /\ \/ links' = {} /\ Goes(c, "clear rows")
       \/ MayFail(c, "db") /\ UNCHANGED links
    /\ UNCHANGED <<ratelimitVars, osu, rows, files>>

(* The rows cannot go when a set was stored in between.                    *)
ClearRows(c) ==
    /\ load[c].at = "clear rows"
    /\ IF links = {} THEN rows' = [k \in Keys |-> NoVersion] /\ Goes(c, "clear files")
       ELSE Fails(c) /\ UNCHANGED rows
    /\ UNCHANGED <<ratelimitVars, osu, links, files>>

-----------------------------------------------------------------------------
(* BeatmapCache *)

ClearFiles(c) ==
    /\ load[c].at = "clear files"
    /\ files' = Nothing
    /\ Answers(c, Nothing)
    /\ UNCHANGED <<ratelimitVars, osu, rows, links>>

LookUpFile(c) ==
    LET b == load[c].key[1]
    IN  /\ load[c].at = "look" /\ load[c].op = "file"
        /\ \/ IF files[b] # NoVersion THEN Answers(c, Only(b, files[b])) ELSE Goes(c, "borrow")
           \/ MayFail(c, "db")
        /\ UNCHANGED <<ratelimitVars, osu, tables>>

BorrowClient(c) ==
    /\ load[c].at = "borrow"
    /\ Borrow(c)
    /\ Goes(c, "download")
    /\ UNCHANGED <<osu, tables>>

(* The guard lives until the end of the download, failed or not.           *)
Download(c) ==
    LET b == load[c].key[1]
    IN  /\ load[c].at = "download"
        /\ DropGuard(c)
        /\ \/ Gets(c, "store", Only(b, version[b]))
           \/ MayFail(c, "api")
        /\ UNCHANGED <<osu, tables>>

(* Every file is stored, of ranked maps and others.                        *)
StoreFile(c) ==
    LET b == load[c].key[1]
    IN  /\ load[c].at = "store" /\ load[c].op = "file"
        /\ \/ files' = [files EXCEPT ![b] = load[c].got[b]] /\ Answers(c, load[c].got)
           \/ MayFail(c, "db") /\ UNCHANGED files
        /\ UNCHANGED <<ratelimitVars, osu, rows, links>>

-----------------------------------------------------------------------------

MapCachesStep(c) ==
    \/ \E b \in Maps : GetBeatmapDefault(c, b) \/ GetFile(c, b)
    \/ \E b \in Maps, m \in MapModes : GetBeatmap(c, b, m)
    \/ GetBeatmapset(c) \/ Clear(c) \/ CallEnds(c)
    \/ LookUpMap(c) \/ LookUpSet(c) \/ Fetch(c) \/ StoreMap(c) \/ StoreSet(c)
    \/ ClearLinks(c) \/ ClearRows(c) \/ ClearFiles(c)
    \/ LookUpFile(c) \/ BorrowClient(c) \/ Download(c) \/ StoreFile(c)

LimiterStep ==
    /\ PassTime \/ \E s \in Sleepers : WakeUp(s)
    /\ UNCHANGED <<osu, tables, load>>

MapCachesNext ==
    \/ RankSet
    \/ \E b \in Maps : ChangeMap(b)
    \/ \E c \in Loaders : MapCachesStep(c)
    \/ LimiterStep

MapCachesSpec == MapCachesInit /\ [][MapCachesNext]_mapCachesVars

-----------------------------------------------------------------------------
(* Properties *)

(* A map or a set is answered as osu! had it when it was asked for, or as  *)
(* it became since: an answer from the cache never hides a change of the   *)
(* mapper (insert_if_possible, get_beatmapset).                            *)
MapsAreCurrent ==
    \A c \in Loaders : \A b \in Maps :
        /\ load[c].at = "answered"
        /\ load[c].op \in {"map", "set"}
        /\ load[c].got[b] # NoVersion
        => load[c].got[b] >= load[c].asked[b]

(* A set is answered with all of its maps, although they are rows of their *)
(* own, stored one by one, and cleared in two statements between which     *)
(* other calls run (get_beatmapset, clear_all).                            *)
SetsAreWhole ==
    \A c \in Loaders :
        load[c].at = "answered" /\ load[c].op = "set"
        => \A b \in Maps : load[c].got[b] # NoVersion

-----------------------------------------------------------------------------
(* What makes them inductive *)

(* Only what is ranked is stored, and what is ranked does not change.      *)
RowsAreFinal ==
    /\ \A k \in Keys : rows[k] # NoVersion => ranked /\ rows[k] = version[k[1]]
    /\ \A c \in Loaders : \A b \in Maps :
          /\ load[c].at = "store"
          /\ load[c].op \in {"map", "set"}
          /\ load[c].got[b] # NoVersion
          => ranked /\ load[c].got[b] = version[b]
    /\ \A c \in Loaders : load[c].at # "unused" /\ load[c].op \in {"map", "set"}
          => \A b \in Maps : load[c].asked[b] <= version[b]

(* A set is linked to all of its maps or to none.                          *)
LinksAreWhole ==
    /\ links \in {{}, {NativeKey(b) : b \in Maps}}
    /\ \A c \in Loaders : load[c].at = "store" /\ load[c].op = "set"
          => \A b \in Maps : load[c].got[b] # NoVersion

(* A call is where its kind can be.                                        *)
LoadsAreInPlace ==
    \A c \in Loaders :
        /\ load[c].at \in {"clear rows", "clear files"} => load[c].op = "clear"
        /\ load[c].at \in {"borrow", "download"} => load[c].op = "file"
        /\ load[c].at = "fetch" => load[c].op \in {"map", "set"}
        /\ load[c].at = "store" => load[c].op \in {"map", "set", "file"}
=============================================================================
