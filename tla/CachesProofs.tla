----------------------------- MODULE CachesProofs -----------------------------
(***************************************************************************)
(* Theorems about what the bot keeps in memory of something else, for      *)
(* every value of the constants: the rate limiter and the beatmap caches   *)
(* that use it, the ignore list, the settings that its files keep and the  *)
(* guild members that Discord keeps.                                       *)
(***************************************************************************)
EXTENDS MCCaches, FiniteSetTheorems, TLAPS

-----------------------------------------------------------------------------
(* The rate limiter *)

LimiterInv == RatelimitTypeOK /\ TokensAreKept /\ RecentAreAsleep

(* The sets that are counted are finite.                                   *)
LEMMA CountedAreFinite ==
    ASSUME RatelimitTypeOK
    PROVE  /\ IsFiniteSet(holding) /\ Cardinality(holding) \in Nat
           /\ IsFiniteSet(asleep) /\ Cardinality(asleep) \in Nat
  <1>1. IsFiniteSet(holding) /\ IsFiniteSet(asleep)
    BY RatelimitAssumption, FS_Subset DEF RatelimitTypeOK
  <1> QED BY <1>1, FS_CardinalityType

LEMMA InitLimiter == RatelimitInit => LimiterInv
  <1> SUFFICES ASSUME RatelimitInit PROVE LimiterInv
    OBVIOUS
  <1>1. RatelimitTypeOK
    BY RatelimitAssumption DEF RatelimitInit, RatelimitTypeOK
  <1>2. TokensAreKept
    BY RatelimitAssumption, FS_EmptySet DEF RatelimitInit, TokensAreKept
  <1>3. RecentAreAsleep
    <2>1. \A s \in Sleepers : ~(dropped[s] + WaitTime > now)
      BY RatelimitAssumption DEF RatelimitInit
    <2> QED BY <2>1 DEF RecentAreAsleep, Recent
  <1> QED BY <1>1, <1>2, <1>3 DEF LimiterInv

(* Passing time only makes fewer uses recent.                              *)
LEMMA PassTimeStep ==
    ASSUME LimiterInv, PassTime
    PROVE  LimiterInv'
  <1>1. RatelimitTypeOK'
    BY RatelimitAssumption DEF LimiterInv, RatelimitTypeOK, PassTime
  <1>2. TokensAreKept'
    BY DEF LimiterInv, TokensAreKept, PassTime
  <1>3. RecentAreAsleep'
    <2>1. \A s \in Sleepers : dropped[s] + WaitTime > now + 1 => dropped[s] + WaitTime > now
      BY RatelimitAssumption DEF LimiterInv, RatelimitTypeOK
    <2> QED BY <2>1 DEF LimiterInv, RecentAreAsleep, Recent, PassTime
  <1> QED BY <1>1, <1>2, <1>3 DEF LimiterInv

LEMMA BorrowStep ==
    ASSUME LimiterInv, NEW b, Borrow(b)
    PROVE  LimiterInv'
  <1>1. RatelimitTypeOK'
    BY RatelimitAssumption DEF LimiterInv, RatelimitTypeOK, Borrow
  <1>2. TokensAreKept'
    <2>1. Cardinality(holding \cup {b}) = Cardinality(holding) + 1
      BY CountedAreFinite, FS_AddElement DEF LimiterInv, Borrow
    <2>2. tokens \in Int /\ Count \in Int
      BY RatelimitAssumption DEF LimiterInv, RatelimitTypeOK
    <2> QED BY <2>1, <2>2, CountedAreFinite DEF LimiterInv, TokensAreKept, Borrow
  <1>3. RecentAreAsleep'
    BY DEF LimiterInv, RecentAreAsleep, Recent, Borrow
  <1> QED BY <1>1, <1>2, <1>3 DEF LimiterInv

(* A dropped guard is one sleeping task more.                              *)
LEMMA DropGuardStep ==
    ASSUME LimiterInv, NEW b, DropGuard(b)
    PROVE  LimiterInv'
  <1>1. PICK s \in Sleepers \ asleep :
           /\ asleep' = asleep \cup {s}
           /\ dropped' = [dropped EXCEPT ![s] = now]
    BY DEF DropGuard
  <1>2. RatelimitTypeOK'
    BY <1>1 DEF LimiterInv, RatelimitTypeOK, DropGuard
  <1>3. TokensAreKept'
    <2>1. Cardinality(holding \ {b}) = Cardinality(holding) - 1
      BY CountedAreFinite, FS_RemoveElement DEF LimiterInv, DropGuard
    <2>2. Cardinality(asleep \cup {s}) = Cardinality(asleep) + 1
      BY <1>1, CountedAreFinite, FS_AddElement DEF LimiterInv
    <2>3. tokens \in Int /\ Count \in Int
      BY RatelimitAssumption DEF LimiterInv, RatelimitTypeOK
    <2>4. holding' = holding \ {b} /\ tokens' = tokens
      BY DEF DropGuard
    <2>5. tokens + Cardinality(holding) + Cardinality(asleep) = Count
      BY DEF LimiterInv, TokensAreKept
    <2>6. tokens + (Cardinality(holding) - 1) + (Cardinality(asleep) + 1) = Count
      BY <2>3, <2>5, CountedAreFinite DEF LimiterInv
    <2> QED BY <1>1, <2>1, <2>2, <2>4, <2>6 DEF TokensAreKept
  <1>4. RecentAreAsleep'
    BY <1>1 DEF LimiterInv, RatelimitTypeOK, RecentAreAsleep, Recent, DropGuard
  <1> QED BY <1>2, <1>3, <1>4 DEF LimiterInv

(* A task that wakes up is not recent any more.                            *)
LEMMA WakeUpStep ==
    ASSUME LimiterInv, NEW s \in Sleepers, WakeUp(s)
    PROVE  LimiterInv'
  <1>1. RatelimitTypeOK'
    BY RatelimitAssumption DEF LimiterInv, RatelimitTypeOK, WakeUp
  <1>2. TokensAreKept'
    <2>1. Cardinality(asleep \ {s}) = Cardinality(asleep) - 1
      BY CountedAreFinite, FS_RemoveElement DEF LimiterInv, WakeUp
    <2>2. tokens \in Int /\ Count \in Int
      BY RatelimitAssumption DEF LimiterInv, RatelimitTypeOK
    <2> QED BY <2>1, <2>2, CountedAreFinite DEF LimiterInv, TokensAreKept, WakeUp
  <1>3. RecentAreAsleep'
    <2>1. s \notin Recent
      BY RatelimitAssumption DEF LimiterInv, RatelimitTypeOK, Recent, WakeUp
    <2>2. Recent' = Recent
      BY DEF Recent, WakeUp
    <2> QED BY <2>1, <2>2 DEF LimiterInv, RecentAreAsleep, WakeUp
  <1> QED BY <1>1, <1>2, <1>3 DEF LimiterInv

LEMMA NextLimiter == LimiterInv /\ [RatelimitNext]_ratelimitVars => LimiterInv'
  <1> SUFFICES ASSUME LimiterInv, [RatelimitNext]_ratelimitVars PROVE LimiterInv'
    OBVIOUS
  <1>1. CASE UNCHANGED ratelimitVars
    BY <1>1 DEF ratelimitVars, LimiterInv, RatelimitTypeOK, TokensAreKept, RecentAreAsleep,
                Recent
  <1> QED BY <1>1, PassTimeStep, BorrowStep, DropGuardStep, WakeUpStep DEF RatelimitNext

(* The recent uses are among the sleeping tasks, which with the guards and *)
(* the messages make up `count`.                                           *)
LEMMA LimiterLimits == LimiterInv => UsesAreLimited
  <1> SUFFICES ASSUME LimiterInv PROVE UsesAreLimited
    OBVIOUS
  <1>1. Cardinality(Recent) <= Cardinality(asleep) /\ Cardinality(Recent) \in Nat
    <2>1. IsFiniteSet(Recent) /\ Cardinality(Recent) <= Cardinality(asleep)
      BY CountedAreFinite, FS_Subset DEF LimiterInv, RecentAreAsleep
    <2> QED BY <2>1, FS_CardinalityType
  <1>2. tokens \in Nat /\ Count \in Nat
    BY RatelimitAssumption DEF LimiterInv, RatelimitTypeOK
  <1> QED BY <1>1, <1>2, CountedAreFinite DEF LimiterInv, TokensAreKept, UsesAreLimited

(* However many tasks borrow the value and however late the sleeping tasks *)
(* wake up, it is used at most `count` times in `wait_time` (Ratelimit).   *)
THEOREM RatelimitLimits == RatelimitSpec => []UsesAreLimited
  BY InitLimiter, NextLimiter, LimiterLimits, PTL DEF RatelimitSpec

-----------------------------------------------------------------------------
(* The beatmap caches *)

(* What is always true of one call, of the world and of the tables.        *)
LoadGood(l) ==
    /\ l \in Load
    /\ l.at # "unused" /\ l.op \in {"map", "set"} => \A b \in Maps : l.asked[b] <= version[b]
    /\ l.at = "store" /\ l.op \in {"map", "set"}
          => \A b \in Maps : l.got[b] # NoVersion => ranked /\ l.got[b] = version[b]
    /\ l.at \in {"store", "answered"} /\ l.op = "set" => \A b \in Maps : l.got[b] # NoVersion
    /\ l.at = "store" /\ l.op = "map" => l.got[l.key[1]] # NoVersion
    /\ l.at = "answered" /\ l.op \in {"map", "set"}
          => \A b \in Maps : l.got[b] # NoVersion => l.got[b] >= l.asked[b]
    /\ l.at \in {"clear rows", "clear files"} => l.op = "clear"
    /\ l.at \in {"borrow", "download"} => l.op = "file"
    /\ l.at = "fetch" => l.op \in {"map", "set"}
    /\ l.at = "store" => l.op \in {"map", "set", "file"}

OsuGood == version \in [Maps -> 0..MaxVersion] /\ ranked \in BOOLEAN

TablesGood ==
    /\ rows \in [Keys -> {NoVersion} \cup 0..MaxVersion]
    /\ \A k \in Keys : rows[k] # NoVersion => ranked /\ rows[k] = version[k[1]]
    /\ links \in {{}, {NativeKey(b) : b \in Maps}}
    /\ \A k \in links : rows[k] # NoVersion
    /\ files \in Versions

LoadsGood == \A c \in Loaders : LoadGood(load[c])

HoldersGood == \A c \in Loaders : c \in holding <=> load[c].at = "download"

CachesInv ==
    OsuGood /\ TablesGood /\ load \in [Loaders -> Load] /\ LoadsGood /\ HoldersGood

LEMMA VersionFacts ==
    /\ NoVersion \notin 0..MaxVersion
    /\ Nothing \in Versions
    /\ \A b \in Maps : \A v \in {NoVersion} \cup 0..MaxVersion : Only(b, v) \in Versions
    /\ \A b \in Maps : NativeKey(b) \in Keys /\ NativeKey(b)[1] = b
    /\ AnyKey \in Keys
  <1>1. NoVersion \notin 0..MaxVersion
    BY MapCachesAssumption DEF NoVersion
  <1>2. Nothing \in Versions
    BY DEF Nothing, Versions
  <1>3. \A b \in Maps : \A v \in {NoVersion} \cup 0..MaxVersion : Only(b, v) \in Versions
    BY DEF Only, Nothing, Versions
  <1>4. \A b \in Maps : NativeKey(b) \in Keys /\ NativeKey(b)[1] = b
    BY MapCachesAssumption DEF NativeKey, Keys
  <1>5. AnyKey \in Keys
    BY <1>4, MapCachesAssumption DEF AnyKey
  <1> QED BY <1>1, <1>2, <1>3, <1>4, <1>5

LEMMA UnusedGood == LoadGood(Unused) /\ Unused.at = "unused"
  BY DEF LoadGood, Load, Unused

(* One call changes, and what is said of it stays true of all calls.       *)
LEMMA OneLoad ==
    ASSUME CachesInv, NEW c \in Loaders, NEW l, LoadGood(l),
           load' = [load EXCEPT ![c] = l], UNCHANGED osu
    PROVE  load' \in [Loaders -> Load] /\ LoadsGood' /\ OsuGood'
  <1>1. l \in Load /\ load \in [Loaders -> Load]
    BY DEF LoadGood, CachesInv
  <1>2. load' \in [Loaders -> Load] /\ OsuGood'
    BY <1>1 DEF CachesInv, OsuGood, osu
  <1>3. \A d \in Loaders : LoadGood(load'[d])
    BY <1>1 DEF CachesInv, LoadsGood
  <1>4. ASSUME NEW d \in Loaders PROVE LoadGood(load[d])'
    <2>1. LoadGood(load'[d]) /\ version' = version /\ ranked' = ranked
      BY <1>3 DEF osu
    <2> QED BY <2>1 DEF LoadGood
  <1> QED BY <1>2, <1>4 DEF LoadsGood

(* A step that keeps everything but, maybe, the tables.                   *)
Kept ==
    /\ OsuGood' /\ load' \in [Loaders -> Load] /\ LoadsGood' /\ HoldersGood'
    /\ UNCHANGED tables => CachesInv'

(* The same when the tables and the limiter are left alone.                *)
LEMMA OnlyLoad ==
    ASSUME CachesInv, NEW c \in Loaders, NEW l, LoadGood(l),
           l.at # "download", load[c].at # "download",
           load' = [load EXCEPT ![c] = l], UNCHANGED <<ratelimitVars, osu>>
    PROVE  Kept
  <1>1. OsuGood' /\ load' \in [Loaders -> Load] /\ LoadsGood'
    BY OneLoad
  <1>2. HoldersGood'
    BY DEF CachesInv, HoldersGood, ratelimitVars
  <1>3. UNCHANGED tables => TablesGood'
    BY DEF CachesInv, TablesGood, tables, osu
  <1> QED BY <1>1, <1>2, <1>3 DEF CachesInv, Kept

LEMMA InitCaches == MapCachesInit => CachesInv
  <1> SUFFICES ASSUME MapCachesInit PROVE CachesInv
    OBVIOUS
  <1>1. OsuGood
    BY MapCachesAssumption DEF MapCachesInit, OsuGood
  <1>2. TablesGood
    BY VersionFacts DEF MapCachesInit, TablesGood
  <1>3. load \in [Loaders -> Load] /\ LoadsGood /\ HoldersGood
    BY UnusedGood DEF MapCachesInit, RatelimitInit, LoadsGood, HoldersGood, LoadGood
  <1> QED BY <1>1, <1>2, <1>3 DEF CachesInv

(* A change of the mapper, possible only while nothing is stored.          *)
LEMMA OsuStep ==
    ASSUME CachesInv, RankSet \/ \E b \in Maps : ChangeMap(b)
    PROVE  CachesInv'
  <1>1. ~ranked /\ UNCHANGED <<ratelimitVars, tables, load>>
    BY DEF RankSet, ChangeMap
  <1>2. OsuGood' /\ \A b \in Maps : version'[b] >= version[b]
    <2>1. version \in [Maps -> 0..MaxVersion] /\ MaxVersion \in Nat
      BY MapCachesAssumption DEF CachesInv, OsuGood
    <2>2. CASE RankSet
      BY <2>1, <2>2 DEF RankSet, OsuGood
    <2>3. ASSUME NEW b \in Maps, ChangeMap(b)
          PROVE  OsuGood' /\ \A d \in Maps : version'[d] >= version[d]
      <3>1. version[b] + 1 \in 0..MaxVersion
        BY <2>1, <2>3 DEF ChangeMap
      <3>2. OsuGood'
        BY <2>1, <2>3, <3>1 DEF ChangeMap, OsuGood, CachesInv
      <3>3. \A d \in Maps : version'[d] = IF d = b THEN version[b] + 1 ELSE version[d]
        BY <2>1, <2>3 DEF ChangeMap
      <3> QED BY <2>1, <3>2, <3>3
    <2> QED BY <2>2, <2>3
  <1>3. TablesGood'
    BY <1>1 DEF CachesInv, TablesGood, tables
  <1>4. LoadsGood'
    <2> SUFFICES ASSUME NEW c \in Loaders PROVE LoadGood(load[c])'
      BY DEF LoadsGood
    <2>1. LoadGood(load[c]) /\ load'[c] = load[c]
      BY <1>1 DEF CachesInv, LoadsGood
    <2>2. ASSUME load[c].at # "unused", load[c].op \in {"map", "set"}, NEW b \in Maps
          PROVE  load[c].asked[b] <= version'[b]
      <3>1. load[c].asked \in Versions
        <4>1. load[c] \in Load
          BY <2>1 DEF LoadGood
        <4>2. load[c] \in Ongoing
          BY <2>2, <4>1 DEF Load, Unused
        <4> QED BY <4>2 DEF Ongoing
      <3>2. version[b] \in Int /\ version'[b] \in Int /\ load[c].asked[b] \in Int
        BY <1>2, <3>1, MapCachesAssumption DEF CachesInv, OsuGood, Versions, NoVersion
      <3>3. load[c].asked[b] <= version[b]
        BY <2>1, <2>2 DEF LoadGood
      <3> QED BY <1>2, <3>2, <3>3
    <2> QED BY <1>1, <2>1, <2>2 DEF LoadGood
  <1>5. HoldersGood' /\ load' \in [Loaders -> Load]
    BY <1>1 DEF CachesInv, HoldersGood, ratelimitVars
  <1> QED BY <1>2, <1>3, <1>4, <1>5 DEF CachesInv
(* A call begins or ends.                                                  *)
LEMMA CallSteps ==
    ASSUME CachesInv, NEW c \in Loaders,
           \/ \E b \in Maps : GetBeatmapDefault(c, b) \/ GetFile(c, b)
           \/ \E b \in Maps, m \in MapModes : GetBeatmap(c, b, m)
           \/ GetBeatmapset(c) \/ Clear(c) \/ CallEnds(c)
    PROVE  CachesInv'
  <1>0. OsuGood /\ load \in [Loaders -> Load] /\ version \in Versions
    BY DEF CachesInv, OsuGood, Versions
  <1>1. ASSUME NEW op \in {"map", "set", "file", "clear"}, NEW k \in Keys,
               NEW asked \in {version, Nothing}, op \in {"map", "set"} => asked = version,
               Calls(c, op, k, asked)
        PROVE  CachesInv'
    <2> DEFINE l == [at |-> "look", op |-> op, key |-> k, asked |-> asked, got |-> Nothing]
    <2>1. load' = [load EXCEPT ![c] = l] /\ load[c].at = "unused"
      BY <1>1 DEF Calls, Unused
    <2>2. l \in Load /\ l.at = "look" /\ l.op = op /\ l.asked = asked
      BY <1>0, <1>1, VersionFacts DEF Load, Ongoing, Places
    <2>3. \A b \in Maps : version[b] <= version[b]
      BY <1>0, MapCachesAssumption DEF OsuGood
    <2> HIDE DEF l
    <2>4. LoadGood(l)
      BY <1>1, <2>2, <2>3 DEF LoadGood
    <2> QED BY <1>1, <2>1, <2>2, <2>4, OnlyLoad DEF Calls, Kept
  <1>2. ASSUME NEW b \in Maps, GetBeatmapDefault(c, b) \/ GetFile(c, b)
        PROVE  CachesInv'
    BY <1>1, <1>2, VersionFacts DEF GetBeatmapDefault, GetFile
  <1>3. ASSUME NEW b \in Maps, NEW m \in MapModes, GetBeatmap(c, b, m)
        PROVE  CachesInv'
    <2>1. <<b, m>> \in Keys
      BY DEF Keys
    <2> QED BY <1>1, <1>3, <2>1 DEF GetBeatmap
  <1>4. CASE GetBeatmapset(c) \/ Clear(c)
    BY <1>1, <1>4, VersionFacts DEF GetBeatmapset, Clear
  <1>5. CASE CallEnds(c)
    <2>1. load' = [load EXCEPT ![c] = Unused] /\ load[c].at = "answered"
      BY <1>5 DEF CallEnds
    <2> QED BY <1>5, <2>1, UnusedGood, OnlyLoad DEF CallEnds, Kept
  <1> QED BY <1>2, <1>3, <1>4, <1>5

(* The ends and turns of a call under way that leave the tables alone.     *)
LEMMA Turns ==
    ASSUME CachesInv, NEW c \in Loaders, load[c].at # "unused", load[c].at # "download",
           UNCHANGED <<ratelimitVars, osu>>
    PROVE  /\ Fails(c) => Kept
           /\ \A at \in Places \ {"store", "download", "answered"} :
                 /\ Goes(c, at)
                 /\ at \in {"clear rows", "clear files"} => load[c].op = "clear"
                 /\ at = "borrow" => load[c].op = "file"
                 /\ at = "fetch" => load[c].op \in {"map", "set"}
                 => Kept
           /\ \A got \in Versions :
                 /\ Answers(c, got)
                 /\ load[c].op = "set" => \A b \in Maps : got[b] # NoVersion
                 /\ load[c].op \in {"map", "set"}
                       => \A b \in Maps : got[b] # NoVersion => got[b] = version[b]
                 => Kept
  <1>0. /\ load \in [Loaders -> Load] /\ load[c] \in Load /\ LoadGood(load[c])
        /\ load[c] \in Ongoing
    <2>1. load \in [Loaders -> Load] /\ load[c] \in Load /\ LoadGood(load[c])
      BY DEF CachesInv, LoadsGood
    <2>2. load[c] \in Ongoing
      BY <2>1 DEF Load, Unused
    <2> QED BY <2>1, <2>2
  <1>1. ASSUME Fails(c)
        PROVE  Kept
    BY <1>1, UnusedGood, OnlyLoad DEF Fails
  <1>2. ASSUME NEW at \in Places \ {"store", "download", "answered"}, Goes(c, at),
               at \in {"clear rows", "clear files"} => load[c].op = "clear",
               at = "borrow" => load[c].op = "file",
               at = "fetch" => load[c].op \in {"map", "set"}
        PROVE  Kept
    <2> DEFINE l == [load[c] EXCEPT !.at = at]
    <2>1. load' = [load EXCEPT ![c] = l]
      BY <1>0, <1>2 DEF Goes
    <2>2. /\ l \in Load /\ l.at = at /\ l.op = load[c].op /\ l.asked = load[c].asked
      <3>1. l \in Ongoing /\ l.at = at /\ l.op = load[c].op /\ l.asked = load[c].asked
        BY <1>0 DEF Ongoing
      <3> QED BY <3>1 DEF Load
    <2> HIDE DEF l
    <2>3. LoadGood(l)
      BY <1>0, <1>2, <2>2 DEF LoadGood
    <2> QED BY <1>2, <2>1, <2>2, <2>3, OnlyLoad
  <1>3. ASSUME NEW got \in Versions, Answers(c, got),
               load[c].op = "set" => \A b \in Maps : got[b] # NoVersion,
               load[c].op \in {"map", "set"}
                  => \A b \in Maps : got[b] # NoVersion => got[b] = version[b]
        PROVE  Kept
    <2> DEFINE l == [load[c] EXCEPT !.at = "answered", !.got = got]
    <2>1. load' = [load EXCEPT ![c] = l]
      BY <1>0, <1>3 DEF Answers, Gets
    <2>2. /\ l \in Load /\ l.at = "answered" /\ l.op = load[c].op /\ l.got = got
          /\ l.asked = load[c].asked
      <3>1. /\ l \in Ongoing /\ l.at = "answered" /\ l.op = load[c].op /\ l.got = got
            /\ l.asked = load[c].asked
        BY <1>0, <1>3 DEF Ongoing, Places
      <3> QED BY <3>1 DEF Load
    <2> HIDE DEF l
    <2>3. ASSUME load[c].op \in {"map", "set"}, NEW b \in Maps, got[b] # NoVersion
          PROVE  got[b] >= load[c].asked[b]
      <3>1. load[c].asked[b] <= version[b] /\ got[b] = version[b]
        BY <1>0, <1>3, <2>3 DEF LoadGood
      <3>2. load[c].asked \in Versions /\ version[b] \in Int
        BY <1>0, MapCachesAssumption DEF Ongoing, CachesInv, OsuGood
      <3>3. load[c].asked[b] \in Int
        BY <3>2, MapCachesAssumption DEF Versions, NoVersion
      <3> QED BY <3>1, <3>2, <3>3
    <2>4. LoadGood(l)
      BY <1>0, <1>3, <2>2, <2>3 DEF LoadGood
    <2> QED BY <1>3, <2>1, <2>2, <2>4, OnlyLoad
  <1> QED BY <1>1, <1>2, <1>3

LEMMA LookUpSteps ==
    ASSUME CachesInv, NEW c \in Loaders,
           LookUpMap(c) \/ LookUpSet(c) \/ LookUpFile(c)
    PROVE  CachesInv'
  <1>0. /\ load[c].at = "look" /\ UNCHANGED <<ratelimitVars, osu>> /\ UNCHANGED tables
        /\ load[c] \in Ongoing /\ OsuGood /\ TablesGood
    <2>1. load[c].at = "look" /\ UNCHANGED <<ratelimitVars, osu>> /\ UNCHANGED tables
      BY DEF LookUpMap, LookUpSet, LookUpFile
    <2> QED BY <2>1 DEF CachesInv, Load, Unused
  <1>1. CASE LookUpMap(c)
    <2> DEFINE k == load[c].key
               got == Only(k[1], rows[k])
    <2>1. k \in Keys /\ k[1] \in Maps /\ rows[k] \in {NoVersion} \cup 0..MaxVersion
      BY <1>0 DEF Ongoing, Keys, TablesGood
    <2>2. /\ got \in Versions
          /\ \A b \in Maps : got[b] # NoVersion => got[b] = version[b]
      <3>1. got \in Versions
        BY <2>1, VersionFacts
      <3>2. \A b \in Maps : got[b] = IF b = k[1] THEN rows[k] ELSE NoVersion
        BY DEF Only, Nothing
      <3>3. rows[k] # NoVersion => rows[k] = version[k[1]]
        BY <1>0, <2>1 DEF TablesGood
      <3> QED BY <3>1, <3>2, <3>3
    <2>3. \/ Answers(c, got) \/ Goes(c, "fetch") \/ Fails(c)
      BY <1>1 DEF LookUpMap, MayFail
    <2>4. load[c].op = "map"
      BY <1>1 DEF LookUpMap
    <2> HIDE DEF got
    <2> QED BY <1>0, <2>2, <2>3, <2>4, Turns DEF Kept, Places
  <1>2. CASE LookUpSet(c)
    <2> DEFINE got == [b \in Maps |-> IF NativeKey(b) \in links THEN rows[NativeKey(b)]
                                      ELSE NoVersion]
    <2>1. \A b \in Maps : rows[NativeKey(b)] \in {NoVersion} \cup 0..MaxVersion
      BY <1>0, VersionFacts DEF TablesGood
    <2>2. got \in Versions
      BY <2>1 DEF Versions
    <2>3. \A b \in Maps : got[b] # NoVersion => got[b] = version[b]
      BY <1>0, VersionFacts DEF TablesGood
    <2>4. links # {} => \A b \in Maps : got[b] # NoVersion
      <3>1. links # {} => links = {NativeKey(b) : b \in Maps}
        BY <1>0 DEF TablesGood
      <3>2. \A k \in links : rows[k] # NoVersion
        BY <1>0 DEF TablesGood
      <3> QED BY <3>1, <3>2
    <2>5. \/ links # {} /\ Answers(c, got)
          \/ Goes(c, "fetch") \/ Fails(c)
      BY <1>2 DEF LookUpSet, MayFail
    <2>6. load[c].op = "set"
      BY <1>2 DEF LookUpSet
    <2> HIDE DEF got
    <2> QED BY <1>0, <2>2, <2>3, <2>4, <2>5, <2>6, Turns DEF Kept, Places
  <1>3. CASE LookUpFile(c)
    <2> DEFINE got == Only(load[c].key[1], files[load[c].key[1]])
    <2>1. got \in Versions
      <3>1. load[c].key[1] \in Maps
        BY <1>0 DEF Ongoing, Keys
      <3> QED BY <1>0, <3>1, VersionFacts DEF TablesGood, Versions
    <2>2. Answers(c, got) \/ Goes(c, "borrow") \/ Fails(c)
      BY <1>3 DEF LookUpFile, MayFail
    <2>3. load[c].op = "file"
      BY <1>3 DEF LookUpFile
    <2> HIDE DEF got
    <2> QED BY <1>0, <2>1, <2>2, <2>3, Turns DEF Kept, Places
  <1> QED BY <1>1, <1>2, <1>3

(* What the API answers is what osu! has; it is kept only if it is final.  *)
LEMMA FetchStep ==
    ASSUME CachesInv, NEW c \in Loaders, Fetch(c)
    PROVE  CachesInv'
  <1> DEFINE b == load[c].key[1]
             got == IF load[c].op = "set" THEN version ELSE Only(b, version[b])
  <1>0. /\ load[c].at = "fetch" /\ UNCHANGED <<ratelimitVars, osu>> /\ UNCHANGED tables
        /\ load \in [Loaders -> Load] /\ LoadGood(load[c])
        /\ load[c] \in Ongoing /\ OsuGood /\ ranked \in BOOLEAN
    BY DEF Fetch, CachesInv, LoadsGood, Load, Unused, OsuGood
  <1>1. b \in Maps /\ version[b] \in {NoVersion} \cup 0..MaxVersion
    BY <1>0 DEF Ongoing, Keys, OsuGood
  <1>2. got \in Versions
    <2>1. version \in Versions
      BY <1>0 DEF OsuGood, Versions
    <2> QED BY <1>1, <2>1, VersionFacts
  <1>3. /\ load[c].op = "set" => \A d \in Maps : got[d] # NoVersion
        /\ \A d \in Maps : got[d] # NoVersion => got[d] = version[d]
        /\ got[b] # NoVersion
    <2>1. \A d \in Maps : version[d] # NoVersion
      BY <1>0, VersionFacts DEF OsuGood
    <2>2. \A d \in Maps : Only(b, version[b])[d] = IF d = b THEN version[b] ELSE NoVersion
      BY DEF Only, Nothing
    <2> QED BY <1>1, <2>1, <2>2
  <1>4. \/ ranked /\ Gets(c, "store", got)
        \/ Answers(c, got)
        \/ Fails(c)
    BY <1>0 DEF Fetch, MayFail, Answers
  <1> HIDE DEF got
  <1>5. CASE Answers(c, got)
    BY <1>0, <1>2, <1>3, <1>5, Turns DEF Kept
  <1>6. CASE Fails(c)
    BY <1>0, <1>6, Turns DEF Kept
  <1>7. CASE ranked /\ Gets(c, "store", got)
    <2> DEFINE l == [load[c] EXCEPT !.at = "store", !.got = got]
    <2>1. load' = [load EXCEPT ![c] = l]
      BY <1>0, <1>7 DEF Gets
    <2>2. /\ l \in Load /\ l.at = "store" /\ l.op = load[c].op /\ l.got = got
          /\ l.asked = load[c].asked /\ l.key = load[c].key
      <3>1. /\ l \in Ongoing /\ l.at = "store" /\ l.op = load[c].op /\ l.got = got
            /\ l.asked = load[c].asked /\ l.key = load[c].key
        BY <1>0, <1>2 DEF Ongoing, Places
      <3> QED BY <3>1 DEF Load
    <2> HIDE DEF l
    <2>3. LoadGood(l)
      BY <1>0, <1>3, <1>7, <2>2 DEF LoadGood
    <2> QED BY <1>0, <2>1, <2>2, <2>3, OnlyLoad DEF Kept
  <1> QED BY <1>4, <1>5, <1>6, <1>7

(* Rows and links are written from what a call fetched while it was ranked. *)
LEMMA StoreSteps ==
    ASSUME CachesInv, NEW c \in Loaders,
           StoreMap(c) \/ StoreSet(c) \/ StoreFile(c)
    PROVE  CachesInv'
  <1> DEFINE got == load[c].got
  <1>0. /\ load[c].at = "store" /\ UNCHANGED <<ratelimitVars, osu>>
        /\ LoadGood(load[c]) /\ load[c] \in Ongoing /\ OsuGood /\ TablesGood
    <2>1. load[c].at = "store" /\ UNCHANGED <<ratelimitVars, osu>>
      BY DEF StoreMap, StoreSet, StoreFile
    <2> QED BY <2>1 DEF CachesInv, LoadsGood, Load, Unused
  <1>1. /\ got \in Versions /\ load[c].key \in Keys /\ load[c].key[1] \in Maps
        /\ load[c].op \in {"map", "set"}
             => \A b \in Maps : got[b] # NoVersion => ranked /\ got[b] = version[b]
        /\ load[c].op = "set" => \A b \in Maps : got[b] # NoVersion
    BY <1>0 DEF LoadGood, Ongoing, Keys
  <1>2. CASE StoreMap(c)
    <2> DEFINE k == load[c].key
    <2>1. Answers(c, got) /\ load[c].op = "map" /\ UNCHANGED <<links, files>>
      BY <1>2 DEF StoreMap
    <2>2. rows' = [rows EXCEPT ![k] = got[k[1]]] \/ rows' = rows
      BY <1>2 DEF StoreMap
    <2>3. Kept
      BY <1>0, <1>1, <2>1, Turns
    <2>4. CASE rows' = rows
      BY <2>1, <2>3, <2>4 DEF Kept, tables
    <2>5. CASE rows' = [rows EXCEPT ![k] = got[k[1]]]
      <3>1. got[k[1]] \in {NoVersion} \cup 0..MaxVersion
        BY <1>1 DEF Versions
      <3>2. \A q \in Keys : rows'[q] = IF q = k THEN got[k[1]] ELSE rows[q]
        BY <1>0, <2>5 DEF TablesGood
      <3>3. rows' \in [Keys -> {NoVersion} \cup 0..MaxVersion]
        BY <1>0, <2>5, <3>1 DEF TablesGood
      <3>4. \A q \in Keys : rows'[q] # NoVersion => ranked /\ rows'[q] = version[q[1]]
        BY <1>0, <1>1, <2>1, <3>2 DEF TablesGood
      <3>5. \A q \in links : rows'[q] # NoVersion
        <4> SUFFICES ASSUME NEW q \in links PROVE rows'[q] # NoVersion
          OBVIOUS
        <4>1. q \in Keys /\ rows[q] # NoVersion
          BY <1>0, VersionFacts DEF TablesGood
        <4>2. q = k => got[k[1]] # NoVersion
          BY <1>0, <2>1 DEF LoadGood
        <4> QED BY <3>2, <4>1, <4>2
      <3> QED BY <1>0, <2>1, <2>3, <3>3, <3>4, <3>5 DEF TablesGood, Kept, CachesInv, osu
    <2> QED BY <2>2, <2>4, <2>5
  <1>3. CASE StoreSet(c)
    <2>1. load[c].op = "set" /\ UNCHANGED files
      BY <1>3 DEF StoreSet
    <2>2. CASE Linking(Maps, got) /\ Answers(c, got)
      <3>1. Kept
        BY <1>0, <1>1, <2>1, <2>2, Turns
      <3>2. \A k \in Keys : rows'[k] = IF k = NativeKey(k[1]) THEN got[k[1]] ELSE rows[k]
        BY <2>2 DEF Linking, Keys
      <3>3. \A k \in Keys : k[1] \in Maps /\ got[k[1]] \in {NoVersion} \cup 0..MaxVersion
        BY <1>1 DEF Keys, Versions
      <3>4. rows' \in [Keys -> {NoVersion} \cup 0..MaxVersion]
        <4>1. rows' = [k \in Keys |-> rows'[k]]
          BY <2>2 DEF Linking
        <4> QED BY <1>0, <3>2, <3>3, <4>1 DEF TablesGood
      <3>5. \A k \in Keys : rows'[k] # NoVersion => ranked /\ rows'[k] = version[k[1]]
        BY <1>0, <1>1, <2>1, <3>2, <3>3 DEF TablesGood
      <3>6. links' = {NativeKey(b) : b \in Maps}
        BY <1>0, <2>2 DEF Linking, TablesGood
      <3>7. \A b \in Maps : rows'[NativeKey(b)] # NoVersion
        BY <1>1, <2>1, <3>2, VersionFacts
      <3>8. \A k \in links' : rows'[k] # NoVersion
        BY <3>6, <3>7
      <3> QED BY <1>0, <2>1, <3>1, <3>4, <3>5, <3>6, <3>8 DEF TablesGood, Kept, CachesInv, osu
    <2>3. CASE Fails(c) /\ UNCHANGED <<rows, links>>
      BY <1>0, <2>1, <2>3, Turns DEF Kept, tables
    <2> QED BY <1>3, <2>2, <2>3 DEF StoreSet, MayFail
  <1>4. CASE StoreFile(c)
    <2>1. load[c].op = "file" /\ UNCHANGED <<rows, links>>
      BY <1>4 DEF StoreFile
    <2>2. (Answers(c, got) /\ files' = [files EXCEPT ![load[c].key[1]] = got[load[c].key[1]]])
          \/ (Fails(c) /\ UNCHANGED files)
      BY <1>4 DEF StoreFile, MayFail
    <2>3. Kept
      BY <1>0, <1>1, <2>1, <2>2, Turns
    <2>4. files' \in Versions
      BY <1>0, <1>1, <2>2 DEF TablesGood, Versions
    <2> QED BY <1>0, <2>1, <2>3, <2>4 DEF Kept, CachesInv, TablesGood, osu
  <1> QED BY <1>2, <1>3, <1>4

(* The links go before the rows, and the rows only while nothing is linked. *)
LEMMA ClearSteps ==
    ASSUME CachesInv, NEW c \in Loaders,
           ClearLinks(c) \/ ClearRows(c) \/ ClearFiles(c)
    PROVE  CachesInv'
  <1>0. /\ load[c].at \in {"look", "clear rows", "clear files"} /\ load[c].op = "clear"
        /\ UNCHANGED <<ratelimitVars, osu>> /\ TablesGood
    <2>1. load[c].at \in {"look", "clear rows", "clear files"} /\ UNCHANGED <<ratelimitVars, osu>>
      BY DEF ClearLinks, ClearRows, ClearFiles
    <2>2. load[c].op = "clear"
      <3>1. LoadGood(load[c])
        BY DEF CachesInv, LoadsGood
      <3> QED BY <3>1 DEF ClearLinks, ClearRows, ClearFiles, LoadGood
    <2> QED BY <2>1, <2>2 DEF CachesInv
  <1>1. CASE ClearLinks(c)
    <2>1. UNCHANGED <<rows, files>>
      BY <1>1 DEF ClearLinks
    <2>2. (links' = {} /\ Goes(c, "clear rows")) \/ (Fails(c) /\ UNCHANGED links)
      BY <1>1 DEF ClearLinks, MayFail
    <2>3. Kept
      BY <1>0, <2>2, Turns DEF Places
    <2> QED BY <1>0, <2>1, <2>2, <2>3 DEF Kept, CachesInv, TablesGood, osu
  <1>2. CASE ClearRows(c)
    <2>1. UNCHANGED <<links, files>>
      BY <1>2 DEF ClearRows
    <2>2. \/ links = {} /\ rows' = [k \in Keys |-> NoVersion] /\ Goes(c, "clear files")
          \/ Fails(c) /\ UNCHANGED rows
      BY <1>2 DEF ClearRows
    <2>3. Kept
      BY <1>0, <2>2, Turns DEF Places
    <2> QED BY <1>0, <2>1, <2>2, <2>3 DEF Kept, CachesInv, TablesGood, osu
  <1>3. CASE ClearFiles(c)
    <2>1. files' = Nothing /\ Answers(c, Nothing) /\ UNCHANGED <<rows, links>>
      BY <1>3 DEF ClearFiles
    <2>2. Kept
      BY <1>0, <2>1, Turns, VersionFacts
    <2> QED BY <1>0, <2>1, <2>2, VersionFacts DEF Kept, CachesInv, TablesGood, osu
  <1> QED BY <1>1, <1>2, <1>3

(* The guard of the client is held from the borrow to the download.        *)
LEMMA DownloadSteps ==
    ASSUME CachesInv, NEW c \in Loaders, BorrowClient(c) \/ Download(c)
    PROVE  CachesInv'
  <1> DEFINE b == load[c].key[1]
  <1>0. /\ load[c].at \in {"borrow", "download"} /\ UNCHANGED <<osu, tables>>
        /\ load \in [Loaders -> Load] /\ LoadGood(load[c]) /\ load[c] \in Ongoing
        /\ OsuGood /\ load[c].op = "file"
    <2>1. load[c].at \in {"borrow", "download"} /\ UNCHANGED <<osu, tables>>
      BY DEF BorrowClient, Download
    <2>2. load[c].op = "file"
      BY <2>1 DEF CachesInv, LoadsGood, LoadGood
    <2> QED BY <2>1, <2>2 DEF CachesInv, LoadsGood, Load, Unused
  <1>1. TablesGood'
    BY <1>0 DEF CachesInv, TablesGood, tables, osu
  <1>2. CASE BorrowClient(c)
    <2> DEFINE l == [load[c] EXCEPT !.at = "download"]
    <2>1. load' = [load EXCEPT ![c] = l] /\ holding' = holding \cup {c}
      BY <1>0, <1>2 DEF BorrowClient, Goes, Borrow
    <2>2. l \in Load /\ l.at = "download" /\ l.op = load[c].op
      <3>1. l \in Ongoing /\ l.at = "download" /\ l.op = load[c].op
        BY <1>0 DEF Ongoing, Places
      <3> QED BY <3>1 DEF Load
    <2> HIDE DEF l
    <2>3. LoadGood(l)
      BY <1>0, <2>2 DEF LoadGood
    <2>4. load' \in [Loaders -> Load] /\ LoadsGood' /\ OsuGood'
      BY <1>0, <2>1, <2>3, OneLoad
    <2>5. HoldersGood'
      BY <1>0, <2>1, <2>2 DEF CachesInv, HoldersGood
    <2> QED BY <1>1, <2>4, <2>5 DEF CachesInv
  <1>3. CASE Download(c)
    <2> DEFINE got == Only(b, version[b])
               l == [load[c] EXCEPT !.at = "store", !.got = got]
    <2>1. load' = [load EXCEPT ![c] = l] \/ load' = [load EXCEPT ![c] = Unused]
      BY <1>0, <1>3 DEF Download, Gets, MayFail, Fails
    <2>2. holding' = holding \ {c}
      BY <1>3 DEF Download, DropGuard
    <2>3. got \in Versions
      <3>1. b \in Maps
        BY <1>0 DEF Ongoing, Keys
      <3> QED BY <1>0, <3>1, VersionFacts DEF OsuGood
    <2>4. l \in Load /\ l.at = "store" /\ l.op = load[c].op
      <3>1. l \in Ongoing /\ l.at = "store" /\ l.op = load[c].op
        BY <1>0, <2>3 DEF Ongoing, Places
      <3> QED BY <3>1 DEF Load
    <2> HIDE DEF l
    <2>5. LoadGood(l)
      BY <1>0, <2>4 DEF LoadGood
    <2>6. load' \in [Loaders -> Load] /\ LoadsGood' /\ OsuGood'
      BY <1>0, <2>1, <2>5, UnusedGood, OneLoad
    <2>7. HoldersGood'
      BY <1>0, <2>1, <2>2, <2>4, UnusedGood DEF CachesInv, HoldersGood
    <2> QED BY <1>1, <2>6, <2>7 DEF CachesInv
  <1> QED BY <1>2, <1>3

(* Time passes, and tasks wake up, beside the calls.                       *)
LEMMA UnchangedCaches ==
    ASSUME CachesInv, UNCHANGED <<osu, tables, load, holding>>
    PROVE  CachesInv'
  <1>1. OsuGood' /\ TablesGood' /\ load' \in [Loaders -> Load] /\ HoldersGood'
    BY DEF CachesInv, OsuGood, TablesGood, HoldersGood, osu, tables
  <1>2. ASSUME NEW c \in Loaders PROVE LoadGood(load[c])'
    <2>1. LoadGood(load[c]) /\ load' = load /\ version' = version /\ ranked' = ranked
      BY DEF CachesInv, LoadsGood, osu
    <2> QED BY <2>1 DEF LoadGood
  <1> QED BY <1>1, <1>2 DEF CachesInv, LoadsGood

LEMMA NextCaches == CachesInv /\ [MapCachesNext]_mapCachesVars => CachesInv'
  <1> SUFFICES ASSUME CachesInv, [MapCachesNext]_mapCachesVars PROVE CachesInv'
    OBVIOUS
  <1>1. CASE UNCHANGED mapCachesVars
    BY <1>1, UnchangedCaches DEF mapCachesVars, ratelimitVars
  <1>2. CASE RankSet \/ \E b \in Maps : ChangeMap(b)
    BY <1>2, OsuStep
  <1>3. ASSUME NEW c \in Loaders, MapCachesStep(c)
        PROVE  CachesInv'
    BY <1>3, CallSteps, LookUpSteps, FetchStep, StoreSteps, ClearSteps, DownloadSteps
       DEF MapCachesStep
  <1>4. CASE LimiterStep
    BY <1>4, UnchangedCaches DEF LimiterStep, PassTime, WakeUp
  <1> QED BY <1>1, <1>2, <1>3, <1>4 DEF MapCachesNext

LEMMA SpecCaches == MapCachesSpec => []CachesInv
  BY InitCaches, NextCaches, PTL DEF MapCachesSpec

(* The caches use the rate limiter only as it offers itself.               *)
LEMMA StepUsesLimiter == [MapCachesNext]_mapCachesVars => [RatelimitNext]_ratelimitVars
  <1> SUFFICES ASSUME [MapCachesNext]_mapCachesVars PROVE [RatelimitNext]_ratelimitVars
    OBVIOUS
  <1>1. CASE UNCHANGED mapCachesVars
    BY <1>1 DEF mapCachesVars
  <1>2. CASE RankSet \/ \E b \in Maps : ChangeMap(b)
    BY <1>2 DEF RankSet, ChangeMap
  <1>3. ASSUME NEW c \in Loaders, MapCachesStep(c)
        PROVE  [RatelimitNext]_ratelimitVars
    <2>1. CASE BorrowClient(c) \/ Download(c)
      BY <2>1, MapCachesAssumption DEF BorrowClient, Download, RatelimitNext
    <2>2. CASE ~(BorrowClient(c) \/ Download(c))
      BY <1>3, <2>2 DEF MapCachesStep, GetBeatmapDefault, GetFile, GetBeatmap, GetBeatmapset,
           Clear, Calls, CallEnds, LookUpMap, LookUpSet, Fetch, StoreMap, StoreSet, ClearLinks,
           ClearRows, ClearFiles, LookUpFile, StoreFile
    <2> QED BY <2>1, <2>2
  <1>4. CASE LimiterStep
    BY <1>4 DEF LimiterStep, RatelimitNext
  <1> QED BY <1>1, <1>2, <1>3, <1>4 DEF MapCachesNext

LEMMA CachesUseLimiter == MapCachesSpec => RatelimitSpec
  <1>1. MapCachesInit => RatelimitInit
    BY DEF MapCachesInit
  <1> QED BY <1>1, StepUsesLimiter, PTL DEF MapCachesSpec, RatelimitSpec

(* The downloads of map files are limited, whichever of them fail and      *)
(* whatever else the caches do (download_beatmap_from_url).                *)
THEOREM DownloadsAreLimited == MapCachesSpec => []UsesAreLimited
  BY CachesUseLimiter, RatelimitLimits, PTL

(* An answer about a map is never older than the question, for any number  *)
(* of callers, changes, failures and clearings (get_beatmap, beatmapset).  *)
THEOREM AnswersAreCurrent == MapCachesSpec => []MapsAreCurrent
  <1>1. CachesInv => MapsAreCurrent
    BY DEF CachesInv, LoadsGood, LoadGood, MapsAreCurrent
  <1> QED BY <1>1, SpecCaches, PTL

(* A set is answered with all of its maps, for any number of maps and      *)
(* callers (get_beatmapset, link_beatmapset, clear_all).                   *)
THEOREM AnswersAreWhole == MapCachesSpec => []SetsAreWhole
  <1>1. CachesInv => SetsAreWhole
    BY DEF CachesInv, LoadsGood, LoadGood, SetsAreWhole
  <1> QED BY <1>1, SpecCaches, PTL

-----------------------------------------------------------------------------
(* The ignore list *)

IgnoreInv == IgnoreListTypeOK /\ Settled

LEMMA InitIgnore == IgnoreListInit => IgnoreInv
  BY DEF IgnoreListInit, IgnoreInv, IgnoreListTypeOK, Settled, Owner, NoOwner, About

LEMMA BeginIgnoreStep ==
    ASSUME IgnoreInv, NEW o \in OwnerCommands, NEW p \in People,
           NEW does \in {"add", "remove"}, BeginIgnore(o, does, p)
    PROVE  IgnoreInv'
  <1> DEFINE new == [at |-> "table", does |-> does, who |-> p]
  <1>0. /\ owner[o] = NoOwner /\ owner' = [owner EXCEPT ![o] = new] /\ told' = told \ {p}
        /\ UNCHANGED <<ignoredUsers, list>>
        /\ mixed' = IF About(p) = {} THEN mixed \ {p} ELSE mixed \cup {p}
    BY DEF BeginIgnore
  <1>1. new \in Owner /\ new # NoOwner /\ new.at = "table" /\ new.who = p
    BY DEF Owner, NoOwner
  <1> HIDE DEF new
  <1>2. IgnoreListTypeOK'
    BY <1>0, <1>1 DEF IgnoreInv, IgnoreListTypeOK
  <1>3. \A r \in OwnerCommands : owner'[r] = IF r = o THEN new ELSE owner[r]
    BY <1>0 DEF IgnoreInv, IgnoreListTypeOK
  <1>4. \A q \in People : q # p => About(q)' = About(q) /\ (q \in mixed' <=> q \in mixed)
    BY <1>0, <1>1, <1>3 DEF About
  <1>5. \A r \in OwnerCommands : owner[r] # NoOwner => owner[r].who \in People
    BY DEF IgnoreInv, IgnoreListTypeOK, Owner
  <1>6. \A r \in OwnerCommands :
          owner[r] # NoOwner /\ owner[r].who = p => p \in mixed'
    BY <1>0 DEF About
  <1>7. Settled'
    BY <1>0, <1>1, <1>3, <1>4, <1>5, <1>6 DEF IgnoreInv, Settled, IgnoreListTypeOK
  <1> QED BY <1>2, <1>7 DEF IgnoreInv

LEMMA ChangeTableStep ==
    ASSUME IgnoreInv, NEW o \in OwnerCommands, ChangeTable(o)
    PROVE  IgnoreInv'
  <1> DEFINE p == owner[o].who
  <1>0. /\ owner[o].at = "table" /\ owner[o] \in Owner /\ owner[o] # NoOwner /\ p \in People
        /\ owner[o].does \in {"add", "remove"}
        /\ UNCHANGED <<list, told, mixed>>
    BY DEF ChangeTable, IgnoreInv, IgnoreListTypeOK, Owner, NoOwner
  <1>1. \A q \in told \ mixed : q # p
    BY <1>0 DEF IgnoreInv, Settled, About
  <1>2. CASE /\ ignoredUsers' = Changed(ignoredUsers, o)
             /\ owner' = [owner EXCEPT ![o].at = "list"]
    <2> DEFINE new == [owner[o] EXCEPT !.at = "list"]
    <2>1. /\ new \in Owner /\ new # NoOwner /\ new.who = p /\ new.does = owner[o].does
      BY <1>0 DEF Owner, NoOwner
    <2>2. owner' = [owner EXCEPT ![o] = new]
      BY <1>2
    <2> HIDE DEF new
    <2>3. \A r \in OwnerCommands : owner'[r] = IF r = o THEN new ELSE owner[r]
      BY <2>2 DEF IgnoreInv, IgnoreListTypeOK
    <2>4. /\ \A q \in People \ {p} : q \in ignoredUsers' <=> q \in ignoredUsers
          /\ owner[o].does = "add" => p \in ignoredUsers'
          /\ ignoredUsers' \subseteq People
      BY <1>0, <1>2 DEF Changed, IgnoreInv, IgnoreListTypeOK
    <2>5. IgnoreListTypeOK'
      BY <1>0, <2>1, <2>2, <2>4 DEF IgnoreInv, IgnoreListTypeOK
    <2>6. \A q \in People : About(q)' = About(q)
      BY <1>0, <2>1, <2>3 DEF About
    <2>7. \A r \in OwnerCommands : owner[r] # NoOwner => owner[r].who \in People
      BY DEF IgnoreInv, IgnoreListTypeOK, Owner
    <2>8. Settled'
      BY <1>0, <1>1, <2>1, <2>3, <2>4, <2>6, <2>7 DEF IgnoreInv, Settled, IgnoreListTypeOK
    <2> QED BY <2>5, <2>8 DEF IgnoreInv
  <1>3. CASE owner' = [owner EXCEPT ![o] = NoOwner] /\ UNCHANGED ignoredUsers
    <2>1. \A r \in OwnerCommands : owner'[r] = IF r = o THEN NoOwner ELSE owner[r]
      BY <1>3 DEF IgnoreInv, IgnoreListTypeOK
    <2>2. IgnoreListTypeOK'
      BY <1>0, <1>3 DEF IgnoreInv, IgnoreListTypeOK, Owner
    <2>3. Settled'
      BY <1>0, <1>3, <2>1 DEF IgnoreInv, Settled, About
    <2> QED BY <2>2, <2>3 DEF IgnoreInv
  <1> QED BY <1>2, <1>3 DEF ChangeTable

LEMMA ChangeListStep ==
    ASSUME IgnoreInv, NEW o \in OwnerCommands, ChangeList(o)
    PROVE  IgnoreInv' /\ (IgnoredStayIgnored => IgnoredStayIgnored')
  <1> DEFINE p == owner[o].who
  <1>0. /\ owner[o].at = "list" /\ owner[o] \in Owner /\ owner[o] # NoOwner /\ p \in People
        /\ owner[o].does \in {"add", "remove"}
        /\ owner' = [owner EXCEPT ![o] = NoOwner]
        /\ list' = Changed(list, o) /\ told' = Changed(told, o)
        /\ UNCHANGED <<ignoredUsers, mixed>>
    BY DEF ChangeList, IgnoreInv, IgnoreListTypeOK, Owner, NoOwner
  <1>1. \A r \in OwnerCommands : owner'[r] = IF r = o THEN NoOwner ELSE owner[r]
    BY <1>0 DEF IgnoreInv, IgnoreListTypeOK
  <1>2. /\ \A q : q # p => (q \in told' <=> q \in told) /\ (q \in list' <=> q \in list)
        /\ p \in told' => owner[o].does = "add" /\ p \in list'
    BY <1>0 DEF Changed
  <1>3. IgnoreListTypeOK'
    BY <1>0 DEF IgnoreInv, IgnoreListTypeOK, Owner, Changed
  <1>4. ASSUME NEW q \in told' \ mixed'
        PROVE  About(q)' = {} /\ q \in ignoredUsers'
    <2>1. CASE q = p
      <3>1. q \in ignoredUsers
        BY <1>0, <1>2, <1>4, <2>1 DEF IgnoreInv, Settled
      <3>2. \A r \in OwnerCommands : owner[r] # NoOwner /\ owner[r].who = q => r = o
        BY <1>0, <1>4, <2>1 DEF IgnoreInv, Settled
      <3> QED BY <1>0, <1>1, <3>1, <3>2 DEF About
    <2>2. CASE q # p
      <3>1. About(q) = {} /\ q \in ignoredUsers
        BY <1>0, <1>2, <1>4, <2>2 DEF IgnoreInv, Settled
      <3> QED BY <1>0, <1>1, <3>1 DEF About
    <2> QED BY <2>1, <2>2
  <1>5. Settled'
    BY <1>0, <1>1, <1>4 DEF IgnoreInv, Settled
  <1>6. IgnoredStayIgnored => IgnoredStayIgnored'
    BY <1>0, <1>2 DEF IgnoredStayIgnored, ShouldIgnore
  <1> QED BY <1>3, <1>5, <1>6 DEF IgnoreInv

LEMMA NextIgnore ==
    IgnoreInv /\ IgnoredStayIgnored /\ [IgnoreListNext]_ignoreVars
        => IgnoreInv' /\ IgnoredStayIgnored'
  <1> SUFFICES ASSUME IgnoreInv, IgnoredStayIgnored, [IgnoreListNext]_ignoreVars
               PROVE  IgnoreInv' /\ IgnoredStayIgnored'
    OBVIOUS
  <1>1. CASE UNCHANGED ignoreVars
    BY <1>1 DEF ignoreVars, IgnoreInv, IgnoreListTypeOK, Settled, About, IgnoredStayIgnored,
                ShouldIgnore
  <1>2. ASSUME NEW o \in OwnerCommands, NEW p \in People, NEW does \in {"add", "remove"},
               BeginIgnore(o, does, p)
        PROVE  IgnoreInv' /\ IgnoredStayIgnored'
    <2>1. IgnoredStayIgnored'
      BY <1>2 DEF BeginIgnore, IgnoredStayIgnored, ShouldIgnore
    <2> QED BY <1>2, <2>1, BeginIgnoreStep
  <1>3. ASSUME NEW o \in OwnerCommands, ChangeTable(o)
        PROVE  IgnoreInv' /\ IgnoredStayIgnored'
    <2>1. IgnoredStayIgnored'
      BY <1>3 DEF ChangeTable, IgnoredStayIgnored, ShouldIgnore
    <2> QED BY <1>3, <2>1, ChangeTableStep
  <1>4. ASSUME NEW o \in OwnerCommands, ChangeList(o)
        PROVE  IgnoreInv' /\ IgnoredStayIgnored'
    BY <1>4, ChangeListStep
  <1>5. CASE Restart
    <2>1. \A o \in OwnerCommands : owner'[o] = NoOwner
      BY <1>5 DEF Restart
    <2>2. IgnoreListTypeOK'
      BY <1>5 DEF Restart, IgnoreInv, IgnoreListTypeOK, Owner
    <2>3. Settled'
      BY <1>5, <2>1 DEF Restart, IgnoreInv, Settled, About
    <2>4. IgnoredStayIgnored'
      BY <1>5 DEF Restart, IgnoreInv, Settled, IgnoredStayIgnored, ShouldIgnore
    <2> QED BY <2>2, <2>3, <2>4 DEF IgnoreInv
  <1> QED BY <1>1, <1>2, <1>3, <1>4, <1>5 DEF IgnoreListNext

(* Whoever was confirmed to be ignored stays so through failures, restarts *)
(* and the commands about others, for any number of people and commands at *)
(* once (add, remove, from_db).                                            *)
THEOREM IgnoringLasts == IgnoreListSpec => []IgnoredStayIgnored
  <1>1. IgnoreListInit => IgnoreInv /\ IgnoredStayIgnored
    BY InitIgnore DEF IgnoreListInit, IgnoredStayIgnored
  <1> QED BY <1>1, NextIgnore, PTL DEF IgnoreListSpec

-----------------------------------------------------------------------------
(* Settings and their files *)

(* Where the value of a setting that is not in doubt is found.  While the  *)
(* bot is down, only on disk: the roles in the older file as long as there *)
(* is no new one.  While the older list is taken over, still there; then   *)
(* in memory.  And a command that saves is alone with what it set.         *)
WhileDown(s) ==
    bot = "down" =>
        /\ s \notin unwritten
        /\ data[s] = file[s]
        /\ confirmed[s] = IF hasNew \/ s \in Announcers THEN file[s] ELSE oldRoles[s]

WhileCreated(s) ==
    bot = "created" =>
        /\ s \notin unwritten
        /\ data[s] = file[s]
        /\ confirmed[s] = IF s \in Announcers THEN file[s] ELSE oldRoles[s]

WhileSettled(s) ==
    bot \in {"copied", "up"} /\ Saving(s) = {} =>
        /\ data[s] = confirmed[s]
        /\ s \in unwritten \/ file[s] = confirmed[s]

WhileSaving(s) ==
    \A a, b \in Saving(s) : a = b /\ data[s] = admin[a].to

Certain(s) == WhileDown(s) /\ WhileCreated(s) /\ WhileSettled(s) /\ WhileSaving(s)

SavedInv ==
    /\ SavedFilesTypeOK
    /\ bot # "down" => hasNew
    /\ \A s \in Settings \ doubtful : Certain(s)

LEMMA InitSaved == SavedFilesInit => SavedInv
  <1> SUFFICES ASSUME SavedFilesInit PROVE SavedInv
    OBVIOUS
  <1>1. SavedFilesTypeOK
    BY SavedFilesAssumption DEF SavedFilesInit, SavedFilesTypeOK, Settings, Data, Admin
  <1>2. ASSUME NEW s \in Settings
        PROVE  Certain(s)
    <2>1. Saving(s) = {}
      BY DEF SavedFilesInit, Saving
    <2> QED BY <2>1, SavedFilesAssumption DEF SavedFilesInit, Settings, Certain, WhileDown, WhileCreated, WhileSettled, WhileSaving
  <1> QED BY <1>1, <1>2 DEF SavedInv, SavedFilesInit

(* What a command saves does not change while nobody touches commands.     *)
LEMMA SameSaving ==
    ASSUME admin' = admin, NEW s
    PROVE  Saving(s)' = Saving(s)
  BY DEF Saving

(* A write brings a setting of the file to its value in memory or leaves   *)
(* it in the list of those that are not written, and touches no other.     *)
LEMMA WriteEffect ==
    ASSUME NEW some, NEW new \in Data, file \in Data, unwritten \subseteq Settings,
           Write(some, new), some \subseteq Settings
    PROVE  /\ file' \in Data
           /\ unwritten' \subseteq Settings
           /\ \A s \in some : s \in unwritten' \/ file'[s] = new[s]
           /\ \A s \in Settings \ some : file'[s] = file[s] /\ (s \in unwritten' <=> s \in unwritten)
  BY DEF Write, Data

LEMMA LoadFilesStep ==
    ASSUME SavedInv, LoadFiles
    PROVE  SavedInv'
  <1>1. SavedFilesTypeOK'
    BY DEF SavedInv, SavedFilesTypeOK, LoadFiles, roleFiles, fileHistory
  <1>2. ASSUME NEW s \in Settings \ doubtful
        PROVE  Certain(s)'
    BY SameSaving DEF SavedInv, SavedFilesTypeOK, LoadFiles, roleFiles, fileHistory,
                      Certain, WhileDown, WhileCreated, WhileSettled, WhileSaving
  <1> QED BY <1>1, <1>2 DEF SavedInv, LoadFiles, roleFiles, fileHistory

LEMMA CreateRolesStep ==
    ASSUME SavedInv, CreateRoles
    PROVE  SavedInv'
  <1>1. SavedFilesTypeOK'
    BY DEF SavedInv, SavedFilesTypeOK, CreateRoles, fileHistory
  <1>2. ASSUME NEW s \in Settings \ doubtful
        PROVE  Certain(s)'
    BY SameSaving DEF SavedInv, SavedFilesTypeOK, CreateRoles, fileHistory,
                      Certain, WhileDown, WhileCreated, WhileSettled, WhileSaving
  <1> QED BY <1>1, <1>2 DEF SavedInv, CreateRoles, fileHistory

LEMMA CopyRolesStep ==
    ASSUME SavedInv, CopyRoles
    PROVE  SavedInv'
  <1>1. data' \in Data
    BY DEF SavedInv, SavedFilesTypeOK, CopyRoles, Settings, Data
  <1>2. /\ file' \in Data
        /\ unwritten' \subseteq Settings
        /\ \A s \in Assignable : s \in unwritten' \/ file'[s] = data'[s]
        /\ \A s \in Settings \ Assignable : file'[s] = file[s] /\ (s \in unwritten' <=> s \in unwritten)
    BY <1>1, WriteEffect DEF SavedInv, SavedFilesTypeOK, CopyRoles, Settings
  <1>3. SavedFilesTypeOK'
    BY <1>1, <1>2 DEF SavedInv, SavedFilesTypeOK, CopyRoles, roleFiles
  <1>4. ASSUME NEW s \in Settings \ doubtful
        PROVE  Certain(s)'
    <2>1. data'[s] = confirmed[s]
      BY SavedFilesAssumption DEF SavedInv, CopyRoles, Certain, WhileCreated, Settings
    <2>2. s \in unwritten' \/ file'[s] = confirmed[s]
      BY <1>2, <2>1, SavedFilesAssumption DEF SavedInv, CopyRoles, Certain, WhileCreated, Settings
    <2>3. Saving(s)' = {}
      BY SameSaving DEF SavedInv, SavedFilesTypeOK, CopyRoles, Saving
    <2> QED BY <2>1, <2>2, <2>3 DEF CopyRoles, Certain, WhileDown, WhileCreated, WhileSettled, WhileSaving
  <1> QED BY <1>3, <1>4 DEF SavedInv, CopyRoles, roleFiles

LEMMA RemoveOldRolesStep ==
    ASSUME SavedInv, RemoveOldRoles
    PROVE  SavedInv'
  <1>1. SavedFilesTypeOK'
    BY DEF SavedInv, SavedFilesTypeOK, RemoveOldRoles, fileHistory
  <1>2. ASSUME NEW s \in Settings \ doubtful
        PROVE  Certain(s)'
    BY SameSaving DEF SavedInv, SavedFilesTypeOK, RemoveOldRoles, fileHistory,
                      Certain, WhileDown, WhileCreated, WhileSettled, WhileSaving
  <1> QED BY <1>1, <1>2 DEF SavedInv, RemoveOldRoles, fileHistory

(* Only a setting that nobody else is saving is taken out of doubt.        *)
LEMMA ChangeStep ==
    ASSUME SavedInv, NEW a \in Admins, NEW t \in Settings, NEW to \in Given \cup {Unset},
           Change(a, t, to)
    PROVE  SavedInv'
  <1>1. SavedFilesTypeOK'
    BY DEF SavedInv, SavedFilesTypeOK, Change, roleFiles, Data, Admin
  <1>2. ASSUME NEW s \in Settings, s \notin doubtful'
        PROVE  Certain(s)'
    <2>1. CASE s = t
      <3>1. Saving(s) = {}
        BY <1>2, <2>1 DEF Change
      <3>2. admin'[a] = [at |-> "saving", sets |-> s, to |-> to]
        BY <2>1 DEF Change, SavedInv, SavedFilesTypeOK
      <3>3. \A b \in Admins \ {a} : admin'[b] = admin[b]
        BY DEF Change, SavedInv, SavedFilesTypeOK
      <3>4. admin'[a] # NoAdmin /\ admin'[a].sets = s /\ admin'[a].to = to
        BY <3>2 DEF NoAdmin
      <3>5. Saving(s)' = {a}
        BY <3>1, <3>3, <3>4 DEF Saving
      <3>6. data'[s] = to
        BY <2>1 DEF Change, SavedInv, SavedFilesTypeOK, Data
      <3> QED BY <3>4, <3>5, <3>6 DEF Change, Certain, WhileDown, WhileCreated, WhileSettled, WhileSaving
    <2>2. CASE s # t
      <3>1. s \notin doubtful
        BY <1>2, <2>2 DEF Change
      <3>2. data'[s] = data[s]
        BY <2>2 DEF Change, SavedInv, SavedFilesTypeOK, Data
      <3>3. admin'[a] = [at |-> "saving", sets |-> t, to |-> to]
        BY DEF Change, SavedInv, SavedFilesTypeOK
      <3>4. \A b \in Admins \ {a} : admin'[b] = admin[b]
        BY DEF Change, SavedInv, SavedFilesTypeOK
      <3>5. Saving(s)' = Saving(s) /\ \A b \in Saving(s) : admin'[b] = admin[b]
        BY <2>2, <3>3, <3>4 DEF Change, Saving
      <3> QED BY <1>2, <3>1, <3>2, <3>5 DEF SavedInv, Change, roleFiles, Certain, WhileDown, WhileCreated, WhileSettled, WhileSaving
    <2> QED BY <2>1, <2>2
  <1> QED BY <1>1, <1>2 DEF SavedInv, Change, roleFiles

(* The file is one of two that share no setting.                           *)
LEMMA SaveOnDropStep ==
    ASSUME SavedInv, NEW a \in Admins, SaveOnDrop(a)
    PROVE  SavedInv'
  <1> DEFINE t == admin[a].sets
  <1>1. t \in Settings /\ admin[a].to \in Given \cup {Unset}
    BY DEF SavedInv, SavedFilesTypeOK, SaveOnDrop, Admin
  <1>2. FileOf(t) \subseteq Settings /\ t \in FileOf(t)
    BY <1>1 DEF FileOf, Settings
  <1>3. /\ file' \in Data
        /\ unwritten' \subseteq Settings
        /\ \A s \in FileOf(t) : s \in unwritten' \/ file'[s] = data[s]
        /\ \A s \in Settings \ FileOf(t) : file'[s] = file[s] /\ (s \in unwritten' <=> s \in unwritten)
    <2>1. Write(FileOf(t), data)
      BY DEF SaveOnDrop
    <2> QED BY <1>2, <2>1, WriteEffect DEF SavedInv, SavedFilesTypeOK
  <1>4. SavedFilesTypeOK'
    BY <1>1, <1>3 DEF SavedInv, SavedFilesTypeOK, SaveOnDrop, roleFiles, Data, Admin
  <1>5. bot = "up"
    BY DEF SavedInv, SavedFilesTypeOK, SaveOnDrop
  <1>6. admin'[a] = NoAdmin /\ \A b \in Admins \ {a} : admin'[b] = admin[b]
    BY DEF SaveOnDrop, SavedInv, SavedFilesTypeOK
  <1>7. ASSUME NEW s \in Settings \ doubtful
        PROVE  Certain(s)'
    <2>1. Saving(s)' = Saving(s) \ {a} /\ \A b \in Saving(s)' : admin'[b] = admin[b]
      BY <1>6 DEF Saving
    <2>2. Certain(s)
      BY DEF SavedInv
    <2>3. WhileSaving(s)'
      BY <2>1, <2>2 DEF Certain, WhileSaving, SaveOnDrop
    <2>4. CASE s = t
      <3>1. a \in Saving(s)
        BY <2>4 DEF Saving, SaveOnDrop
      <3>2. data[s] = admin[a].to
        BY <2>2, <3>1 DEF Certain, WhileSaving
      <3>3. confirmed'[s] = data[s]
        BY <2>4, <3>2 DEF SaveOnDrop, SavedInv, SavedFilesTypeOK, Data
      <3> QED BY <1>2, <1>3, <1>5, <2>3, <2>4, <3>3 DEF SaveOnDrop, Certain, WhileDown, WhileCreated, WhileSettled
    <2>5. CASE s # t
      <3>1. Saving(s)' = Saving(s)
        BY <2>1, <2>5 DEF Saving
      <3>2. confirmed'[s] = confirmed[s]
        BY <2>5 DEF SaveOnDrop, SavedInv, SavedFilesTypeOK, Data
      <3> QED BY <1>3, <1>5, <2>2, <2>3, <3>1, <3>2 DEF SaveOnDrop, Certain, WhileDown, WhileCreated, WhileSettled
    <2> QED BY <2>4, <2>5
  <1> QED BY <1>4, <1>7 DEF SavedInv, SaveOnDrop, roleFiles

(* Whatever a stop can lose is in doubt from then on.                      *)
LEMMA StopStep ==
    ASSUME SavedInv, Stop
    PROVE  SavedInv'
  <1>1. SavedFilesTypeOK'
    BY DEF SavedInv, SavedFilesTypeOK, Stop, roleFiles, Settings, Admin
  <1>2. ASSUME NEW s \in Settings, s \notin doubtful'
        PROVE  Certain(s)'
    <2>1. /\ s \notin doubtful /\ s \notin unwritten /\ Saving(s) = {}
          /\ s \in Assignable /\ bot = "created" => oldRoles[s] = file[s]
      BY <1>2 DEF Stop
    <2>2. Saving(s)' = {}
      BY DEF Stop, Saving
    <2>3. confirmed[s] = file[s] /\ hasNew
      BY <2>1 DEF SavedInv, SavedFilesTypeOK, Stop, Settings, Certain, WhileCreated, WhileSettled
    <2> QED BY <2>2, <2>3 DEF Stop, roleFiles, Certain, WhileDown, WhileCreated, WhileSettled, WhileSaving
  <1> QED BY <1>1, <1>2 DEF SavedInv, Stop, roleFiles

LEMMA NextSaved == SavedInv /\ [SavedFilesNext]_fileVars => SavedInv'
  <1> SUFFICES ASSUME SavedInv, [SavedFilesNext]_fileVars PROVE SavedInv'
    OBVIOUS
  <1>1. CASE UNCHANGED fileVars
    <2>1. ASSUME NEW s PROVE Saving(s)' = Saving(s)
      BY <1>1, SameSaving DEF fileVars
    <2> QED BY <1>1, <2>1 DEF fileVars, SavedInv, SavedFilesTypeOK, Certain, WhileDown, WhileCreated, WhileSettled, WhileSaving
  <1>2. ASSUME NEW a \in Admins, NEW key \in Announcers, NEW channel \in Given,
               RegisterAnnouncer(a, key, channel)
        PROVE  SavedInv'
    BY <1>2, ChangeStep DEF RegisterAnnouncer, Settings
  <1>3. ASSUME NEW a \in Admins, NEW key \in Announcers, RemoveAnnouncer(a, key)
        PROVE  SavedInv'
    BY <1>3, ChangeStep DEF RemoveAnnouncer, Settings
  <1>4. ASSUME NEW a \in Admins, NEW role \in Assignable, NEW description \in Given,
               AddRole(a, role, description)
        PROVE  SavedInv'
    BY <1>4, ChangeStep DEF AddRole, Settings
  <1>5. ASSUME NEW a \in Admins, NEW role \in Assignable, RemoveRole(a, role)
        PROVE  SavedInv'
    BY <1>5, ChangeStep DEF RemoveRole, Settings
  <1> QED BY <1>1, <1>2, <1>3, <1>4, <1>5, LoadFilesStep, CreateRolesStep, CopyRolesStep,
             RemoveOldRolesStep, SaveOnDropStep, StopStep DEF SavedFilesNext

(* The model of the files and the commands that change them is well typed: *)
(* there is always a list of roles, and no command is saving while the bot *)
(* is not up (DBWriteGuard, load_role_list).                               *)
THEOREM SavedFilesTypes == SavedFilesSpec => []SavedFilesTypeOK
  <1>1. SavedInv => SavedFilesTypeOK
    BY DEF SavedInv
  <1> QED BY <1>1, InitSaved, NextSaved, PTL DEF SavedFilesSpec

(* For any number of settings and commands, whatever write fails and       *)
(* whenever the bot is stopped, also while it takes the older list over: a *)
(* setting that no two commands changed at once and no stop cut off is     *)
(* what was last confirmed, in memory and, unless its last write failed,   *)
(* in the file (DBWriteGuard::drop, load_role_list).                       *)
THEOREM SavedFilesKeepConfirmed == SavedFilesSpec => []ConfirmedIsKept
  <1>1. SavedInv => ConfirmedIsKept
    BY DEF SavedInv, ConfirmedIsKept, Certain, WhileSettled
  <1> QED BY <1>1, InitSaved, NextSaved, PTL DEF SavedFilesSpec

-----------------------------------------------------------------------------
(* The member cache *)

(* A call that waits or looks, and one that has its answer.                *)
AskingCall ==
    [pc : {"look", "guild", "listing", "user", "member"}, op : {"query", "members"},
     user : Users, guild : Guilds, now : Time, now2 : Time]

AnsweredCall ==
    [pc : {"done"}, op : {"query", "members"}, user : Users, guild : Guilds,
     now : Time, via : {"perUser", "perGuild", "member", "kept"}, entry : Entry]

(* No entry is believed for longer than its time from when it was fetched, *)
(* that the listing is unavailable for less.                               *)
EntryGood(e) ==
    /\ e.timeout <= e.at + Valid
    /\ ~e.value.known => e.timeout <= e.at + Invalid

(* The times a call notes are in order and past; its answer is as fresh as *)
(* FoundIsFresh says.                                                      *)
CallGood(r) ==
    /\ r \in AskingCall => r.now <= r.now2 /\ r.now2 <= clock
    /\ r \in AnsweredCall =>
          /\ r.via # "kept" => r.entry.at > r.now - Valid
          /\ ~r.entry.value.known => r.entry.at > r.now - Invalid

(* per_user remembers answers only; a listing may be remembered as None.   *)
EntriesGood ==
    /\ perUser \in [Users \X Guilds -> Entry]
    /\ perGuild \in [Guilds -> Entry]
    /\ \A k \in Users \X Guilds :
          EntryGood(perUser[k]) /\ (perUser[k] = NoEntry \/ perUser[k].value.known)
    /\ \A g \in Guilds : EntryGood(perGuild[g])

MembersInv == TypeOK /\ EntriesGood /\ \A c \in Callers : CallGood(call[c])

LEMMA CallShapes ==
    ASSUME NEW r \in Call
    PROVE  /\ r.pc = "idle" => r = Idle
           /\ r.pc \in {"look", "guild", "listing", "user", "member"} => r \in AskingCall
           /\ r.pc = "done" => r \in AnsweredCall
  BY DEF Call, Idle, AskingCall, AnsweredCall

LEMMA CallKinds ==
    /\ Idle \in Call /\ AskingCall \subseteq Call /\ AnsweredCall \subseteq Call
    /\ Idle.pc = "idle"
    /\ \A r \in AskingCall : r.pc \in {"look", "guild", "listing", "user", "member"}
    /\ \A r \in AnsweredCall : r.pc = "done"
    /\ Idle \notin AskingCall /\ Idle \notin AnsweredCall
  BY DEF Call, Idle, AskingCall, AnsweredCall

(* NoEntry has expired before the bot starts.                              *)
LEMMA NoEntryGood == NoEntry \in Entry /\ EntryGood(NoEntry) /\ NoEntry.timeout = 0
  BY MemberCacheAssumption DEF NoEntry, None, EntryGood, Entry, Listing, Time

LEMMA InitMembers == Init => MembersInv
  <1> SUFFICES ASSUME Init PROVE MembersInv
    OBVIOUS
  <1>1. TypeOK
    BY MemberCacheAssumption, NoEntryGood, CallKinds DEF Init, TypeOK, Time
  <1> QED BY <1>1, NoEntryGood, CallKinds DEF Init, TypeOK, MembersInv, EntriesGood, CallGood

(* What a step of one call has to show of it and of the tables.            *)
LEMMA OneCall ==
    ASSUME MembersInv, NEW c \in Callers, NEW r \in Call, CallGood(r),
           call' = [call EXCEPT ![c] = r],
           UNCHANGED <<clock, members>>,
           EntriesGood',
           guildLock' \in Callers \cup {NoCaller}, userLock' \in Callers \cup {NoCaller},
           \A d \in Callers : call'[d].pc = "listing" <=> guildLock' = d,
           \A d \in Callers : call'[d].pc = "member" <=> userLock' = d
    PROVE  MembersInv'
  <1>1. \A d \in Callers : call'[d] = IF d = c THEN r ELSE call[d]
    BY DEF MembersInv, TypeOK
  <1>2. TypeOK'
    BY <1>1 DEF MembersInv, TypeOK, EntriesGood
  <1>3. \A d \in Callers : CallGood(call'[d])
    BY <1>1 DEF MembersInv
  <1>4. (\A d \in Callers : CallGood(call[d]))'
    BY <1>3 DEF CallGood
  <1> QED BY <1>2, <1>4 DEF MembersInv

LEMMA SameTables ==
    ASSUME MembersInv, UNCHANGED <<perUser, perGuild>>
    PROVE  EntriesGood'
  BY DEF MembersInv, EntriesGood, EntryGood

(* The same, for a step that takes no mutex and gives none back.           *)
LEMMA OneCallUnlocked ==
    ASSUME MembersInv, NEW c \in Callers, NEW r \in Call, CallGood(r),
           call' = [call EXCEPT ![c] = r],
           call[c].pc \notin {"listing", "member"}, r.pc \notin {"listing", "member"},
           UNCHANGED <<clock, members, perUser, perGuild, userLock, guildLock>>
    PROVE  MembersInv'
  <1>1. \A d \in Callers : call'[d] = IF d = c THEN r ELSE call[d]
    BY DEF MembersInv, TypeOK
  <1>2. /\ \A d \in Callers : call'[d].pc = "listing" <=> guildLock' = d
        /\ \A d \in Callers : call'[d].pc = "member" <=> userLock' = d
    BY <1>1 DEF MembersInv, TypeOK
  <1>3. guildLock' \in Callers \cup {NoCaller} /\ userLock' \in Callers \cup {NoCaller}
    BY DEF MembersInv, TypeOK
  <1> QED BY <1>2, <1>3, OneCall, SameTables

LEMMA TickStep ==
    ASSUME MembersInv, Tick
    PROVE  MembersInv'
  <1>1. TypeOK'
    BY MemberCacheAssumption DEF MembersInv, TypeOK, Tick, Time
  <1>2. ASSUME NEW c \in Callers PROVE CallGood(call[c])'
    <2>1. clock \in Int /\ clock' = clock + 1 /\ call' = call
      BY MemberCacheAssumption DEF MembersInv, TypeOK, Tick, Time
    <2>2. call[c] \in AskingCall => call[c].now2 \in Int
      BY MemberCacheAssumption DEF AskingCall, Time
    <2> QED BY <2>1, <2>2 DEF MembersInv, CallGood
  <1> QED BY <1>1, <1>2, SameTables DEF MembersInv, Tick

LEMMA MoveStep ==
    ASSUME MembersInv, NEW u \in Users, NEW g \in Guilds, Move(u, g)
    PROVE  MembersInv'
  <1>1. TypeOK'
    BY DEF MembersInv, TypeOK, Move
  <1> QED BY <1>1, SameTables DEF MembersInv, Move, CallGood

LEMMA StartStep ==
    ASSUME MembersInv, NEW c \in Callers, NEW op \in {"query", "members"}, NEW u \in Users,
           NEW g \in Guilds, Start(c, op, u, g)
    PROVE  MembersInv'
  <1> DEFINE r == [pc |-> IF op = "query" THEN "look" ELSE "guild", op |-> op, user |-> u,
                   guild |-> g, now |-> clock, now2 |-> clock]
  <1>1. clock \in Time /\ clock \in Int
    BY DEF MembersInv, TypeOK, Time
  <1>2. r \in AskingCall
    BY <1>1 DEF AskingCall
  <1>3. r \in Call /\ r \notin AnsweredCall
    BY <1>2, CallKinds
  <1>4. CallGood(r)
    BY <1>1, <1>3 DEF CallGood
  <1>5. call[c].pc = "idle" /\ r.pc \notin {"listing", "member"}
    BY CallKinds DEF Start
  <1>6. call' = [call EXCEPT ![c] = r]
    BY DEF Start
  <1> HIDE DEF r
  <1> QED BY <1>3, <1>4, <1>5, <1>6, OneCallUnlocked DEF Start

(* An answer from an entry of a table that was not believed for too long.  *)
LEMMA BelievedAnswer ==
    ASSUME MembersInv, NEW c \in Callers, call[c] \in AskingCall,
           NEW e \in Entry, EntryGood(e),
           NEW t \in {call[c].now, call[c].now2}, StillValid(e, t),
           NEW via \in {"perUser", "perGuild"}
    PROVE  Done(c, via, e) \in AnsweredCall /\ CallGood(Done(c, via, e))
  <1> DEFINE r == Done(c, via, e)
  <1>1. r \in AnsweredCall /\ r \notin AskingCall
    <2>1. r \in AnsweredCall
      BY DEF Done, AnsweredCall, AskingCall
    <2> QED BY <2>1, CallKinds
  <1>2. r.entry = e /\ r.now = call[c].now
    BY DEF Done
  <1>3. call[c].now \in Int /\ t \in Int /\ call[c].now <= t
    BY MemberCacheAssumption DEF MembersInv, CallGood, AskingCall, Time
  <1>4. e.at \in Int /\ e.timeout \in Int /\ Valid \in Int /\ Invalid \in Int
    BY MemberCacheAssumption DEF Entry, Time
  <1>5. e.at > call[c].now - Valid /\ (~e.value.known => e.at > call[c].now - Invalid)
    BY <1>3, <1>4 DEF EntryGood, StillValid
  <1> HIDE DEF r
  <1>6. CallGood(r)
    BY <1>1, <1>2, <1>5 DEF CallGood
  <1> QED BY <1>1, <1>6 DEF r

(* A call that goes on keeps its question and its times.                   *)
LEMMA GoingOn ==
    ASSUME MembersInv, NEW c \in Callers, call[c] \in AskingCall,
           NEW pc \in {"look", "guild", "listing", "user", "member"},
           NEW now2 \in {call[c].now2, clock}
    PROVE  LET r == [call[c] EXCEPT !.pc = pc, !.now2 = now2]
           IN  r \in AskingCall /\ r.pc = pc /\ CallGood(r)
  <1> DEFINE r == [call[c] EXCEPT !.pc = pc, !.now2 = now2]
  <1>1. clock \in Time /\ clock \in Int
    BY DEF MembersInv, TypeOK, Time
  <1>2. r \in AskingCall /\ r.pc = pc /\ r.now = call[c].now /\ r.now2 = now2
    BY <1>1 DEF AskingCall
  <1>3. call[c].now \in Int /\ call[c].now2 \in Int /\ call[c].now <= call[c].now2 /\ call[c].now2 <= clock
    BY DEF MembersInv, CallGood, AskingCall, Time
  <1>4. r \notin AnsweredCall
    BY <1>2, CallKinds
  <1> HIDE DEF r
  <1>5. CallGood(r)
    BY <1>1, <1>2, <1>3, <1>4 DEF CallGood
  <1> QED BY <1>2, <1>5 DEF r

LEMMA GoingOnFrom ==
    ASSUME MembersInv, NEW c \in Callers, call[c] \in AskingCall,
           NEW pc \in {"look", "guild", "listing", "user", "member"}, Goto(c, pc)
    PROVE  \E r \in AskingCall : r.pc = pc /\ CallGood(r) /\ call' = [call EXCEPT ![c] = r]
  <1>1. [call[c] EXCEPT !.pc = pc] = [call[c] EXCEPT !.pc = pc, !.now2 = call[c].now2]
    BY DEF AskingCall
  <1>2. call' = [call EXCEPT ![c] = [call[c] EXCEPT !.pc = pc]]
    BY DEF Goto
  <1> DEFINE r == [call[c] EXCEPT !.pc = pc, !.now2 = call[c].now2]
  <1>3. r \in AskingCall /\ r.pc = pc /\ CallGood(r)
    BY GoingOn
  <1>4. call' = [call EXCEPT ![c] = r]
    BY <1>1, <1>2
  <1> HIDE DEF r
  <1> QED BY <1>3, <1>4

(* The entry of the user a call asks for.                                  *)
LEMMA UserEntry ==
    ASSUME MembersInv, NEW c \in Callers, call[c] \in AskingCall
    PROVE  LET key == <<call[c].user, call[c].guild>>
           IN  key \in Users \X Guilds /\ perUser[key] \in Entry /\ EntryGood(perUser[key])
  BY DEF MembersInv, EntriesGood, AskingCall

LEMMA LookStep ==
    ASSUME MembersInv, NEW c \in Callers, Look(c)
    PROVE  MembersInv'
  <1> DEFINE e == perUser[<<call[c].user, call[c].guild>>]
  <1>1. call[c] \in AskingCall /\ call[c].pc = "look"
    BY CallShapes DEF MembersInv, TypeOK, Look
  <1>2. e \in Entry /\ EntryGood(e)
    BY <1>1, UserEntry
  <1>4. PICK r \in Call : /\ CallGood(r) /\ r.pc # "listing" /\ r.pc # "member"
                          /\ call' = [call EXCEPT ![c] = r]
    <2>1. CASE StillValid(e, call[c].now)
      <3>1. call' = [call EXCEPT ![c] = Done(c, "perUser", e)]
        BY <2>1 DEF Look
      <3>2. Done(c, "perUser", e) \in AnsweredCall /\ CallGood(Done(c, "perUser", e))
        BY <1>1, <1>2, <2>1, BelievedAnswer
      <3> QED BY <3>1, <3>2, CallKinds
    <2>2. CASE ~StillValid(e, call[c].now)
      <3> DEFINE q == [call[c] EXCEPT !.pc = "guild", !.now2 = clock]
      <3>1. call' = [call EXCEPT ![c] = q]
        BY <2>2 DEF Look
      <3>2. q \in AskingCall /\ q.pc = "guild" /\ CallGood(q)
        BY <1>1, GoingOn
      <3> QED BY <3>1, <3>2, CallKinds
    <2> QED BY <2>1, <2>2
  <1> QED BY <1>1, <1>4, OneCallUnlocked DEF Look

(* What an entry of the listing means for a call: an answer, or another    *)
(* question.                                                               *)
LEMMA ListingAnswers ==
    ASSUME MembersInv, NEW c \in Callers, call[c] \in AskingCall, NEW e,
           AnswerFromListing(c, e),
           Done(c, "perGuild", e) \in AnsweredCall, CallGood(Done(c, "perGuild", e))
    PROVE  \E r \in Call : /\ CallGood(r) /\ r.pc # "listing" /\ r.pc # "member"
                           /\ call' = [call EXCEPT ![c] = r]
  <1>1. CASE Goto(c, "user")
    BY <1>1, GoingOnFrom, CallKinds
  <1>2. CASE call' = [call EXCEPT ![c] = Done(c, "perGuild", e)]
    BY <1>2, CallKinds
  <1> QED BY <1>1, <1>2 DEF AnswerFromListing

LEMMA LockGuildStep ==
    ASSUME MembersInv, NEW c \in Callers, LockGuild(c)
    PROVE  MembersInv'
  <1> DEFINE e == perGuild[call[c].guild]
  <1>1. call[c] \in AskingCall /\ call[c].pc = "guild"
    BY CallShapes DEF MembersInv, TypeOK, LockGuild
  <1>2. e \in Entry /\ EntryGood(e)
    BY <1>1 DEF MembersInv, EntriesGood, AskingCall
  <1>3. CASE StillValid(e, call[c].now2)
    <2>1. AnswerFromListing(c, e) /\ UNCHANGED guildLock
      BY <1>3 DEF LockGuild
    <2>2. Done(c, "perGuild", e) \in AnsweredCall /\ CallGood(Done(c, "perGuild", e))
      BY <1>1, <1>2, <1>3, BelievedAnswer
    <2>3. PICK r \in Call : /\ CallGood(r) /\ r.pc # "listing" /\ r.pc # "member"
                            /\ call' = [call EXCEPT ![c] = r]
      BY <1>1, <2>1, <2>2, ListingAnswers
    <2> QED BY <1>1, <2>1, <2>3, OneCallUnlocked DEF LockGuild
  <1>4. CASE ~StillValid(e, call[c].now2)
    <2>1. Goto(c, "listing") /\ guildLock' = c
      BY <1>4 DEF LockGuild
    <2>2. PICK r \in AskingCall : r.pc = "listing" /\ CallGood(r) /\ call' = [call EXCEPT ![c] = r]
      BY <1>1, <2>1, GoingOnFrom
    <2>3. \A d \in Callers : call'[d] = IF d = c THEN r ELSE call[d]
      BY <2>2 DEF MembersInv, TypeOK
    <2>4. /\ \A d \in Callers : call'[d].pc = "listing" <=> guildLock' = d
          /\ \A d \in Callers : call'[d].pc = "member" <=> userLock' = d
      BY <1>1, <2>1, <2>2, <2>3, MemberCacheAssumption DEF LockGuild, MembersInv, TypeOK
    <2>5. guildLock' \in Callers \cup {NoCaller} /\ userLock' \in Callers \cup {NoCaller}
      BY <2>1 DEF LockGuild, MembersInv, TypeOK
    <2>6. r \in Call /\ EntriesGood' /\ UNCHANGED <<clock, members>>
      BY CallKinds, SameTables DEF LockGuild
    <2> QED BY <2>2, <2>4, <2>5, <2>6, OneCall
  <1> QED BY <1>3, <1>4

(* What was fetched just now is fresh for a call that began before.        *)
LEMMA FetchedAnswer ==
    ASSUME MembersInv, NEW c \in Callers, call[c] \in AskingCall,
           NEW e \in Entry, e.at = clock, NEW via \in {"perGuild", "member"}
    PROVE  Done(c, via, e) \in AnsweredCall /\ CallGood(Done(c, via, e))
  <1> DEFINE r == Done(c, via, e)
  <1>1. r \in AnsweredCall /\ r \notin AskingCall
    <2>1. r \in AnsweredCall
      BY DEF Done, AnsweredCall, AskingCall
    <2> QED BY <2>1, CallKinds
  <1>2. r.entry = e /\ r.now = call[c].now
    BY DEF Done
  <1>3. call[c].now \in Int /\ call[c].now2 \in Int /\ clock \in Int /\ call[c].now <= clock
    BY DEF MembersInv, TypeOK, CallGood, AskingCall, Time
  <1>4. clock > call[c].now - Valid /\ clock > call[c].now - Invalid
    BY <1>3, MemberCacheAssumption
  <1> HIDE DEF r
  <1>5. CallGood(r)
    BY <1>1, <1>2, <1>4 DEF CallGood
  <1> QED BY <1>1, <1>5 DEF r

LEMMA ListMembersStep ==
    ASSUME MembersInv, NEW c \in Callers, ListMembers(c)
    PROVE  MembersInv'
  <1>1. call[c] \in AskingCall /\ call[c].pc = "listing"
    BY CallShapes DEF MembersInv, TypeOK, ListMembers
  <1>2. PICK value \in {Some(members[call[c].guild]), None} :
           LET e == [value |-> value, at |-> clock,
                     timeout |-> ListingTimeout(value, call[c].now2)]
           IN  /\ perGuild' = [perGuild EXCEPT ![call[c].guild] = e]
               /\ AnswerFromListing(c, e)
    BY DEF ListMembers
  <1> DEFINE e == [value |-> value, at |-> clock, timeout |-> ListingTimeout(value, call[c].now2)]
  <1>3. call[c].guild \in Guilds /\ call[c].now2 \in Nat /\ call[c].now2 <= clock
        /\ clock \in Nat /\ clock <= MaxTime
    BY <1>1, MemberCacheAssumption DEF MembersInv, TypeOK, CallGood, AskingCall, Time
  <1>4. value \in Listing
    <2>1. members[call[c].guild] \in SUBSET Users
      BY <1>3 DEF MembersInv, TypeOK
    <2>2. Some(members[call[c].guild]) \in Listing /\ None \in Listing
      BY <2>1 DEF Some, None, Listing
    <2> QED BY <2>2
  <1>5. e \in Entry /\ EntryGood(e) /\ e.at = clock
    <2> DEFINE t == ListingTimeout(value, call[c].now2)
    <2>1. /\ t \in Nat /\ t <= clock + Valid /\ t <= MaxTime + Valid + Invalid
          /\ ~value.known => t <= clock + Invalid
      <3>1. CASE value.known
        BY <1>3, <3>1, MemberCacheAssumption DEF ListingTimeout
      <3>2. CASE ~value.known
        <4>1. t = call[c].now2 + Invalid
          BY <3>2 DEF ListingTimeout
        <4> HIDE DEF t
        <4> QED BY <1>3, <4>1, MemberCacheAssumption
      <3> QED BY <3>1, <3>2
    <2> HIDE DEF t
    <2>2. t \in 0..(MaxTime + Valid + Invalid) /\ clock \in {-1} \cup Time
      BY <1>3, <2>1, MemberCacheAssumption DEF Time
    <2>3. e = [value |-> value, at |-> clock, timeout |-> t]
      BY DEF t
    <2> HIDE DEF e
    <2> QED BY <1>4, <2>1, <2>2, <2>3 DEF Entry, EntryGood
  <1>6. perGuild' = [perGuild EXCEPT ![call[c].guild] = e] /\ AnswerFromListing(c, e)
    BY <1>2
  <1> HIDE DEF e
  <1>7. EntriesGood'
    BY <1>3, <1>5, <1>6 DEF MembersInv, EntriesGood, ListMembers, EntryGood
  <1>8. PICK r \in Call : /\ CallGood(r) /\ r.pc # "listing" /\ r.pc # "member"
                          /\ call' = [call EXCEPT ![c] = r]
    BY <1>1, <1>5, <1>6, FetchedAnswer, ListingAnswers
  <1>9. \A d \in Callers : call'[d] = IF d = c THEN r ELSE call[d]
    BY <1>8 DEF MembersInv, TypeOK
  <1>10. /\ \A d \in Callers : call'[d].pc = "listing" <=> guildLock' = d
         /\ \A d \in Callers : call'[d].pc = "member" <=> userLock' = d
    BY <1>1, <1>8, <1>9, MemberCacheAssumption DEF ListMembers, MembersInv, TypeOK
  <1>11. guildLock' \in Callers \cup {NoCaller} /\ userLock' \in Callers \cup {NoCaller}
    BY DEF ListMembers, MembersInv, TypeOK
  <1>12. UNCHANGED <<clock, members>>
    BY DEF ListMembers
  <1> QED BY <1>7, <1>8, <1>10, <1>11, <1>12, OneCall

LEMMA LockUserStep ==
    ASSUME MembersInv, NEW c \in Callers, LockUser(c)
    PROVE  MembersInv'
  <1> DEFINE e == perUser[<<call[c].user, call[c].guild>>]
  <1>1. call[c] \in AskingCall /\ call[c].pc = "user"
    BY CallShapes DEF MembersInv, TypeOK, LockUser
  <1>2. e \in Entry /\ EntryGood(e)
    BY <1>1, UserEntry
  <1>3. CASE StillValid(e, call[c].now)
    <2>1. call' = [call EXCEPT ![c] = Done(c, "perUser", e)] /\ UNCHANGED userLock
      BY <1>3 DEF LockUser
    <2>2. Done(c, "perUser", e) \in AnsweredCall /\ CallGood(Done(c, "perUser", e))
      BY <1>1, <1>2, <1>3, BelievedAnswer
    <2> QED BY <1>1, <2>1, <2>2, CallKinds, OneCallUnlocked DEF LockUser
  <1>4. CASE ~StillValid(e, call[c].now)
    <2>1. Goto(c, "member") /\ userLock' = c
      BY <1>4 DEF LockUser
    <2>2. PICK r \in AskingCall : r.pc = "member" /\ CallGood(r) /\ call' = [call EXCEPT ![c] = r]
      BY <1>1, <2>1, GoingOnFrom
    <2>3. \A d \in Callers : call'[d] = IF d = c THEN r ELSE call[d]
      BY <2>2 DEF MembersInv, TypeOK
    <2>4. /\ \A d \in Callers : call'[d].pc = "listing" <=> guildLock' = d
          /\ \A d \in Callers : call'[d].pc = "member" <=> userLock' = d
      BY <1>1, <2>1, <2>2, <2>3, MemberCacheAssumption DEF LockUser, MembersInv, TypeOK
    <2>5. guildLock' \in Callers \cup {NoCaller} /\ userLock' \in Callers \cup {NoCaller}
      BY <2>1 DEF LockUser, MembersInv, TypeOK
    <2>6. r \in Call /\ EntriesGood' /\ UNCHANGED <<clock, members>>
      BY CallKinds, SameTables DEF LockUser
    <2> QED BY <2>2, <2>4, <2>5, <2>6, OneCall
  <1> QED BY <1>3, <1>4

LEMMA GetMemberStep ==
    ASSUME MembersInv, NEW c \in Callers, GetMember(c)
    PROVE  MembersInv'
  <1> DEFINE key == <<call[c].user, call[c].guild>>
             is == members[call[c].guild] \cap {call[c].user}
  <1>1. call[c] \in AskingCall /\ call[c].pc = "member"
    BY CallShapes DEF MembersInv, TypeOK, GetMember
  <1>2. PICK value \in {Some(is), Some({})} :
           LET e == [value |-> value, at |-> clock, timeout |-> call[c].now + Valid]
           IN  IF perUser[key] = NoEntry
               THEN /\ perUser' = [perUser EXCEPT ![key] = e]
                    /\ call' = [call EXCEPT ![c] = Done(c, "member", e)]
               ELSE /\ call' = [call EXCEPT ![c] = Done(c, "kept", perUser[key])]
                    /\ UNCHANGED perUser
    BY DEF GetMember
  <1> DEFINE e == [value |-> value, at |-> clock, timeout |-> call[c].now + Valid]
  <1>3. /\ call[c].now \in Nat /\ call[c].now <= clock /\ clock \in Nat /\ clock <= MaxTime
        /\ call[c].guild \in Guilds
    BY <1>1, MemberCacheAssumption DEF MembersInv, TypeOK, CallGood, AskingCall, Time
  <1>4. value \in Listing /\ value.known
    <2>1. is \in SUBSET Users
      BY <1>3 DEF MembersInv, TypeOK
    <2>2. Some(is) \in Listing /\ Some({}) \in Listing /\ Some(is).known /\ Some({}).known
      BY <2>1 DEF Some, Listing
    <2> QED BY <2>2
  <1>5. e \in Entry /\ EntryGood(e) /\ e.at = clock /\ e.value.known
    <2>1. call[c].now + Valid \in 0..(MaxTime + Valid + Invalid) /\ clock \in {-1} \cup Time
      BY <1>3, MemberCacheAssumption DEF Time
    <2>2. e.timeout <= e.at + Valid
      BY <1>3, MemberCacheAssumption
    <2> QED BY <1>4, <2>1, <2>2 DEF Entry, EntryGood
  <1>6. key \in Users \X Guilds /\ perUser[key] \in Entry /\ EntryGood(perUser[key])
    BY <1>1, UserEntry
  <1> HIDE DEF e, key
  <1>7. PICK r \in Call : /\ CallGood(r) /\ r.pc = "done" /\ call' = [call EXCEPT ![c] = r]
                          /\ EntriesGood'
    <2>1. CASE perUser[key] = NoEntry
      <3>1. /\ perUser' = [perUser EXCEPT ![key] = e]
            /\ call' = [call EXCEPT ![c] = Done(c, "member", e)]
        BY <1>2, <2>1 DEF e, key
      <3>2. Done(c, "member", e) \in AnsweredCall /\ CallGood(Done(c, "member", e))
        BY <1>1, <1>5, FetchedAnswer
      <3>3. EntriesGood'
        BY <1>5, <1>6, <3>1 DEF MembersInv, EntriesGood, GetMember, EntryGood
      <3> QED BY <3>1, <3>2, <3>3, CallKinds
    <2>2. CASE perUser[key] # NoEntry
      <3> DEFINE r == Done(c, "kept", perUser[key])
      <3>1. call' = [call EXCEPT ![c] = r] /\ UNCHANGED perUser
        BY <1>2, <2>2 DEF key
      <3>2. r \in AnsweredCall
        BY <1>1, <1>6 DEF Done, AnsweredCall, AskingCall
      <3>3. r.via = "kept" /\ r.entry.value.known
        BY <1>6, <2>2 DEF Done, MembersInv, EntriesGood
      <3>4. r \in Call /\ r.pc = "done" /\ r \notin AskingCall
        BY <3>2, CallKinds
      <3> HIDE DEF r
      <3>5. CallGood(r)
        BY <3>3, <3>4 DEF CallGood
      <3>6. EntriesGood'
        BY <3>1, SameTables DEF GetMember
      <3> QED BY <3>1, <3>4, <3>5, <3>6
    <2> QED BY <2>1, <2>2
  <1>8. \A d \in Callers : call'[d] = IF d = c THEN r ELSE call[d]
    BY <1>7 DEF MembersInv, TypeOK
  <1>9. /\ \A d \in Callers : call'[d].pc = "listing" <=> guildLock' = d
        /\ \A d \in Callers : call'[d].pc = "member" <=> userLock' = d
    BY <1>1, <1>7, <1>8, MemberCacheAssumption DEF GetMember, MembersInv, TypeOK
  <1>10. guildLock' \in Callers \cup {NoCaller} /\ userLock' \in Callers \cup {NoCaller}
    BY DEF GetMember, MembersInv, TypeOK
  <1>11. UNCHANGED <<clock, members>>
    BY DEF GetMember
  <1> QED BY <1>7, <1>9, <1>10, <1>11, OneCall

LEMMA ReturnStep ==
    ASSUME MembersInv, NEW c \in Callers, Return(c)
    PROVE  MembersInv'
  <1>1. CallGood(Idle)
    BY CallKinds DEF CallGood
  <1> QED BY <1>1, CallKinds, OneCallUnlocked DEF Return

LEMMA NextMembers == MembersInv /\ [Next]_vars => MembersInv'
  <1> SUFFICES ASSUME MembersInv, [Next]_vars PROVE MembersInv'
    OBVIOUS
  <1>1. CASE UNCHANGED vars
    BY <1>1 DEF vars, MembersInv, TypeOK, EntriesGood, EntryGood, CallGood
  <1> QED BY <1>1, TickStep, MoveStep, StartStep, LookStep, LockGuildStep, ListMembersStep,
             LockUserStep, GetMemberStep, ReturnStep DEF Next

(* The member cache is well typed; above all, a mutex is held by exactly   *)
(* the call that is asking Discord under it, so two requests for the same  *)
(* table never run at once (query, query_members).                         *)
THEOREM MemberCacheTypes == Spec => []TypeOK
  <1>1. MembersInv => TypeOK
    BY DEF MembersInv
  <1> QED BY <1>1, InitMembers, NextMembers, PTL DEF Spec

(* For any number of callers, members and requests that fail: although a   *)
(* timeout counts from a time noted before the mutex was waited for, a     *)
(* caller is never told of members that were fetched fifteen minutes or    *)
(* more before its call, but for the entry that or_insert keeps; nor that  *)
(* there is no listing because of a failure two minutes before             *)
(* (query, query_members).                                                 *)
THEOREM MemberCacheIsFresh == Spec => []FoundIsFresh
  <1>1. ASSUME MembersInv PROVE FoundIsFresh
    <2>1. ASSUME NEW c \in Callers, Answered(c)
          PROVE  call[c] \in AnsweredCall /\ CallGood(call[c])
      BY <1>1, <2>1, CallShapes DEF MembersInv, TypeOK, Answered
    <2> QED BY <2>1 DEF FoundIsFresh, Fresh, CallGood
  <1> QED BY <1>1, InitMembers, NextMembers, PTL DEF Spec

-----------------------------------------------------------------------------
(* What a behaviour does that uses one of them *)

AllInv ==
    MembersInv /\ CachesInv /\ LimiterInv /\ IgnoreInv /\ IgnoredStayIgnored /\ SavedInv

LEMMA InitAll == CachesInit => AllInv
  <1> SUFFICES ASSUME CachesInit PROVE AllInv
    OBVIOUS
  <1>1. RatelimitInit
    BY DEF CachesInit, MapCachesInit
  <1>2. IgnoredStayIgnored
    BY DEF CachesInit, IgnoreListInit, IgnoredStayIgnored
  <1> QED BY <1>1, <1>2, InitMembers, InitCaches, InitLimiter, InitIgnore, InitSaved
          DEF CachesInit, AllInv

LEMMA NextAll == AllInv /\ [CachesNext]_cachesVars => AllInv'
  <1> SUFFICES ASSUME AllInv, [CachesNext]_cachesVars PROVE AllInv'
    OBVIOUS
  <1>1. /\ [Next]_vars /\ [MapCachesNext]_mapCachesVars
        /\ [IgnoreListNext]_ignoreVars /\ [SavedFilesNext]_fileVars
    BY DEF CachesNext, cachesVars
  <1>2. MembersInv' /\ CachesInv' /\ SavedInv'
    BY <1>1, NextMembers, NextCaches, NextSaved DEF AllInv
  <1>3. IgnoreInv' /\ IgnoredStayIgnored'
    BY <1>1, NextIgnore DEF AllInv
  <1>4. LimiterInv'
    BY <1>1, StepUsesLimiter, NextLimiter DEF AllInv
  <1> QED BY <1>2, <1>3, <1>4 DEF AllInv

(* All that is kept in memory is of its type, whichever of it is used; a   *)
(* map's file is downloaded by whom holds the client, and linked rows are  *)
(* there.                                                                  *)
THEOREM CachesTyped == CachesSpec => []CachesTypeOK
  <1>1. ASSUME AllInv PROVE CachesTypeOK
    <2>1. TypeOK /\ IgnoreListTypeOK /\ SavedFilesTypeOK
      BY <1>1 DEF AllInv, MembersInv, IgnoreInv, SavedInv
    <2>2. links \in SUBSET {k \in Keys : rows[k] # NoVersion}
      BY <1>1, VersionFacts DEF AllInv, CachesInv, TablesGood
    <2>3. MapCachesTypeOK
      BY <1>1, <2>2 DEF AllInv, LimiterInv, CachesInv, OsuGood, TablesGood, HoldersGood, MapCachesTypeOK
    <2> QED BY <2>1, <2>3 DEF CachesTypeOK
  <1> QED BY <1>1, InitAll, NextAll, PTL DEF CachesSpec
=============================================================================
