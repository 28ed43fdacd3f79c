------------------------------ MODULE ScorePosts ------------------------------
(***************************************************************************)
(* What becomes of the scores an osu! update has collected: merge and      *)
(* send_all of youmubot-osu/src/discord/announcer.rs.                      *)
(*                                                                         *)
(* Best scores and scores that led to an event are merged.  One worth a    *)
(* message has a message of its own in every channel.  So have the others  *)
(* when they are few, or else they share summaries.  All requests run at   *)
(* once and each may fail.  A score's top and world are its places among   *)
(* the best scores of its user and of its map, 0 when it has none.         *)
(***************************************************************************)
EXTENDS Integers, Sequences, FiniteSets, SequencesExt

CONSTANTS
    Collections,    \* what an update may collect
    Channels,       \* the channels its user is announced in
    StdMode,        \* the mode with the longer leaderboards
    NoMap,          \* a channel has no last map
    PostFaults      \* what may fail: "map", "post", "row"

(* A score as one answer of the osu! API shows it.                         *)
PlayedScore == [play : Nat, map : STRING, mode : STRING, mods : STRING,
                score : Nat, pp : Nat, top : Nat, world : Nat]
CollectedScore == UNION {ToSet(c.scores) : c \in Collections}
MapsPosted == {s.map : s \in CollectedScore}

ASSUME ScorePostsAssumption ==
    /\ \A c \in Collections : c.scores \in Seq(PlayedScore) /\ c.eventsKnown \in BOOLEAN
    /\ NoMap \notin MapsPosted
    /\ PostFaults \subseteq {"map", "post", "row"}

VARIABLES
    collection,     \* what was collected
    loading,        \* scores whose map is asked for
    batch,          \* scores that wait for the rest of their batch
    due,            \* messages to be sent
    unsaved,        \* messages whose map is not saved yet
    posted,         \* messages that were sent
    lastMap,        \* the last map of each channel
    lost            \* history: scores, messages and rows that failed

postVars == <<collection, loading, batch, due, unsaved, posted, lastMap, lost>>

-----------------------------------------------------------------------------
(* Merging.  In a map's list a score is left out when one before it has    *)
(* the same mods and is nowhere worse; then the kinds of a play are put    *)
(* together that is still there twice.                                     *)

Beats(w, v) ==
    /\ w.map = v.map /\ w.mode = v.mode /\ w.mods = v.mods
    /\ w.score >= v.score /\ w.pp >= v.pp

KeepUnbeaten(kept, v) ==
    IF \E w \in ToSet(kept) : Beats(w, v) THEN kept ELSE Append(kept, v)

Unbeaten(scores) ==
    LET kept[n \in 0..Len(scores)] ==
            IF n = 0 THEN <<>> ELSE KeepUnbeaten(kept[n - 1], scores[n])
    IN  kept[Len(scores)]

Or(a, b) == IF a # 0 THEN a ELSE b

AddKind(merged, v) ==
    LET twins == {w \in merged : w.play = v.play}
    IN  IF twins = {} THEN merged \cup {v}
        ELSE (merged \ twins)
             \cup {[w EXCEPT !.top = Or(@, v.top), !.world = Or(@, v.world)] : w \in twins}

JoinKinds(scores) ==
    LET merged[n \in 0..Len(scores)] ==
            IF n = 0 THEN {} ELSE AddKind(merged[n - 1], scores[n])
    IN  merged[Len(scores)]

Merge(scores) == JoinKinds(Unbeaten(scores))

(* Without the recent events nothing is merged.                            *)
ToAnnounce ==
    IF collection.eventsKnown THEN Merge(collection.scores) ELSE ToSet(collection.scores)

IsWorthMessage(s) ==
    \/ s.top \in 1..25
    \/ s.world \in 1..(IF s.mode = StdMode THEN 100 ELSE 50)

Quiet == {s \in ToAnnounce : ~IsWorthMessage(s)}
IsSummed(s) == s \in Quiet /\ Cardinality(Quiet) > 2

ChunkSize == 4
ChunkOf(i) == (i - 1) \div ChunkSize

(* Variant: a summary of fewer than four is forgotten.                     *)
ChunksExact(scores) ==
    LET Nth(n) == {scores[i] : i \in {j \in DOMAIN scores : ChunkOf(j) = n}}
    IN  {Nth(ChunkOf(i)) : i \in {j \in DOMAIN scores : (ChunkOf(j) + 1) * ChunkSize <= Len(scores)}}

Chunks(scores) ==
    LET Nth(n) == {scores[i] : i \in {j \in DOMAIN scores : ChunkOf(j) = n}}
    IN  {Nth(ChunkOf(i)) : i \in DOMAIN scores}

-----------------------------------------------------------------------------
(* Sending *)

Message == [to : Channels, of : SUBSET ToAnnounce, alone : BOOLEAN]
ToAll(scores, alone) == {[to |-> c, of |-> scores, alone |-> alone] : c \in Channels}

PostsTypeOK ==
    /\ collection \in Collections
    /\ loading \subseteq ToAnnounce
    /\ batch \in Seq({s \in ToAnnounce : IsSummed(s)} \ loading)
    /\ due \cup unsaved \cup posted \subseteq Message
    /\ unsaved \subseteq {d \in posted : d.alone}
    /\ lastMap \in [Channels -> MapsPosted \cup {NoMap}]
    /\ lost \subseteq ToAnnounce \cup Message

PostsInit ==
    /\ collection \in Collections
    /\ loading = ToAnnounce
    /\ batch = <<>>
    /\ due = {} /\ unsaved = {} /\ posted = {}
    /\ lastMap = [c \in Channels |-> NoMap]
    /\ lost = {}

(* The last score of the batch to have its map, or to fail, lets the       *)
(* summaries go out.  They follow the order in which the maps came.        *)
Settle(s, arrived) ==
    /\ loading' = loading \ {s}
    /\ IF \E r \in loading' : IsSummed(r)
       THEN batch' = arrived /\ UNCHANGED due
       ELSE /\ batch' = <<>>
            /\ due' = due \cup UNION {ToAll(scores, FALSE) : scores \in Chunks(arrived)}

LoadMap(s) ==
    /\ s \in loading
    /\ IF IsSummed(s)
       THEN Settle(s, Append(batch, s))
       ELSE /\ loading' = loading \ {s}
            /\ due' = due \cup ToAll({s}, TRUE)
            /\ UNCHANGED batch
    /\ UNCHANGED <<collection, unsaved, posted, lastMap, lost>>

LoadMapFails(s) ==
    /\ "map" \in PostFaults
    /\ s \in loading
    /\ IF IsSummed(s)
       THEN Settle(s, batch)
       ELSE loading' = loading \ {s} /\ UNCHANGED <<batch, due>>
    /\ lost' = lost \cup {s}
    /\ UNCHANGED <<collection, unsaved, posted, lastMap>>

(* Only a message of one score leaves its map behind.                      *)
Send(d) ==
    /\ d \in due
    /\ due' = due \ {d}
    /\ posted' = posted \cup {d}
    /\ unsaved' = IF d.alone THEN unsaved \cup {d} ELSE unsaved
    /\ UNCHANGED <<collection, loading, batch, lastMap, lost>>

SendFails(d) ==
    /\ "post" \in PostFaults
    /\ d \in due
    /\ due' = due \ {d}
    /\ lost' = lost \cup {d}
    /\ UNCHANGED <<collection, loading, batch, unsaved, posted, lastMap>>

SaveBeatmap(d) ==
    /\ d \in unsaved
    /\ unsaved' = unsaved \ {d}
    /\ \/ /\ lastMap' = [lastMap EXCEPT ![d.to] = (CHOOSE s \in d.of : TRUE).map]
          /\ UNCHANGED lost
       \/ /\ "row" \in PostFaults
          /\ lost' = lost \cup {d}
          /\ UNCHANGED lastMap
    /\ UNCHANGED <<collection, loading, batch, due, posted>>

PostsNext ==
    \/ \E s \in loading : LoadMap(s) \/ LoadMapFails(s)
    \/ \E d \in due : Send(d) \/ SendFails(d)
    \/ \E d \in unsaved : SaveBeatmap(d)

PostsSpec == PostsInit /\ [][PostsNext]_postVars

-----------------------------------------------------------------------------
(* Properties *)

AllSent == loading = {} /\ due = {} /\ unsaved = {}

(* Merging drops a score only for one on the same map with the same mods   *)
(* that is nowhere worse.  Of a play that is there twice one is announced, *)
(* which may show less pp than the other.                                  *)
NoneDropped ==
    \A s \in ToSet(collection.scores) : \E w \in ToSet(collection.scores), t \in ToAnnounce :
        /\ <<w.map, w.mode, w.mods>> = <<s.map, s.mode, s.mods>>
        /\ w.score >= s.score /\ w.pp >= s.pp
        /\ t.play = w.play

(* A score that is to be announced is in exactly one message to each       *)
(* channel.                                                                *)
ToldOnce(s, c) ==
    Cardinality({d \in posted \cup (lost \cap Message) : d.to = c /\ s \in d.of}) = 1

(* What the channel takes for its last map was announced there alone, and  *)
(* there is one unless its row failed.                                     *)
LastMapWasTold(c) ==
    LET alone == {d \in posted : d.to = c /\ d.alone}
        told(ds) == UNION {{s.map : s \in d.of} : d \in ds}
    IN  lastMap[c] \in told(alone) \cup (IF alone \subseteq lost THEN {NoMap} ELSE {})

(* When an update's messages are out, every play it collected, or one that *)
(* is nowhere worse, was told once in every channel, whatever failed of    *)
(* the others; and a channel's last map is one it was told of (merge,      *)
(* send_all, send_batch, send_message_to).                                 *)
EveryScoreIsTold ==
    /\ NoneDropped
    /\ AllSent => \A c \in Channels :
        /\ \A s \in ToAnnounce \ lost : ToldOnce(s, c)
        /\ LastMapWasTold(c)
=============================================================================
