--------------------------- MODULE MCScoreBuffer ---------------------------
(***************************************************************************)
(* Lists of scores for TLC: the lazy buffer that fetches them and the      *)
(* messages an update sends about them.  They have nothing in common, so a *)
(* behaviour uses one of them and leaves the other as it is.  The scores   *)
(* of a buffer have nothing but their order in the list; those that are    *)
(* posted lie on both sides of every limit.                                *)
(***************************************************************************)
EXTENDS ScoreBuffer, ScorePosts

CONSTANTS s1, s2, s3, s4, s5, d1, d2

VARIABLE used

scoresVars == <<vars, postVars, used>>

Score(p, map, mode, mods, score, pp, top, world) ==
    [play |-> p, map |-> map, mode |-> mode, mods |-> mods, score |-> score, pp |-> pp,
     top |-> top, world |-> world]

Best == <<Score(1, "a", "std", "none", 2, 2, 25, 0), Score(2, "a", "std", "hidden", 1, 1, 26, 0),
          Score(3, "b", "taiko", "none", 2, 2, 30, 0), Score(4, "c", "std", "none", 1, 1, 40, 0),
          Score(5, "d", "std", "none", 1, 1, 41, 0)>>
OnlyQuiet == Score(8, "e", "std", "none", 1, 1, 0, 101)
Events == {Score(1, "a", "std", "none", 2, 2, 0, 100), Score(2, "a", "std", "hidden", 1, 2, 0, 101),
           Score(6, "b", "taiko", "none", 3, 1, 0, 50), Score(7, "a", "std", "none", 1, 1, 0, 101),
           OnlyQuiet}

(* Two of one play, and one that is beaten by the second of them only.     *)
Twins == <<Score(2, "a", "std", "hidden", 1, 1, 26, 0), Score(2, "a", "std", "hidden", 1, 2, 0, 101),
           Score(9, "a", "std", "hidden", 1, 2, 0, 102)>>

(* Two scores in any order, five that share summaries, five of which one   *)
(* has a message of its own, and the twins.                                *)
Known(scores) == [scores |-> scores, eventsKnown |-> TRUE]
UpToTwo == {some \in SUBSET Events : Cardinality(some) <= 2}
SomeCollections ==
    {Known(scores) : scores \in UNION {SetToSeqs(some) : some \in UpToTwo}}
    \cup {Known(<<best, event>>) : best \in ToSet(Best), event \in Events}
    \cup {Known(Append(Tail(Best), OnlyQuiet)), Known(Twins), [scores |-> Best, eventsKnown |-> FALSE]}

ScoresTypeOK == TypeOK /\ PostsTypeOK

ScoresInit ==
    /\ used \in {"buffer", "posts"}
    /\ Init
    /\ PostsInit
    /\ used = "buffer" => collection.scores = <<>>
    /\ used = "posts" => server = <<>>

ScoresNext ==
    /\ \/ used = "buffer" /\ Next /\ UNCHANGED postVars
       \/ used = "posts" /\ PostsNext /\ UNCHANGED vars
    /\ UNCHANGED used

(* What is not used is never enabled.                                      *)
FairScores ==
    /\ ScoresInit /\ [][ScoresNext]_scoresVars
    /\ WF_vars(used = "buffer" /\ New)
    /\ WF_vars(used = "buffer" /\ FetchMore)
    /\ WF_vars(used = "buffer" /\ Return)
=============================================================================
