--------------------------- MODULE OsuLeaderboard ---------------------------
(***************************************************************************)
(* What youmubot-osu/src/discord/server_rank.rs makes of the plays and the *)
(* profiles of a server's members: the leaderboard of a map, the ranking   *)
(* of the members, and the page of either that a message shows.  It keeps  *)
(* no state; OsuCommands asks for the plays, which come in any order.      *)
(***************************************************************************)
EXTENDS Integers, Sequences, FiniteSets, SequencesExt

CONSTANTS
    Members,        \* saved accounts of the members, by number
    BoardMaps,      \* maps
    PlaysOf,        \* the plays of a member on a map that the API returns
    StatsOf         \* the saved figures of a member in each of its modes

(* A play whose pp is official has it from the site, another has it        *)
(* calculated from its statistics.                                         *)
Ranking == [user : Members, map : BoardMaps, mods : STRING, official : BOOLEAN,
            pp : Nat, score : Nat]

ASSUME LeaderboardAssumption ==
    /\ Members \subseteq Nat /\ IsFiniteSet(Members)
    /\ \A k \in Members \X BoardMaps : PlaysOf[k] \in Seq(Ranking)
    /\ \A u \in Members :
         /\ IsFiniteSet(DOMAIN StatsOf[u])
         /\ \A mode \in DOMAIN StatsOf[u] : StatsOf[u][mode] \in [pp : Nat, length : Nat, age : Nat]

-----------------------------------------------------------------------------
(* Sorting *)

(* An order is the set of the pairs whose first element comes first.       *)

(* Where an element goes in a list that is sorted: behind its equals.      *)
PlaceIn(order, s, x) ==
    LET places == {p \in 0..Len(s) : \A i \in (p + 1)..Len(s) : <<x, s[i]>> \in order}
    IN  InsertAt(s, 1 + Min(places), x)

Sorted(order, s) ==
    LET done[n \in 0..Len(s)] ==
            IF n = 0 THEN <<>> ELSE PlaceIn(order, done[n - 1], s[n])
    IN  done[Len(s)]

-----------------------------------------------------------------------------
(* get_leaderboard *)

OrderBy == {"pp", "score"}

(* Official pp come before calculated ones, whatever their size.           *)
Before(order, a, b) ==
    IF order = "score" THEN a.score > b.score
    ELSE \/ a.official /\ ~b.official
         \/ a.official = b.official /\ a.pp > b.pp

OrderOf(order) == {p \in Ranking \X Ranking : Before(order, p[1], p[2])}
UserOrder == {p \in Ranking \X Ranking : p[1].user < p[2].user}

SamePlay(a, b) == a.user = b.user /\ a.mods = b.mods

(* A variant that keeps whichever play came last.                          *)
KeepLast(rows, r) ==
    IF \E i \in DOMAIN rows : SamePlay(rows[i], r)
    THEN [i \in DOMAIN rows |-> IF SamePlay(rows[i], r) THEN r ELSE rows[i]]
    ELSE PlaceIn(UserOrder, rows, r)

(* One play for each user and mods, by the user's id (the BTreeMap).       *)
KeepBest(rows, r) ==
    IF \E i \in DOMAIN rows : SamePlay(rows[i], r)
    THEN [i \in DOMAIN rows |->
            IF SamePlay(rows[i], r) /\ rows[i].pp < r.pp THEN r ELSE rows[i]]
    ELSE PlaceIn(UserOrder, rows, r)

Ranked(arrived) ==
    LET rows[n \in 0..Len(arrived)] ==
            IF n = 0 THEN <<>> ELSE KeepBest(rows[n - 1], arrived[n])
    IN  rows[Len(arrived)]

Leaderboard(arrived, showUnranked, order) ==
    Sorted(OrderOf(order), IF showUnranked THEN arrived ELSE Ranked(arrived))

-----------------------------------------------------------------------------
(* rankings_to_table and the pages of display_rankings_table *)

RowsPerPage == 5

SmallerIndex(a, b) == IF a < b THEN a ELSE b

(* The numbered rows of a page, none when the page does not exist.         *)
TablePage(rows, p, perPage) ==
    LET start == p * perPage
        end == SmallerIndex(start + perPage, Len(rows))
    IN  IF start >= end THEN <<>>
        ELSE [i \in 1..(end - start) |-> [number |-> start + i, row |-> rows[start + i]]]

-----------------------------------------------------------------------------
(* do_server_ranks *)

RankQuery == {"pp", "total", "length", "age"}
MembersPerPage == 10
PPLimit == 500

HasMode(u, mode) == mode \in DOMAIN StatsOf[u]

(* pass_pp_limit: the figures of maps need a certain pp.                   *)
PassPPLimit(query, mode, u) ==
    query \in {"length", "age"} => HasMode(u, mode) /\ StatsOf[u][mode].pp >= PPLimit

TotalPP(u) ==
    LET modes == SetToSeq(DOMAIN StatsOf[u])
        sum[n \in 0..Len(modes)] == IF n = 0 THEN 0 ELSE sum[n - 1] + StatsOf[u][modes[n]].pp
    IN  sum[Len(modes)]

(* What a query sorts by; a member without the mode has nothing, which is  *)
(* less than any figure.                                                   *)
Figure(query, mode, u) ==
    IF query = "total" THEN TotalPP(u)
    ELSE IF HasMode(u, mode) THEN StatsOf[u][mode][query] ELSE -1

(* Ages are sorted upwards, the oldest maps first.                         *)
RankBefore(query, mode, u, v) ==
    IF query = "age" THEN Figure(query, mode, u) < Figure(query, mode, v)
    ELSE Figure(query, mode, u) > Figure(query, mode, v)

RankOrder(query, mode) == {p \in Members \X Members : RankBefore(query, mode, p[1], p[2])}

ServerRanks(listed, query, mode, reversed) ==
    LET sorted == Sorted(RankOrder(query, mode), listed)
    IN  IF reversed THEN Reverse(sorted) ELSE sorted

(* The date of the oldest figures, which is unwrapped: it exists when some *)
(* member has the mode, or any mode when the pp are added up.              *)
HasLastUpdate(users, query, mode) ==
    \E i \in DOMAIN users :
        IF query = "total" THEN DOMAIN StatsOf[users[i]] # {} ELSE HasMode(users[i], mode)

-----------------------------------------------------------------------------
(* What is expected of a leaderboard: every play is represented by one of  *)
(* its user and mods with at least its pp, each user and mods is there     *)
(* once unless all plays are asked for, and the rows follow the order.     *)
RepresentsAll(rows, arrived, showUnranked) ==
    /\ \A i \in DOMAIN arrived :
         \E j \in DOMAIN rows : SamePlay(rows[j], arrived[i]) /\ rows[j].pp >= arrived[i].pp
    /\ ~showUnranked =>
         \A i, j \in DOMAIN rows : SamePlay(rows[i], rows[j]) => i = j

FollowsOrder(rows, order) ==
    \A i, j \in DOMAIN rows : i < j =>
        IF order = "score" THEN rows[i].score >= rows[j].score
        ELSE /\ rows[j].official => rows[i].official
             /\ rows[i].official = rows[j].official => rows[i].pp >= rows[j].pp

(* The pages hold every row once, under its number.                        *)
PagesCover(rows, perPage) ==
    \A i \in DOMAIN rows :
        \E j \in DOMAIN TablePage(rows, (i - 1) \div perPage, perPage) :
            TablePage(rows, (i - 1) \div perPage, perPage)[j] = [number |-> i, row |-> rows[i]]

(* A ranking lists those who pass the limit once each, by their figures.   *)
RanksFollow(b) ==
    /\ {b.ranks[i] : i \in DOMAIN b.ranks} = {u \in b.of : PassPPLimit(b.query, b.mode, u)}
    /\ \A i, j \in DOMAIN b.ranks : b.ranks[i] = b.ranks[j] => i = j
    /\ \A i, j \in DOMAIN b.ranks : i < j =>
         LET u == b.ranks[IF b.reversed THEN j ELSE i]
             v == b.ranks[IF b.reversed THEN i ELSE j]
         IN  IF b.query = "age" THEN Figure(b.query, b.mode, u) <= Figure(b.query, b.mode, v)
             ELSE Figure(b.query, b.mode, u) >= Figure(b.query, b.mode, v)
=============================================================================
