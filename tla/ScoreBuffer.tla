---------------------------- MODULE ScoreBuffer ----------------------------
(***************************************************************************)
(* The lazy buffer of youmubot-osu/src/request/scores.rs: a Fetcher over a *)
(* FetchPureImpl.  Pages are fetched by offset, on demand, while the list  *)
(* on the server may change between two requests.                          *)
(***************************************************************************)
EXTENDS Integers, Sequences, FiniteSets, SequencesExt

CONSTANTS
    Scores,         \* what the list is made of
    PageSize,       \* ITEMS_PER_PAGE
    Faults,         \* "fetch"
    Moves,          \* what the server may do: "insert", "remove"
    MaxMoves,       \* bound on the changes of the list
    MaxCalls        \* bound on the calls of the buffer

ASSUME ScoreBufferAssumption ==
    /\ PageSize \in Nat \ {0}
    /\ Faults \subseteq {"fetch"}
    /\ Moves \subseteq {"insert", "remove"}
    /\ MaxMoves \in Nat
    /\ MaxCalls \in Nat

VARIABLES
    server,         \* the list of the server
    offset,         \* FetchPureImpl.current_offset
    ended,          \* FetchPureImpl.ended
    items,          \* Fetcher.items
    more,           \* Fetcher.more_exists
    call,           \* the call in progress
    first,          \* history: the list when the buffer was made
    moved,          \* history: what the server did since
    moves, calls    \* the bounded counters

buffer == <<offset, ended, items, more>>
history == <<first, moved>>
vars == <<server, buffer, call, history, moves, calls>>

Idle == [op |-> "idle"]
Call ==
    {Idle, [op |-> "new"], [op |-> "failed"]}
    \cup [op : {"range"}, end : Nat]
    \cup [op : {"find"}, of : Scores]
    \cup [op : {"absent"}, of : Scores]

TypeOK ==
    /\ server \in Seq(Scores)
    /\ offset \in Nat
    /\ ended \in BOOLEAN
    /\ items \in Seq(Scores)
    /\ more \in BOOLEAN
    /\ call \in Call
    /\ first \in Seq(Scores)
    /\ moved \subseteq Moves
    /\ moves \in 0..MaxMoves
    /\ calls \in 0..MaxCalls

Init ==
    /\ server \in {s \in SeqOf(Scores, Cardinality(Scores)) : IsInjective(s)}
    /\ offset = 0
    /\ ended = FALSE
    /\ items = <<>>
    /\ more = TRUE
    /\ call = [op |-> "new"]
    /\ first = server
    /\ moved = {}
    /\ moves = 0
    /\ calls = 0

-----------------------------------------------------------------------------
(* The list on the server *)

Move(kind) ==
    /\ kind \in Moves
    /\ moves < MaxMoves
    /\ moves' = moves + 1
    /\ moved' = moved \cup {kind}
    /\ UNCHANGED <<buffer, call, first, calls>>

(* A new score enters the list, anywhere.                                  *)
Enter(s, i) ==
    /\ Move("insert")
    /\ s \notin ToSet(server) \cup ToSet(first)
    /\ i \in 1..(Len(server) + 1)
    /\ server' = InsertAt(server, i, s)

Leave(i) ==
    /\ Move("remove")
    /\ i \in 1..Len(server)
    /\ server' = RemoveAt(server, i)

-----------------------------------------------------------------------------
(* FetchPureImpl::next *)

PageEnd(from) == IF from + PageSize <= Len(server) THEN from + PageSize ELSE Len(server)

(* fetch_offset                                                            *)
Page(from) == SubSeq(server, from + 1, PageEnd(from))

(* A variant that takes a full page for the last one.                      *)
IsLastEarly(results) == Len(results) <= PageSize

(* A page that is not full ends the list.                                  *)
IsLast(results) == Len(results) < PageSize

(* A variant that goes on from the last item instead of after it.          *)
AdvanceToLast(results) == offset + Len(results) - 1

Advance(results) == offset + Len(results)

(* A variant that goes on asking a list that ended.                        *)
FetchNextPageAgain ==
    LET results == IF ended THEN <<>> ELSE Page(offset)
    IN  /\ ended' = (ended \/ IsLast(results))
        /\ offset' = Advance(results)
        /\ items' = items \o results
        /\ more' = TRUE

(* fetch_next_page: nothing when the list ended, or else the next page; an *)
(* empty page is as good as none.                                          *)
FetchNextPage ==
    LET results == Page(offset)
    IN  IF ended
        THEN more' = FALSE /\ UNCHANGED <<offset, ended, items>>
        ELSE /\ ended' = IsLast(results)
             /\ offset' = Advance(results)
             /\ items' = items \o results
             /\ more' = (results # <<>>)

-----------------------------------------------------------------------------
(* Fetcher *)

AtLeast(n) == [count |-> n, total |-> FALSE]
Total(n) == [count |-> n, total |-> TRUE]

(* length_fetched; size_hint knows an upper bound once the list ended.     *)
Length ==
    IF ~more THEN Total(Len(items))
    ELSE IF ended THEN Total(offset) ELSE AtLeast(Len(items))

(* Fetcher::new makes no buffer when its first request fails.              *)
New ==
    /\ call.op = "new"
    /\ FetchNextPage
    /\ call' = Idle
    /\ UNCHANGED <<server, history, moves, calls>>

NewFails ==
    /\ "fetch" \in Faults
    /\ call.op = "new"
    /\ call' = [op |-> "failed"]
    /\ UNCHANGED <<server, buffer, history, moves, calls>>

BeginGetRange(end) ==
    /\ call.op \in {"idle", "absent"}
    /\ calls < MaxCalls
    /\ calls' = calls + 1
    /\ call' = [op |-> "range", end |-> end]
    /\ UNCHANGED <<server, buffer, history, moves>>

BeginFind(s) ==
    /\ call.op \in {"idle", "absent"}
    /\ calls < MaxCalls
    /\ calls' = calls + 1
    /\ call' = [op |-> "find", of |-> s]
    /\ UNCHANGED <<server, buffer, history, moves>>

(* What a call waits for is not among the items yet.                       *)
Wanting ==
    \/ call.op = "range" /\ Len(items) < call.end
    \/ call.op = "find" /\ call.of \notin ToSet(items)

(* One turn of the loops of get_range and find.                            *)
FetchMore ==
    /\ Wanting
    /\ more
    /\ FetchNextPage
    /\ UNCHANGED <<server, call, history, moves, calls>>

(* The error ends the call and leaves the buffer as it was.                *)
FetchFails ==
    /\ "fetch" \in Faults
    /\ Wanting
    /\ more
    /\ ~ended
    /\ call' = Idle
    /\ UNCHANGED <<server, buffer, history, moves, calls>>

Return ==
    /\ call.op \in {"range", "find"}
    /\ ~Wanting \/ ~more
    /\ call' = IF call.op = "find" /\ Wanting
               THEN [op |-> "absent", of |-> call.of] ELSE Idle
    /\ UNCHANGED <<server, buffer, history, moves, calls>>

-----------------------------------------------------------------------------

Next ==
    \/ \E s \in Scores, i \in 1..(Len(server) + 1) : Enter(s, i)
    \/ \E i \in 1..Len(server) : Leave(i)
    \/ New
    \/ NewFails
    \/ \E end \in 1..(Cardinality(Scores) + 1) : BeginGetRange(end)
    \/ \E s \in Scores : BeginFind(s)
    \/ FetchMore
    \/ FetchFails
    \/ Return

Spec == Init /\ [][Next]_vars

(* A request gets an answer, and a call goes on once it has one.           *)
FairSpec == Spec /\ WF_vars(New) /\ WF_vars(FetchMore) /\ WF_vars(Return)

-----------------------------------------------------------------------------
(* Properties *)

(* The length shown is the number of items held, wherever it comes from,   *)
(* the items or the hint of the fetcher (length_fetched, size_hint).       *)
LengthIsItems == Length.count = Len(items)

(* As long as the list stays as it was the items are its beginning, and    *)
(* all of it once the length is said to be total (fetch_next_page).        *)
ItemsArePrefix ==
    moved = {} =>
        /\ IsPrefix(items, first)
        /\ Length.total => items = first

(* When scores only enter the list, none that was there from the start is  *)
(* passed over: all of them are held once the length is total, and one     *)
(* that find does not find was never there (get_range, find).              *)
NoScoreSkipped ==
    "remove" \notin moved =>
        /\ Length.total => ToSet(first) \subseteq ToSet(items)
        /\ call.op = "absent" => call.of \notin ToSet(first)

(* What makes the three above inductive: the next offset is the number of  *)
(* items, ...                                                              *)
Progress ==
    /\ offset = Len(items)
    /\ ~more => ended
    /\ call.op = "absent" => ended /\ call.of \notin ToSet(items)

(* ... the items are those before the offset, ...                          *)
Fetched ==
    moved = {} =>
        /\ server = first
        /\ offset <= Len(server)
        /\ \A i \in 1..offset : items[i] = server[i]
        /\ ended => offset = Len(server)

(* ... and a score that was there from the start is held or still ahead.   *)
Held(s) == \E k \in 1..Len(items) : items[k] = s
Ahead(s) == \E j \in 1..Len(server) : j > offset /\ server[j] = s
HeldOrAhead ==
    "remove" \notin moved =>
        \A i \in 1..Len(first) : Held(first[i]) \/ (~ended /\ Ahead(first[i]))

IInv == TypeOK /\ Progress /\ Fetched /\ HeldOrAhead

(* Every call of the buffer returns although the list may grow under it    *)
(* (get_range's loop, find's loop).                                        *)
CallsReturn == call.op \in {"range", "find"} ~> call.op \notin {"range", "find"}
=============================================================================
