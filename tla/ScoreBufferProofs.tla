------------------------- MODULE ScoreBufferProofs -------------------------
(***************************************************************************)
(* Theorems about ScoreBuffer for every list, page size and bound, and     *)
(* about ScorePosts for every collection and channel.                      *)
(***************************************************************************)
EXTENDS MCScoreBuffer, FoldLemmas, SequenceTheorems, FiniteSetTheorems, TLAPS

(* A page is what the list has from an offset on, at most PageSize of it.  *)
LEMMA PageIs ==
    ASSUME NEW from \in Nat, server \in Seq(Scores)
    PROVE  /\ Page(from) \in Seq(Scores)
           /\ Len(Page(from)) = IF from >= Len(server) THEN 0
                                ELSE IF from + PageSize <= Len(server) THEN PageSize
                                ELSE Len(server) - from
           /\ \A i \in 1..Len(Page(from)) : Page(from)[i] = server[from + i]
  <1> DEFINE n == PageEnd(from)
  <1>1. n \in Nat /\ n <= Len(server)
    BY ScoreBufferAssumption DEF PageEnd
  <1>2. \A i \in (from + 1)..n : server[i] \in Scores
    BY <1>1
  <1>3. /\ Page(from) \in Seq(Scores)
        /\ Len(Page(from)) = IF from + 1 <= n THEN n - (from + 1) + 1 ELSE 0
        /\ \A i \in 1..(n - (from + 1) + 1) : Page(from)[i] = server[from + 1 + i - 1]
    BY <1>1, <1>2, SubSeqProperties DEF Page
  <1>4. Len(Page(from)) = IF from >= Len(server) THEN 0
                          ELSE IF from + PageSize <= Len(server) THEN PageSize
                          ELSE Len(server) - from
    BY <1>3, ScoreBufferAssumption DEF PageEnd
  <1>5. ASSUME NEW i \in 1..Len(Page(from))
        PROVE  Page(from)[i] = server[from + i]
    <2>1. i \in 1..(n - (from + 1) + 1) /\ from + 1 + i - 1 = from + i
      BY <1>1, <1>3
    <2> QED BY <2>1, <1>3
  <1> QED BY <1>3, <1>4, <1>5

(* A score put into the list leaves every other one where it was or one    *)
(* place further.                                                          *)
LEMMA InsertAtIs ==
    ASSUME NEW l \in Seq(Scores), NEW i \in 1..(Len(l) + 1), NEW s \in Scores
    PROVE  /\ InsertAt(l, i, s) \in Seq(Scores)
           /\ Len(InsertAt(l, i, s)) = Len(l) + 1
           /\ \A j \in 1..Len(l) :
                InsertAt(l, i, s)[IF j < i THEN j ELSE j + 1] = l[j]
  <1> DEFINE w == InsertAt(l, i, s)
  <1>1. w \in Seq(Scores) /\ Insertion(w, l, i, s)
    BY Inserted DEF InsertAt
  <1> HIDE DEF w
  <1>2. /\ Len(w) = Len(l) + 1
        /\ \A k \in 1..Len(w) : w[k] = IF k < i THEN l[k] ELSE IF k = i THEN s ELSE l[k - 1]
    BY <1>1 DEF Insertion
  <1>3. ASSUME NEW j \in 1..Len(l)
        PROVE  w[IF j < i THEN j ELSE j + 1] = l[j]
    <2>1. CASE j < i
      BY <2>1, <1>2
    <2>2. CASE j >= i
      <3>1. j + 1 \in 1..Len(w) /\ ~ (j + 1 < i) /\ j + 1 # i /\ j + 1 - 1 = j
        BY <2>2, <1>2
      <3> QED BY <2>2, <3>1, <1>2
    <2> QED BY <2>1, <2>2
  <1> QED BY <1>1, <1>2, <1>3 DEF w

LEMMA RemoveAtIs ==
    ASSUME NEW l \in Seq(Scores), NEW i \in 1..Len(l)
    PROVE  RemoveAt(l, i) \in Seq(Scores)
  <1>1. /\ \A j \in 1..(i - 1) : l[j] \in Scores
        /\ \A j \in (i + 1)..Len(l) : l[j] \in Scores
    OBVIOUS
  <1>2. SubSeq(l, 1, i - 1) \in Seq(Scores) /\ SubSeq(l, i + 1, Len(l)) \in Seq(Scores)
    BY <1>1, SubSeqProperties
  <1> QED BY <1>2, ConcatProperties DEF RemoveAt

LEMMA InitIInv == Init => IInv
  <1> SUFFICES ASSUME Init PROVE IInv
    OBVIOUS
  <1>1. server \in Seq(Scores) /\ first = server
    BY DEF Init, SeqOf
  <1>2. TypeOK
    <2>1. call \in Call
      BY DEF Init, Call
    <2>2. offset \in Nat /\ items \in Seq(Scores) /\ 0 \in 0..MaxMoves /\ 0 \in 0..MaxCalls
      BY ScoreBufferAssumption DEF Init
    <2> QED BY <1>1, <2>1, <2>2 DEF Init, TypeOK
  <1>3. Progress /\ Fetched
    BY <1>1 DEF Init, Progress, Fetched
  <1>4. HeldOrAhead
    BY <1>1 DEF Init, HeldOrAhead, Ahead
  <1> QED BY <1>2, <1>3, <1>4 DEF IInv

(* A fetched page keeps the items a prefix and loses no score.             *)
LEMMA FetchSafe ==
    ASSUME IInv, FetchNextPage, UNCHANGED <<server, first, moved>>
    PROVE  /\ offset' \in Nat /\ ended' \in BOOLEAN /\ more' \in BOOLEAN
           /\ items' \in Seq(Scores)
           /\ offset' = Len(items')
           /\ ~more' => ended'
           /\ Fetched'
           /\ HeldOrAhead'
  <1>0. /\ server \in Seq(Scores) /\ items \in Seq(Scores) /\ offset \in Nat
        /\ Len(server) \in Nat /\ ended \in BOOLEAN
        /\ offset = Len(items)
    BY DEF IInv, TypeOK, Progress
  <1>1. CASE ended
    BY <1>1 DEF IInv, TypeOK, Progress, FetchNextPage, Fetched, HeldOrAhead, Held, Ahead
  <1>2. CASE ~ended
    <2> DEFINE results == Page(offset)
    <2>1. /\ ended' = (Len(results) < PageSize)
          /\ offset' = offset + Len(results)
          /\ items' = items \o results
          /\ more' = (results # <<>>)
      BY <1>2 DEF FetchNextPage, IsLast, Advance
    <2>a. /\ ended' \in BOOLEAN /\ (ended' <=> Len(results) < PageSize)
          /\ more' \in BOOLEAN /\ (more' <=> results # <<>>)
      <3> DEFINE short == Len(results) < PageSize
                 some == results # <<>>
      <3>1. short \in BOOLEAN /\ some \in BOOLEAN /\ ended' = short /\ more' = some
        BY <2>1
      <3> HIDE DEF short, some
      <3>2. /\ ended' \in BOOLEAN /\ (ended' <=> short)
            /\ more' \in BOOLEAN /\ (more' <=> some)
        BY <3>1, Zenon
      <3> QED BY <3>2 DEF short, some
    <2>2. /\ results \in Seq(Scores)
          /\ Len(results) = IF offset >= Len(server) THEN 0
                            ELSE IF offset + PageSize <= Len(server) THEN PageSize
                            ELSE Len(server) - offset
          /\ \A i \in 1..Len(results) : results[i] = server[offset + i]
      BY <1>0, PageIs
    <2> HIDE DEF results
    <2>3. /\ items' \in Seq(Scores)
          /\ Len(items') = offset + Len(results)
          /\ \A i \in 1..(offset + Len(results)) :
               items'[i] = IF i <= offset THEN items[i] ELSE results[i - offset]
      BY <1>0, <2>1, <2>2, ConcatProperties
    <2>4. /\ offset' \in Nat /\ ended' \in BOOLEAN /\ more' \in BOOLEAN
          /\ items' \in Seq(Scores)
          /\ offset' = Len(items')
      BY <1>0, <2>a, <2>1, <2>2, <2>3
    <2>5. ~more' => ended'
      BY <2>a, <2>2, ScoreBufferAssumption
    <2>6. ASSUME NEW i \in 1..offset', i > offset
          PROVE  items'[i] = server[i]
      <3>1. i - offset \in 1..Len(results) /\ offset + (i - offset) = i
        BY <1>0, <2>1, <2>2, <2>6
      <3>2. items'[i] = results[i - offset]
        BY <1>0, <2>1, <2>3, <2>6
      <3>3. results[i - offset] = server[i]
        BY <3>1, <2>2
      <3> QED BY <3>2, <3>3
    <2>7. ended' => offset' >= Len(server)
      BY <1>0, <2>a, <2>1, <2>2, ScoreBufferAssumption
    <2>8. Fetched'
      <3> SUFFICES ASSUME moved = {}
                   PROVE  /\ server = first
                          /\ offset' <= Len(server)
                          /\ \A i \in 1..offset' : items'[i] = server[i]
                          /\ ended' => offset' = Len(server)
        BY DEF Fetched
      <3>0. server = first
        BY DEF IInv, Fetched
      <3>1. offset <= Len(server) /\ \A i \in 1..offset : items[i] = server[i]
        BY DEF IInv, Fetched
      <3>2. offset' <= Len(server)
        BY <1>0, <3>1, <2>1, <2>2
      <3>3. ASSUME NEW i \in 1..offset', i <= offset
            PROVE  items'[i] = server[i]
        BY <1>0, <3>1, <3>3, <2>1, <2>2, <2>3
      <3> QED BY <1>0, <3>0, <3>2, <3>3, <2>4, <2>6, <2>7
    <2>9. HeldOrAhead'
      <3> SUFFICES ASSUME "remove" \notin moved, NEW k \in 1..Len(first)
                   PROVE  \/ \E i \in 1..Len(items') : items'[i] = first[k]
                          \/ ~ended' /\ \E j \in 1..Len(server) : j > offset' /\ server[j] = first[k]
        BY DEF HeldOrAhead, Held, Ahead
      <3>1. \/ \E i \in 1..Len(items) : items[i] = first[k]
            \/ \E j \in 1..Len(server) : j > offset /\ server[j] = first[k]
        BY DEF IInv, HeldOrAhead, Held, Ahead
      <3>2. ASSUME NEW i \in 1..Len(items), items[i] = first[k]
            PROVE  i \in 1..Len(items') /\ items'[i] = first[k]
        BY <1>0, <3>2, <2>2, <2>3
      <3>3. ASSUME NEW j \in 1..Len(server), j > offset, j <= offset'
            PROVE  j \in 1..Len(items') /\ items'[j] = server[j]
        BY <1>0, <3>3, <2>4, <2>6
      <3>4. ASSUME NEW j \in 1..Len(server), j > offset'
            PROVE  ~ended'
        BY <1>0, <3>4, <2>4, <2>7
      <3> QED BY <3>1, <3>2, <3>3, <3>4, <2>4
    <2> QED BY <2>4, <2>5, <2>8, <2>9
  <1> QED BY <1>1, <1>2

(* A score that enters the list ends the comparison with the first list    *)
(* and pushes what is ahead further ahead, never behind the offset.        *)
LEMMA EnterSafe ==
    ASSUME IInv, NEW s \in Scores, NEW i \in 1..(Len(server) + 1), Enter(s, i)
    PROVE  server' \in Seq(Scores) /\ Fetched' /\ HeldOrAhead'
  <1>0. /\ server \in Seq(Scores) /\ offset \in Nat /\ Len(server) \in Nat
    BY DEF IInv, TypeOK
  <1>1. /\ server' = InsertAt(server, i, s)
        /\ moved' = moved \cup {"insert"}
        /\ UNCHANGED <<offset, ended, items, first>>
    BY DEF Enter, Move, buffer
  <1>2. /\ server' \in Seq(Scores)
        /\ Len(server') = Len(server) + 1
        /\ \A j \in 1..Len(server) : server'[IF j < i THEN j ELSE j + 1] = server[j]
    BY <1>0, <1>1, InsertAtIs
  <1>3. Fetched'
    BY <1>1 DEF IInv, Fetched
  <1>4. ASSUME NEW t, Ahead(t) PROVE Ahead(t)'
    <2>1. PICK j \in 1..Len(server) : j > offset /\ server[j] = t
      BY <1>4 DEF Ahead
    <2> DEFINE k == IF j < i THEN j ELSE j + 1
    <2>2. k \in 1..Len(server') /\ k > offset' /\ server'[k] = t
      BY <1>0, <1>1, <1>2, <2>1
    <2> QED BY <2>2 DEF Ahead
  <1>5. HeldOrAhead'
    BY <1>1, <1>4 DEF IInv, HeldOrAhead, Held
  <1> QED BY <1>2, <1>3, <1>5

LEMMA LeaveSafe ==
    ASSUME IInv, NEW i \in 1..Len(server), Leave(i)
    PROVE  server' \in Seq(Scores) /\ Fetched' /\ HeldOrAhead'
  <1>1. server' = RemoveAt(server, i) /\ moved' = moved \cup {"remove"}
    BY DEF Leave, Move
  <1>2. server' \in Seq(Scores)
    BY <1>1, RemoveAtIs DEF IInv, TypeOK
  <1> QED BY <1>1, <1>2 DEF Fetched, HeldOrAhead

(* A step that leaves the buffer, the list and the history alone.          *)
LEMMA CallSafe ==
    ASSUME IInv, UNCHANGED <<server, buffer, history, moves>>,
           call' \in Call, calls' \in 0..MaxCalls,
           call'.op = "absent" => ended /\ call'.of \notin ToSet(items)
    PROVE  IInv'
  <1>1. TypeOK'
    BY DEF IInv, TypeOK, buffer, history
  <1>2. Progress'
    BY DEF IInv, Progress, buffer
  <1>3. Fetched' /\ HeldOrAhead'
    BY DEF IInv, Fetched, HeldOrAhead, Held, Ahead, buffer, history
  <1> QED BY <1>1, <1>2, <1>3 DEF IInv

LEMMA NextIInv == IInv /\ [Next]_vars => IInv'
  <1> SUFFICES ASSUME IInv, [Next]_vars PROVE IInv'
    OBVIOUS
  <1>0. /\ Idle \in Call /\ Idle.op = "idle" /\ call \in Call
        /\ calls \in 0..MaxCalls /\ MaxCalls \in Nat
    BY ScoreBufferAssumption DEF Idle, Call, IInv, TypeOK
  <1>1. ASSUME NEW kind, Move(kind), server' \in Seq(Scores), Fetched', HeldOrAhead'
        PROVE  IInv'
    <2>1. moves' \in 0..MaxMoves
      BY <1>1, ScoreBufferAssumption DEF Move, IInv, TypeOK
    <2>2. TypeOK'
      BY <1>1, <2>1 DEF Move, IInv, TypeOK, buffer
    <2>3. Progress'
      BY <1>1 DEF Move, IInv, Progress, buffer
    <2> QED BY <1>1, <2>2, <2>3 DEF IInv
  <1>2. ASSUME NEW s \in Scores, NEW i \in 1..(Len(server) + 1), Enter(s, i)
        PROVE  IInv'
    BY <1>1, <1>2, EnterSafe DEF Enter
  <1>3. ASSUME NEW i \in 1..Len(server), Leave(i)
        PROVE  IInv'
    BY <1>1, <1>3, LeaveSafe DEF Leave
  <1>4. ASSUME FetchNextPage, UNCHANGED <<server, first, moved, moves, calls>>,
               call' \in Call, call'.op # "absent"
        PROVE  IInv'
    <2>1. /\ offset' \in Nat /\ ended' \in BOOLEAN /\ more' \in BOOLEAN
          /\ items' \in Seq(Scores)
          /\ offset' = Len(items')
          /\ ~more' => ended'
          /\ Fetched'
          /\ HeldOrAhead'
      BY <1>4, FetchSafe
    <2>2. TypeOK'
      BY <1>4, <2>1 DEF IInv, TypeOK
    <2>3. Progress'
      BY <1>4, <2>1 DEF Progress
    <2> QED BY <2>1, <2>2, <2>3 DEF IInv
  <1>5. CASE New
    BY <1>0, <1>4, <1>5 DEF New, history
  <1>6. CASE NewFails
    <2>1. call' \in Call /\ call'.op = "failed"
      BY <1>6 DEF NewFails, Call
    <2> QED BY <1>0, <1>6, <2>1, CallSafe DEF NewFails
  <1>7. ASSUME NEW end \in 1..(Cardinality(Scores) + 1), BeginGetRange(end)
        PROVE  IInv'
    <2>1. end \in Nat
      OBVIOUS
    <2>2. call' \in Call /\ call'.op = "range"
      BY <1>7, <2>1 DEF BeginGetRange, Call
    <2>3. calls' \in 0..MaxCalls
      BY <1>0, <1>7 DEF BeginGetRange
    <2> QED BY <1>7, <2>2, <2>3, CallSafe DEF BeginGetRange
  <1>8. ASSUME NEW s \in Scores, BeginFind(s)
        PROVE  IInv'
    <2>1. call' \in Call /\ call'.op = "find"
      BY <1>8 DEF BeginFind, Call
    <2>2. calls' \in 0..MaxCalls
      BY <1>0, <1>8 DEF BeginFind
    <2> QED BY <1>8, <2>1, <2>2, CallSafe DEF BeginFind
  <1>9. CASE FetchMore
    <2>1. call' = call /\ call.op # "absent"
      BY <1>9 DEF FetchMore, Wanting
    <2> QED BY <1>0, <1>4, <1>9, <2>1 DEF FetchMore, history
  <1>10. CASE FetchFails
    BY <1>0, <1>10, CallSafe DEF FetchFails
  <1>11. CASE Return
    <2>1. CASE call.op = "find" /\ Wanting
      <3>1. call' = [op |-> "absent", of |-> call.of] /\ call.of \notin ToSet(items) /\ ended
        BY <1>11, <2>1 DEF Return, Wanting, IInv, Progress
      <3>2. call.of \in Scores
        BY <1>0, <2>1 DEF Call, Idle
      <3>3. call' \in Call
        BY <3>1, <3>2 DEF Call
      <3> QED BY <1>0, <1>11, <3>1, <3>3, CallSafe DEF Return
    <2>2. CASE ~(call.op = "find" /\ Wanting)
      BY <1>0, <1>11, <2>2, CallSafe DEF Return
    <2> QED BY <2>1, <2>2
  <1>12. CASE UNCHANGED vars
    BY <1>0, <1>12, CallSafe DEF vars, IInv, Progress
  <1> QED
    BY <1>2, <1>3, <1>5, <1>6, <1>7, <1>8, <1>9, <1>10, <1>11, <1>12 DEF Next

LEMMA Invariance == Spec => []IInv
  <1> QED BY InitIInv, NextIInv, PTL DEF Spec

(* The buffer is always of its type.                                       *)
THEOREM TypeCorrect == Spec => []TypeOK
  <1>1. IInv => TypeOK
    BY DEF IInv
  <1> QED BY <1>1, Invariance, PTL

(* The length shown is the number of items held, although it is sometimes  *)
(* taken from the fetcher (length_fetched).                                *)
THEOREM LengthCorrect == Spec => []LengthIsItems
  <1>1. IInv => LengthIsItems
    BY DEF IInv, Progress, LengthIsItems, Length, Total, AtLeast
  <1> QED BY <1>1, Invariance, PTL

(* The items of a list that does not change are its beginning, and all of  *)
(* it once the length is total (fetch_next_page).                          *)
THEOREM PrefixCorrect == Spec => []ItemsArePrefix
  <1>1. ASSUME IInv PROVE ItemsArePrefix
    <2> SUFFICES ASSUME moved = {}
                 PROVE  IsPrefix(items, first) /\ (Length.total => items = first)
      BY DEF ItemsArePrefix
    <2>1. /\ items \in Seq(Scores) /\ first \in Seq(Scores)
          /\ Len(items) <= Len(first)
          /\ \A i \in 1..Len(items) : items[i] = first[i]
          /\ ended => Len(items) = Len(first)
      BY <1>1 DEF IInv, TypeOK, Progress, Fetched
    <2>2. SubSeq(items, 1, Len(items)) = SubSeq(first, 1, Len(items))
      <3> DEFINE n == Len(items)
      <3>1. n \in Nat /\ n <= Len(first) /\ Len(first) \in Nat
        BY <2>1
      <3>2. /\ \A i \in 1..n : items[i] \in Scores
            /\ \A i \in 1..n : first[i] \in Scores
        BY <2>1, <3>1
      <3>3. /\ SubSeq(items, 1, n) \in Seq(Scores)
            /\ Len(SubSeq(items, 1, n)) = IF 1 <= n THEN n - 1 + 1 ELSE 0
            /\ \A i \in 1..(n - 1 + 1) : SubSeq(items, 1, n)[i] = items[1 + i - 1]
        BY <3>1, <3>2, SubSeqProperties
      <3>4. /\ SubSeq(first, 1, n) \in Seq(Scores)
            /\ Len(SubSeq(first, 1, n)) = IF 1 <= n THEN n - 1 + 1 ELSE 0
            /\ \A i \in 1..(n - 1 + 1) : SubSeq(first, 1, n)[i] = first[1 + i - 1]
        BY <3>1, <3>2, SubSeqProperties
      <3>5. /\ Len(SubSeq(items, 1, n)) = n /\ Len(SubSeq(first, 1, n)) = n
            /\ \A i \in 1..n : SubSeq(items, 1, n)[i] = SubSeq(first, 1, n)[i]
        BY <2>1, <3>1, <3>3, <3>4
      <3> HIDE DEF n
      <3>6. SubSeq(items, 1, n) = SubSeq(first, 1, n)
        BY <3>3, <3>4, <3>5, SeqEqual
      <3> QED BY <3>6 DEF n
    <2>3. Length.total => ended
      BY <1>1 DEF IInv, Progress, Length, Total, AtLeast
    <2>4. Length.total => items = first
      BY <2>1, <2>3, SeqEqual
    <2> QED BY <2>1, <2>2, <2>4 DEF IsPrefix
  <1> QED BY <1>1, Invariance, PTL

(* While scores only enter the list, a page boundary that moves under the  *)
(* buffer makes it pass over none of them (get_range, find).               *)
THEOREM NothingSkipped == Spec => []NoScoreSkipped
  <1>1. ASSUME IInv PROVE NoScoreSkipped
    <2> SUFFICES ASSUME "remove" \notin moved
                 PROVE  /\ Length.total => ToSet(first) \subseteq ToSet(items)
                        /\ call.op = "absent" => call.of \notin ToSet(first)
      BY DEF NoScoreSkipped
    <2>1. Length.total => ended
      BY <1>1 DEF IInv, Progress, Length, Total, AtLeast
    <2>2. items \in Seq(Scores) /\ first \in Seq(Scores)
      BY <1>1 DEF IInv, TypeOK
    <2>3. ended => \A i \in 1..Len(first) : Held(first[i])
      BY <1>1 DEF IInv, HeldOrAhead
    <2>4. ended => ToSet(first) \subseteq ToSet(items)
      BY <2>2, <2>3 DEF Held, ToSet
    <2>5. call.op = "absent" => ended /\ call.of \notin ToSet(items)
      BY <1>1 DEF IInv, Progress
    <2> QED BY <2>1, <2>4, <2>5
  <1> QED BY <1>1, Invariance, PTL

-----------------------------------------------------------------------------
(* What an update sends *)

(* What makes it inductive: a score that waits for its map, or for the     *)
(* rest of its batch, is in no message yet, any other is in one, or lost;  *)
(* and a batch only waits for scores it will be sent with.                 *)
Sent == due \cup posted \cup (lost \cap Message)
ToldBy(s, c) == {d \in Sent : d.to = c /\ s \in d.of}
AloneIn(c) == {d \in posted : d.to = c /\ d.alone}

BatchWaits ==
    /\ \A i, j \in DOMAIN batch : batch[i] = batch[j] => i = j
    /\ batch # <<>> => \E r \in loading : IsSummed(r)

ToldByNow ==
    /\ \A d \in Sent : d.of # {}
    /\ \A s \in ToAnnounce, c \in Channels :
         IF s \in loading \cup ToSet(batch) THEN ToldBy(s, c) = {}
         ELSE s \in lost \/ \E d \in Sent : ToldBy(s, c) = {d}

LastMapByNow ==
    \A c \in Channels :
        IF lastMap[c] = NoMap THEN AloneIn(c) \subseteq unsaved \cup lost
        ELSE \E d \in AloneIn(c) : \E s \in d.of : lastMap[c] = s.map

PostsInv == PostsTypeOK /\ NoneDropped /\ BatchWaits /\ ToldByNow /\ LastMapByNow

-----------------------------------------------------------------------------
(* Merging *)

(* The elements of a sequence with one more at its end.                    *)
LEMMA ElementsAppended ==
    ASSUME NEW S, NEW s \in Seq(S), NEW x \in S
    PROVE  ToSet(Append(s, x)) = ToSet(s) \cup {x}
  <1> DEFINE t == Append(s, x)
             n == Len(s)
  <1>1. n \in Nat /\ DOMAIN s = 1..n
    OBVIOUS
  <1>2. DOMAIN t = 1..(n + 1) /\ (\A i \in 1..n : t[i] = s[i]) /\ t[n + 1] = x
    BY Appended
  <1> HIDE DEF t, n
  <1>3. ASSUME NEW y \in ToSet(t)
        PROVE  y \in ToSet(s) \cup {x}
    <2>1. PICK i \in 1..(n + 1) : y = t[i]
      BY <1>2 DEF ToSet
    <2>2. CASE i = n + 1
      BY <2>1, <2>2, <1>2
    <2>3. CASE i # n + 1
      <3>1. i \in 1..n
        BY <2>3, <1>1
      <3> QED BY <3>1, <2>1, <1>1, <1>2 DEF ToSet
    <2> QED BY <2>2, <2>3
  <1>4. ASSUME NEW y \in ToSet(s) \cup {x}
        PROVE  y \in ToSet(t)
    <2>1. CASE y = x
      <3>1. n + 1 \in 1..(n + 1)
        BY <1>1
      <3> QED BY <3>1, <2>1, <1>2 DEF ToSet
    <2>2. CASE y \in ToSet(s)
      <3>1. PICK i \in 1..n : y = s[i]
        BY <2>2, <1>1 DEF ToSet
      <3>2. i \in 1..(n + 1)
        BY <1>1
      <3> QED BY <3>1, <3>2, <1>2 DEF ToSet
    <2> QED BY <2>1, <2>2
  <1>5. ToSet(t) = ToSet(s) \cup {x}
    BY <1>3, <1>4
  <1> QED BY <1>5 DEF t

LEMMA KeepUnbeatenGood ==
    ASSUME NEW k \in Seq(PlayedScore), NEW v \in PlayedScore
    PROVE  /\ KeepUnbeaten(k, v) \in Seq(PlayedScore)
           /\ ToSet(k) \subseteq ToSet(KeepUnbeaten(k, v))
           /\ ToSet(KeepUnbeaten(k, v)) \subseteq ToSet(k) \cup {v}
           /\ \E w \in ToSet(KeepUnbeaten(k, v)) : Beats(w, v)
  <1>1. CASE \E w \in ToSet(k) : Beats(w, v)
    BY <1>1 DEF KeepUnbeaten
  <1>2. CASE ~ \E w \in ToSet(k) : Beats(w, v)
    <2>1. KeepUnbeaten(k, v) = Append(k, v)
      BY <1>2 DEF KeepUnbeaten
    <2>2. ToSet(Append(k, v)) = ToSet(k) \cup {v}
      BY ElementsAppended
    <2>3. v.score \in Nat /\ v.pp \in Nat
      BY DEF PlayedScore
    <2>4. Beats(v, v)
      BY <2>3 DEF Beats
    <2> QED BY <2>1, <2>2, <2>4
  <1> QED BY <1>1, <1>2

(* The first pass leaves some of the scores, and for each one that is      *)
(* nowhere worse.                                                          *)
LEMMA UnbeatenGood ==
    ASSUME NEW scores \in Seq(PlayedScore)
    PROVE  /\ Unbeaten(scores) \in Seq(PlayedScore)
           /\ ToSet(Unbeaten(scores)) \subseteq ToSet(scores)
           /\ \A s \in ToSet(scores) : \E w \in ToSet(Unbeaten(scores)) : Beats(w, s)
  <1> DEFINE N == Len(scores)
             X == Seq(PlayedScore)
             op == [k \in X |-> [v \in PlayedScore |-> KeepUnbeaten(k, v)]]
             kept[n \in 0..N] == IF n = 0 THEN <<>> ELSE KeepUnbeaten(kept[n - 1], scores[n])
             Good == {n \in 0..N : /\ kept[n] \in X
                                   /\ ToSet(kept[n]) \subseteq ToSet(scores)
                                   /\ \A i \in 1..n : \E w \in ToSet(kept[n]) : Beats(w, scores[i])}
  <1>0. N \in Nat /\ (\A n \in 1..N : scores[n] \in PlayedScore) /\ ToSet(scores) = {scores[n] : n \in 1..N}
    BY DEF ToSet
  <1>1. kept = [n \in 0..N |-> IF n = 0 THEN <<>> ELSE KeepUnbeaten(kept[n - 1], scores[n])]
    <2>1. op \in [X -> [PlayedScore -> X]]
      BY KeepUnbeatenGood
    <2>2. <<>> \in X
      OBVIOUS
    <2>3. PICK f : IsFold(f, X, op, <<>>, scores)
      <3> HIDE DEF op, X
      <3> QED BY <2>1, <2>2, FoldExists
    <2>4. \A n \in 1..N : f[n] = KeepUnbeaten(f[n - 1], scores[n])
      <3> TAKE n \in 1..N
      <3>1. f[n - 1] \in X /\ scores[n] \in PlayedScore
        <4>1. n - 1 \in 0..N /\ scores[n] \in PlayedScore
          BY <1>0
        <4>2. f \in [0..N -> X]
          BY <2>3 DEF IsFold
        <4> HIDE DEF X, N, op
        <4> QED BY <4>1, <4>2
      <3>2. f[n] = op[f[n - 1]][scores[n]]
        BY <2>3 DEF IsFold
      <3> QED BY <3>1, <3>2
    <2>5. f = [n \in 0..N |-> IF n = 0 THEN <<>> ELSE KeepUnbeaten(f[n - 1], scores[n])]
      <3> HIDE DEF op, X, N
      <3> DEFINE h == [n \in 0..N |-> IF n = 0 THEN <<>> ELSE KeepUnbeaten(f[n - 1], scores[n])]
      <3>1. \A n \in 0..N : h[n] = f[n]
        BY <1>0, <2>3, <2>4 DEF IsFold, N
      <3>2. f \in [0..N -> X]
        BY <2>3 DEF IsFold, N
      <3> QED BY <3>1, <3>2
    <2>6. \E g : g = [n \in 0..N |-> IF n = 0 THEN <<>> ELSE KeepUnbeaten(g[n - 1], scores[n])]
      <3> HIDE DEF op, X, N
      <3> QED BY <2>5
    <2> QED BY <2>6, Zenon
  <1>2. Unbeaten(scores) = kept[N]
    BY DEF Unbeaten
  <1> HIDE DEF kept, N
  <1>3. 0 \in Good
    <2>1. kept[0] = <<>> /\ 0 \in 0..N
      BY <1>0, <1>1
    <2>2. ToSet(<<>>) = {}
      BY DEF ToSet
    <2>3. kept[0] \in X /\ ToSet(kept[0]) \subseteq ToSet(scores)
      BY <2>1, <2>2
    <2> HIDE DEF X
    <2> QED BY <2>1, <2>3
  <1>4. ASSUME NEW n \in 0..(N - 1), n \in Good
        PROVE  n + 1 \in Good
    <2>1. n + 1 \in 1..N /\ n + 1 \in 0..N /\ (n + 1) - 1 = n /\ n + 1 # 0
      BY <1>0
    <2>2. kept[n + 1] = KeepUnbeaten(kept[n], scores[n + 1])
      BY <1>1, <2>1
    <2>3. scores[n + 1] \in PlayedScore /\ kept[n] \in X
      BY <1>0, <1>4, <2>1
    <2> DEFINE k == kept[n]
               v == scores[n + 1]
    <2>4. /\ kept[n + 1] \in X
          /\ ToSet(k) \subseteq ToSet(kept[n + 1])
          /\ ToSet(kept[n + 1]) \subseteq ToSet(k) \cup {v}
          /\ \E w \in ToSet(kept[n + 1]) : Beats(w, v)
      <3>1. k \in X /\ v \in PlayedScore /\ kept[n + 1] = KeepUnbeaten(k, v)
        BY <2>2, <2>3
      <3> HIDE DEF k, v
      <3> QED BY <3>1, KeepUnbeatenGood
    <2>5. ToSet(kept[n + 1]) \subseteq ToSet(scores)
      BY <1>0, <1>4, <2>1, <2>4
    <2>6. ASSUME NEW i \in 1..(n + 1)
          PROVE  \E w \in ToSet(kept[n + 1]) : Beats(w, scores[i])
      <3>1. CASE i = n + 1
        BY <3>1, <2>4
      <3>2. CASE i # n + 1
        <4>1. i \in 1..n
          BY <3>2
        <4> QED BY <4>1, <1>4, <2>4
      <3> QED BY <3>1, <3>2
    <2> QED BY <2>1, <2>4, <2>5, <2>6
  <1>5. N \in Good
    <2>1. \A n \in 0..(N - 1) : n \in Good => n + 1 \in Good
      BY <1>4
    <2>2. \A n \in 0..N : n \in Good
      <3> HIDE DEF Good
      <3> QED BY <1>0, <1>3, <2>1, UpTo
    <2>3. N \in 0..N
      BY <1>0
    <2> HIDE DEF Good
    <2> QED BY <2>2, <2>3
  <1> QED BY <1>0, <1>2, <1>5

LEMMA AddKindGood ==
    ASSUME NEW m \in SUBSET PlayedScore, NEW v \in PlayedScore
    PROVE  /\ AddKind(m, v) \in SUBSET PlayedScore
           /\ \A t \in m \cup {v} : \E u \in AddKind(m, v) : u.play = t.play
           /\ \A u \in AddKind(m, v) : \E t \in m \cup {v} : u.map = t.map
  <1> DEFINE twins == {w \in m : w.play = v.play}
             Joined(w) == [w EXCEPT !.top = Or(@, v.top), !.world = Or(@, v.world)]
  <1>1. \A w \in m : /\ Joined(w) \in PlayedScore
                     /\ Joined(w).play = w.play
                     /\ Joined(w).map = w.map
    <2> TAKE w \in m
    <2>1. w \in PlayedScore
      OBVIOUS
    <2>2. Or(w.top, v.top) \in Nat /\ Or(w.world, v.world) \in Nat
      BY <2>1 DEF Or, PlayedScore
    <2>3. Joined(w) = [w EXCEPT !.top = Or(w.top, v.top), !.world = Or(w.world, v.world)]
      OBVIOUS
    <2> QED BY <2>1, <2>2, <2>3 DEF PlayedScore
  <1> HIDE DEF Joined
  <1>2. CASE twins = {}
    <2>1. AddKind(m, v) = m \cup {v}
      BY <1>2 DEF AddKind
    <2> QED BY <2>1
  <1>3. CASE twins # {}
    <2>1. AddKind(m, v) = (m \ twins) \cup {Joined(w) : w \in twins}
      BY <1>3 DEF AddKind, Joined
    <2>2. ASSUME NEW t \in m \cup {v}
          PROVE  \E u \in AddKind(m, v) : u.play = t.play
      <3>1. CASE t \in m \ twins
        BY <3>1, <2>1
      <3>2. CASE t \in twins
        BY <3>2, <2>1, <1>1
      <3>3. CASE t = v
        BY <3>3, <2>1, <1>1, <1>3
      <3> QED BY <3>1, <3>2, <3>3
    <2> QED BY <2>1, <2>2, <1>1
  <1> QED BY <1>2, <1>3

(* The second pass leaves a score of every play, on the same map.          *)
LEMMA JoinKindsGood ==
    ASSUME NEW scores \in Seq(PlayedScore)
    PROVE  /\ JoinKinds(scores) \in SUBSET PlayedScore
           /\ \A s \in ToSet(scores) : \E t \in JoinKinds(scores) : t.play = s.play
           /\ \A t \in JoinKinds(scores) : \E s \in ToSet(scores) : t.map = s.map
  <1> DEFINE N == Len(scores)
             X == SUBSET PlayedScore
             op == [m \in X |-> [v \in PlayedScore |-> AddKind(m, v)]]
             merged[n \in 0..N] == IF n = 0 THEN {} ELSE AddKind(merged[n - 1], scores[n])
             Good == {n \in 0..N : /\ merged[n] \in X
                                   /\ \A i \in 1..n : \E t \in merged[n] : t.play = scores[i].play
                                   /\ \A t \in merged[n] : \E s \in ToSet(scores) : t.map = s.map}
  <1>0. /\ N \in Nat
        /\ \A n \in 1..N : scores[n] \in PlayedScore /\ scores[n] \in ToSet(scores)
        /\ ToSet(scores) = {scores[n] : n \in 1..N}
    BY DEF ToSet
  <1>1. merged = [n \in 0..N |-> IF n = 0 THEN {} ELSE AddKind(merged[n - 1], scores[n])]
    <2>1. op \in [X -> [PlayedScore -> X]]
      BY AddKindGood
    <2>2. {} \in X
      OBVIOUS
    <2>3. PICK f : IsFold(f, X, op, {}, scores)
      <3> HIDE DEF op, X
      <3> QED BY <2>1, <2>2, FoldExists
    <2>4. \A n \in 1..N : f[n] = AddKind(f[n - 1], scores[n])
      <3> TAKE n \in 1..N
      <3>1. f[n - 1] \in X /\ scores[n] \in PlayedScore
        <4>1. n - 1 \in 0..N /\ scores[n] \in PlayedScore
          BY <1>0
        <4>2. f \in [0..N -> X]
          BY <2>3 DEF IsFold
        <4> HIDE DEF X, N, op
        <4> QED BY <4>1, <4>2
      <3>2. f[n] = op[f[n - 1]][scores[n]]
        BY <2>3 DEF IsFold
      <3> QED BY <3>1, <3>2
    <2>5. f = [n \in 0..N |-> IF n = 0 THEN {} ELSE AddKind(f[n - 1], scores[n])]
      <3> HIDE DEF op, X, N
      <3> DEFINE h == [n \in 0..N |-> IF n = 0 THEN {} ELSE AddKind(f[n - 1], scores[n])]
      <3>1. \A n \in 0..N : h[n] = f[n]
        BY <1>0, <2>3, <2>4 DEF IsFold, N
      <3>2. f \in [0..N -> X]
        BY <2>3 DEF IsFold, N
      <3> QED BY <3>1, <3>2
    <2>6. \E g : g = [n \in 0..N |-> IF n = 0 THEN {} ELSE AddKind(g[n - 1], scores[n])]
      <3> HIDE DEF op, X, N
      <3> QED BY <2>5
    <2> QED BY <2>6, Zenon
  <1>2. JoinKinds(scores) = merged[N]
    BY DEF JoinKinds
  <1> HIDE DEF merged, N
  <1>3. 0 \in Good
    <2>1. merged[0] = {} /\ 0 \in 0..N
      BY <1>0, <1>1
    <2> QED BY <2>1
  <1>4. ASSUME NEW n \in 0..(N - 1), n \in Good
        PROVE  n + 1 \in Good
    <2>1. n + 1 \in 1..N /\ n + 1 \in 0..N /\ (n + 1) - 1 = n /\ n + 1 # 0
      BY <1>0
    <2> DEFINE m == merged[n]
               v == scores[n + 1]
    <2>2. m \in X /\ v \in PlayedScore /\ merged[n + 1] = AddKind(m, v)
      BY <1>0, <1>1, <1>4, <2>1
    <2>3. /\ merged[n + 1] \in X
          /\ \A t \in m \cup {v} : \E u \in merged[n + 1] : u.play = t.play
          /\ \A u \in merged[n + 1] : \E t \in m \cup {v} : u.map = t.map
      <3>1. m \in SUBSET PlayedScore /\ v \in PlayedScore
        BY <2>2
      <3> HIDE DEF m, v
      <3>2. /\ AddKind(m, v) \in SUBSET PlayedScore
            /\ \A t \in m \cup {v} : \E u \in AddKind(m, v) : u.play = t.play
            /\ \A u \in AddKind(m, v) : \E t \in m \cup {v} : u.map = t.map
        BY <3>1, AddKindGood
      <3> QED BY <2>2, <3>2
    <2>4. ASSUME NEW i \in 1..(n + 1)
          PROVE  \E t \in merged[n + 1] : t.play = scores[i].play
      <3>1. CASE i = n + 1
        BY <3>1, <2>3
      <3>2. CASE i # n + 1
        <4>1. i \in 1..n
          BY <3>2
        <4> QED BY <4>1, <1>4, <2>3
      <3> QED BY <3>1, <3>2
    <2>5. ASSUME NEW u \in merged[n + 1]
          PROVE  \E s \in ToSet(scores) : u.map = s.map
      <3>1. PICK t \in m \cup {v} : u.map = t.map
        BY <2>3
      <3>2. \E s \in ToSet(scores) : t.map = s.map
        BY <1>0, <1>4, <2>1
      <3> QED BY <3>1, <3>2
    <2> QED BY <2>1, <2>3, <2>4, <2>5
  <1>5. N \in Good
    <2>1. \A n \in 0..(N - 1) : n \in Good => n + 1 \in Good
      BY <1>4
    <2>2. \A n \in 0..N : n \in Good
      <3> HIDE DEF Good
      <3> QED BY <1>0, <1>3, <2>1, UpTo
    <2>3. N \in 0..N
      BY <1>0
    <2> HIDE DEF Good
    <2> QED BY <2>2, <2>3
  <1> QED BY <1>0, <1>2, <1>5

(* What is announced of a collection: scores on its maps, and for each of  *)
(* its scores one of the same play, or of a play that is nowhere worse.    *)
LEMMA AnnouncedGood ==
    ASSUME collection \in Collections
    PROVE  /\ ToAnnounce \subseteq PlayedScore
           /\ \A t \in ToAnnounce : t.map \in MapsPosted
           /\ NoneDropped
  <1> DEFINE scores == collection.scores
  <1>1. scores \in Seq(PlayedScore)
    BY ScorePostsAssumption
  <1>2. ToSet(scores) \subseteq PlayedScore
    BY <1>1 DEF ToSet
  <1>3. \A s \in ToSet(scores) : s.map \in MapsPosted
    BY DEF MapsPosted, CollectedScore
  <1>4. \A s \in PlayedScore : Beats(s, s)
    <2> TAKE s \in PlayedScore
    <2>1. s.score \in Nat /\ s.pp \in Nat
      BY DEF PlayedScore
    <2> QED BY <2>1 DEF Beats
  <1> HIDE DEF scores
  <1>5. CASE collection.eventsKnown
    <2>1. ToAnnounce = JoinKinds(Unbeaten(scores))
      BY <1>5 DEF ToAnnounce, Merge, scores
    <2>2. Unbeaten(scores) \in Seq(PlayedScore) /\ ToSet(Unbeaten(scores)) \subseteq ToSet(scores)
      BY <1>1, UnbeatenGood
    <2>3. /\ ToAnnounce \in SUBSET PlayedScore
          /\ \A s \in ToSet(Unbeaten(scores)) : \E t \in ToAnnounce : t.play = s.play
          /\ \A t \in ToAnnounce : \E s \in ToSet(Unbeaten(scores)) : t.map = s.map
      BY <2>1, <2>2, JoinKindsGood
    <2>4. ASSUME NEW s \in ToSet(scores)
          PROVE  \E w \in ToSet(scores), t \in ToAnnounce : Beats(w, s) /\ t.play = w.play
      <3>1. PICK w \in ToSet(Unbeaten(scores)) : Beats(w, s)
        BY <1>1, UnbeatenGood
      <3> QED BY <3>1, <2>2, <2>3
    <2>5. NoneDropped
      BY <2>4 DEF NoneDropped, Beats, scores
    <2> QED BY <2>2, <2>3, <2>5, <1>3
  <1>6. CASE ~ collection.eventsKnown
    <2>1. ToAnnounce = ToSet(scores)
      BY <1>6 DEF ToAnnounce, scores
    <2>2. ASSUME NEW s \in ToSet(scores)
          PROVE  \E w \in ToSet(scores), t \in ToAnnounce : Beats(w, s) /\ t.play = w.play
      BY <2>1, <1>2, <1>4
    <2>3. NoneDropped
      BY <2>2 DEF NoneDropped, Beats, scores
    <2> QED BY <2>1, <2>3, <1>2, <1>3
  <1> QED BY <1>5, <1>6

-----------------------------------------------------------------------------
(* Sending *)

(* What a summary holds: each of the scores is in one chunk, and only the  *)
(* scores are in chunks.                                                   *)
LEMMA ChunksGood ==
    ASSUME NEW S, NEW scores \in Seq(S),
           \A i, j \in DOMAIN scores : scores[i] = scores[j] => i = j
    PROVE  /\ \A k \in Chunks(scores) : k # {} /\ k \subseteq ToSet(scores)
           /\ \A x \in ToSet(scores) : \E k \in Chunks(scores) :
                x \in k /\ \A l \in Chunks(scores) : x \in l => l = k
  <1> DEFINE Nth(n) == {scores[i] : i \in {j \in DOMAIN scores : ChunkOf(j) = n}}
  <1>1. Chunks(scores) = {Nth(ChunkOf(i)) : i \in DOMAIN scores}
    BY DEF Chunks
  <1>2. \A i \in DOMAIN scores : scores[i] \in Nth(ChunkOf(i))
    OBVIOUS
  <1>3. \A n : Nth(n) \subseteq ToSet(scores)
    BY DEF ToSet
  <1>4. \A i \in DOMAIN scores : \A n : scores[i] \in Nth(n) => n = ChunkOf(i)
    OBVIOUS
  <1> HIDE DEF Nth
  <1>5. ASSUME NEW x \in ToSet(scores)
        PROVE  \E k \in Chunks(scores) : x \in k /\ \A l \in Chunks(scores) : x \in l => l = k
    <2>1. PICK i \in DOMAIN scores : x = scores[i]
      BY DEF ToSet
    <2>2. Nth(ChunkOf(i)) \in Chunks(scores) /\ x \in Nth(ChunkOf(i))
      BY <1>1, <1>2, <2>1
    <2>3. \A l \in Chunks(scores) : x \in l => l = Nth(ChunkOf(i))
      BY <1>1, <1>4, <2>1
    <2> QED BY <2>2, <2>3
  <1> QED BY <1>1, <1>2, <1>3, <1>5

LEMMA FixedCollection ==
    ASSUME collection' = collection
    PROVE  /\ ToAnnounce' = ToAnnounce
           /\ \A s : IsSummed(s)' = IsSummed(s)
           /\ Message' = Message
           /\ NoneDropped' = NoneDropped
  <1>1. ToAnnounce' = ToAnnounce
    BY DEF ToAnnounce
  <1>2. Quiet' = Quiet
    BY <1>1 DEF Quiet
  <1> QED BY <1>1, <1>2 DEF IsSummed, Message, NoneDropped

(* A score is no message.                                                  *)
LEMMA ScoresAreNoMessages ==
    ASSUME NEW s \in PlayedScore
    PROVE  s \notin Message
  <1>1. SUFFICES ASSUME s \in Message
                 PROVE  FALSE
    OBVIOUS
  <1>2. "play" \in DOMAIN s
    BY DEF PlayedScore
  <1>3. DOMAIN s = {"to", "of", "alone"}
    BY <1>1 DEF Message
  <1> QED BY <1>2, <1>3

(* Messages are sent to every channel about the scores that stop waiting.  *)
Tell(More, Done) ==
    /\ lost \subseteq lost'
    /\ Sent' = Sent \cup More
    /\ \A d \in More : d.of # {} /\ d.of \subseteq Done
    /\ Done \subseteq ToAnnounce
    /\ Done \subseteq loading \cup ToSet(batch)
    /\ loading' \cup ToSet(batch') = (loading \cup ToSet(batch)) \ Done
    /\ \A x \in Done, c \in Channels :
         x \in lost' \/ \E d \in More : {e \in More : e.to = c /\ x \in e.of} = {d}

LEMMA NowTold ==
    ASSUME ToldByNow, collection' = collection, NEW More, NEW Done, Tell(More, Done)
    PROVE  ToldByNow'
  <1>1. ToAnnounce' = ToAnnounce
    BY FixedCollection
  <1>2. \A d \in Sent' : d.of # {}
    BY DEF ToldByNow, Tell
  <1>3. \A x, c : ToldBy(x, c)' = ToldBy(x, c) \cup {e \in More : e.to = c /\ x \in e.of}
    BY DEF ToldBy, Tell
  <1>4. ASSUME NEW x \in ToAnnounce, NEW c \in Channels
        PROVE  IF x \in loading' \cup ToSet(batch') THEN ToldBy(x, c)' = {}
               ELSE x \in lost' \/ \E d \in Sent' : ToldBy(x, c)' = {d}
    <2>1. CASE x \in Done
      <3>1. ToldBy(x, c) = {} /\ x \notin loading' \cup ToSet(batch')
        BY <2>1 DEF ToldByNow, Tell
      <3> QED BY <2>1, <3>1, <1>3 DEF Tell
    <2>2. CASE x \notin Done
      <3>1. ToldBy(x, c)' = ToldBy(x, c)
        BY <2>2, <1>3 DEF Tell
      <3>2. x \in loading' \cup ToSet(batch') <=> x \in loading \cup ToSet(batch)
        BY <2>2 DEF Tell
      <3>3. IF x \in loading \cup ToSet(batch) THEN ToldBy(x, c) = {}
            ELSE x \in lost \/ \E d \in Sent : ToldBy(x, c) = {d}
        BY DEF ToldByNow
      <3>4. lost \subseteq lost' /\ Sent \subseteq Sent'
        BY DEF Tell
      <3> QED BY <3>1, <3>2, <3>3, <3>4
    <2> QED BY <2>1, <2>2
  <1> QED BY <1>1, <1>2, <1>4 DEF ToldByNow

LEMMA LastMapStays ==
    ASSUME LastMapByNow, UNCHANGED <<posted, unsaved, lastMap>>, lost \subseteq lost'
    PROVE  LastMapByNow'
  <1>1. \A c : AloneIn(c)' = AloneIn(c)
    BY DEF AloneIn
  <1> QED BY <1>1 DEF LastMapByNow

LEMMA WiderSeq ==
    ASSUME NEW S, NEW T, S \subseteq T, NEW s \in Seq(S)
    PROVE  s \in Seq(T)
  OBVIOUS

(* Everything but what was told, for the steps in which maps arrive.       *)
LEMMA RestArrives ==
    ASSUME PostsInv, UNCHANGED <<collection, unsaved, posted, lastMap>>,
           NEW s \in loading, loading' = loading \ {s}, lost' \in {lost, lost \cup {s}},
           due' \subseteq Message,
           batch' \in Seq({x \in ToAnnounce : IsSummed(x)} \ loading'), BatchWaits', ToldByNow'
    PROVE  PostsInv'
  <1>1. ToAnnounce' = ToAnnounce /\ (\A x : IsSummed(x)' = IsSummed(x)) /\ Message' = Message
        /\ NoneDropped'
    BY FixedCollection DEF PostsInv
  <1>2. {x \in ToAnnounce : IsSummed(x)}' = {x \in ToAnnounce : IsSummed(x)}
    BY <1>1
  <1>3. /\ collection \in Collections /\ loading \subseteq ToAnnounce
        /\ due \cup unsaved \cup posted \subseteq Message /\ unsaved \subseteq {d \in posted : d.alone}
        /\ lastMap \in [Channels -> MapsPosted \cup {NoMap}] /\ lost \subseteq ToAnnounce \cup Message
    BY DEF PostsInv, PostsTypeOK
  <1>4. batch' \in Seq({x \in ToAnnounce : IsSummed(x)}' \ loading')
    BY <1>2
  <1>5. PostsTypeOK'
    BY <1>1, <1>3, <1>4 DEF PostsTypeOK
  <1>6. lost \subseteq lost'
    OBVIOUS
  <1>7. LastMapByNow'
    BY <1>6, LastMapStays DEF PostsInv
  <1> QED BY <1>1, <1>5, <1>7 DEF PostsInv

(* A score of a batch has its map, or lost it: it is among those that      *)
(* arrived, or lost.                                                       *)
LEMMA SettleGood ==
    ASSUME PostsInv, UNCHANGED <<collection, unsaved, posted, lastMap>>,
           NEW s \in loading, IsSummed(s), NEW arrived, Settle(s, arrived),
           \/ arrived = Append(batch, s) /\ lost' = lost
           \/ arrived = batch /\ lost' = lost \cup {s}
    PROVE  PostsInv'
  <1> DEFINE Summed == {x \in ToAnnounce : IsSummed(x)}
             More == UNION {ToAll(scores, FALSE) : scores \in Chunks(arrived)}
             Done == IF arrived = batch THEN {s} ELSE {}
  <1>1. /\ ToAnnounce \subseteq PlayedScore /\ loading \subseteq ToAnnounce
        /\ batch \in Seq(Summed \ loading) /\ due \subseteq Message
        /\ \A i, j \in DOMAIN batch : batch[i] = batch[j] => i = j
    BY AnnouncedGood DEF PostsInv, PostsTypeOK, BatchWaits
  <1>2. /\ ToAnnounce' = ToAnnounce /\ (\A x : IsSummed(x)' = IsSummed(x)) /\ Message' = Message
    BY FixedCollection
  <1>3. loading' = loading \ {s} /\ s \in Summed /\ s \in PlayedScore
    BY <1>1 DEF Settle
  <1>4. lost' \cap Message = lost \cap Message /\ lost \subseteq lost'
    BY <1>3, ScoresAreNoMessages
  <1>5. ToSet(batch) \subseteq Summed \ loading
    BY <1>1 DEF ToSet
  <1>6. /\ arrived \in Seq(Summed \ loading')
        /\ ToSet(arrived) \cup {s} = ToSet(batch) \cup {s}
        /\ arrived # batch => ToSet(arrived) = ToSet(batch) \cup {s}
        /\ arrived = batch \/ s \in ToSet(arrived)
    <2>1. batch \in Seq(Summed \ loading')
      BY <1>1, <1>3, WiderSeq, Summed \ loading \subseteq Summed \ loading'
    <2>2. s \in Summed \ loading'
      BY <1>3
    <2> HIDE DEF Summed
    <2>3. Append(batch, s) \in Seq(Summed \ loading') /\ ToSet(Append(batch, s)) = ToSet(batch) \cup {s}
      BY <2>1, <2>2, ElementsAppended
    <2> QED BY <2>1, <2>3
  <1>7. \A i, j \in DOMAIN arrived : arrived[i] = arrived[j] => i = j
    <2>1. CASE arrived = batch
      BY <2>1, <1>1
    <2>2. CASE arrived = Append(batch, s)
      <3>1. \A i \in DOMAIN batch : batch[i] # s
        BY <1>5 DEF ToSet
      <3>2. batch \in Seq(Summed)
        BY <1>1, WiderSeq
      <3>3. /\ DOMAIN batch = 1..Len(batch) /\ DOMAIN arrived = 1..(Len(batch) + 1)
            /\ \A i \in 1..Len(batch) : arrived[i] = batch[i]
            /\ arrived[Len(batch) + 1] = s /\ Len(batch) \in Nat
        BY <3>2, <2>2, <1>3, Appended
      <3>4. ASSUME NEW i \in 1..(Len(batch) + 1), NEW j \in 1..(Len(batch) + 1), arrived[i] = arrived[j]
            PROVE  i = j
        <4>1. i \in 1..Len(batch) \/ i = Len(batch) + 1
          BY <3>3
        <4>2. j \in 1..Len(batch) \/ j = Len(batch) + 1
          BY <3>3
        <4> QED BY <4>1, <4>2, <3>1, <3>3, <3>4, <1>1
      <3> QED BY <3>3, <3>4
    <2> QED BY <2>1, <2>2
  <1>8. CASE \E r \in loading' : IsSummed(r)
    <2>1. batch' = arrived /\ due' = due
      BY <1>8, <1>2 DEF Settle
    <2>2. BatchWaits'
      BY <1>2, <1>7, <1>8, <2>1 DEF BatchWaits
    <2>3. Sent' = Sent \cup {}
      BY <2>1, <1>2, <1>4 DEF Sent
    <2>4. loading' \cup ToSet(batch') = (loading \cup ToSet(batch)) \ Done
      BY <2>1, <1>3, <1>5, <1>6
    <2>5. Done \subseteq ToAnnounce /\ Done \subseteq loading \cup ToSet(batch)
      BY <1>1
    <2>6. \A x \in Done : x \in lost'
      <3>1. \A i \in Nat : i # i + 1
        OBVIOUS
      <3>2. arrived = batch => s \in lost'
        <4>1. Len(Append(batch, s)) = Len(batch) + 1 /\ Len(batch) \in Nat
          BY <1>1
        <4> QED BY <4>1
      <3> QED BY <3>2
    <2>7. ToldByNow'
      <3> DEFINE None == {}
      <3>1. /\ Sent' = Sent \cup None
            /\ \A d \in None : d.of # {} /\ d.of \subseteq Done
        BY <2>3
      <3>2. Done \in SUBSET ToAnnounce /\ Done \subseteq loading \cup ToSet(batch)
        BY <2>5
      <3> HIDE DEF None, Done
      <3>3. \A x \in Done, c \in Channels :
              x \in lost' \/ \E d \in None : {e \in None : e.to = c /\ x \in e.of} = {d}
        BY <2>6
      <3>4. ToldByNow /\ collection' = collection /\ lost \subseteq lost'
        BY <1>4 DEF PostsInv
      <3>5. Tell(None, Done)
        BY <2>4, <3>1, <3>2, <3>3, <3>4 DEF Tell
      <3> QED BY <3>4, <3>5, NowTold
    <2> QED BY <1>1, <1>2, <1>3, <1>6, <2>1, <2>2, <2>7, RestArrives
  <1>9. CASE ~ \E r \in loading' : IsSummed(r)
    <2>1. batch' = <<>> /\ due' = due \cup More
      BY <1>9, <1>2 DEF Settle
    <2>2. BatchWaits'
      BY <2>1 DEF BatchWaits
    <2>3. /\ \A k \in Chunks(arrived) : k # {} /\ k \subseteq ToSet(arrived)
          /\ \A x \in ToSet(arrived) : \E k \in Chunks(arrived) :
               x \in k /\ \A l \in Chunks(arrived) : x \in l => l = k
      BY <1>6, <1>7, ChunksGood
    <2>4. ToSet(arrived) \subseteq ToAnnounce
      BY <1>5, <1>6, <1>3
    <2>5. \A d \in More : \E k \in Chunks(arrived), c \in Channels : d = [to |-> c, of |-> k, alone |-> FALSE]
      BY DEF ToAll
    <2>6. More \subseteq Message /\ \A d \in More : d.of # {} /\ d.of \subseteq ToSet(arrived)
      <3> SUFFICES ASSUME NEW d \in More
                   PROVE  d \in Message /\ d.of # {} /\ d.of \subseteq ToSet(arrived)
        OBVIOUS
      <3>1. PICK k \in Chunks(arrived), c \in Channels : d = [to |-> c, of |-> k, alone |-> FALSE]
        BY <2>5
      <3> HIDE DEF More
      <3> QED BY <3>1, <2>3, <2>4 DEF Message
    <2>7. ASSUME NEW x \in ToSet(arrived), NEW c \in Channels
          PROVE  \E d \in More : {e \in More : e.to = c /\ x \in e.of} = {d}
      <3>1. PICK k \in Chunks(arrived) : x \in k /\ \A l \in Chunks(arrived) : x \in l => l = k
        BY <2>3
      <3> DEFINE d == [to |-> c, of |-> k, alone |-> FALSE]
      <3>2. d \in More
        <4>1. d \in ToAll(k, FALSE)
          BY DEF ToAll
        <4> HIDE DEF d
        <4> QED BY <4>1
      <3>3. ASSUME NEW e \in More, e.to = c, x \in e.of
            PROVE  e = d
        <4>1. PICK l \in Chunks(arrived), b \in Channels : e = [to |-> b, of |-> l, alone |-> FALSE]
          BY <2>5
        <4>2. b = c /\ l = k
          BY <4>1, <3>1, <3>3
        <4> QED BY <4>1, <4>2
      <3>4. d.to = c /\ x \in d.of
        BY <3>1
      <3> HIDE DEF d, More
      <3> QED BY <3>2, <3>3, <3>4
    <2> DEFINE Over == ToSet(batch) \cup {s}
    <2>8. Sent' = Sent \cup More
      <3> HIDE DEF More
      <3> QED BY <2>1, <1>2, <1>4 DEF Sent
    <2>9. /\ loading' \cup ToSet(batch') = (loading \cup ToSet(batch)) \ Over
          /\ Over \subseteq ToAnnounce /\ Over \subseteq loading \cup ToSet(batch)
      <3>1. ToSet(batch') = {}
        BY <2>1 DEF ToSet
      <3> QED BY <3>1, <1>1, <1>3, <1>5
    <2>10. \A d \in More : d.of \subseteq Over
      <3> HIDE DEF More
      <3> QED BY <2>6, <1>6
    <2>11. \A x \in Over, c \in Channels :
             x \in lost' \/ \E d \in More : {e \in More : e.to = c /\ x \in e.of} = {d}
      <3> HIDE DEF More
      <3>1. \A x \in Over : x \in ToSet(arrived) \/ x \in lost'
        BY <1>6
      <3> QED BY <3>1, <2>7
    <2>12. ToldByNow'
      <3>1. ToldByNow /\ collection' = collection /\ lost \subseteq lost'
        BY <1>4 DEF PostsInv
      <3> HIDE DEF More, Over
      <3>3. Tell(More, Over)
        BY <2>6, <2>8, <2>9, <2>10, <2>11, <3>1 DEF Tell
      <3> QED BY <3>1, <3>3, NowTold
    <2>13. due' \subseteq Message
      <3> HIDE DEF More
      <3> QED BY <1>1, <2>1, <2>6
    <2>14. batch' \in Seq(Summed \ loading')
      BY <2>1
    <2> QED BY <1>3, <2>2, <2>12, <2>13, <2>14, RestArrives
  <1> QED BY <1>8, <1>9

(* A score that is worth a message, or one of few, stops waiting alone.    *)
LEMMA AloneGood ==
    ASSUME PostsInv, UNCHANGED <<collection, unsaved, posted, lastMap, batch>>,
           NEW s \in loading, ~ IsSummed(s), loading' = loading \ {s},
           \/ due' = due \cup ToAll({s}, TRUE) /\ lost' = lost
           \/ due' = due /\ lost' = lost \cup {s}
    PROVE  PostsInv'
  <1> DEFINE Summed == {x \in ToAnnounce : IsSummed(x)}
  <1>1. /\ ToAnnounce \subseteq PlayedScore /\ loading \subseteq ToAnnounce
        /\ batch \in Seq(Summed \ loading) /\ due \subseteq Message /\ s \notin Message
    BY AnnouncedGood, ScoresAreNoMessages DEF PostsInv, PostsTypeOK
  <1>2. /\ ToAnnounce' = ToAnnounce /\ (\A x : IsSummed(x)' = IsSummed(x)) /\ Message' = Message
    BY FixedCollection
  <1>3. ToSet(batch) \subseteq Summed \ loading
    BY <1>1 DEF ToSet
  <1>4. BatchWaits'
    BY <1>2 DEF PostsInv, BatchWaits
  <1>5. batch' \in Seq(Summed \ loading')
    BY <1>1, WiderSeq, Summed \ loading \subseteq Summed \ loading'
  <1>6. ToSet(batch') = ToSet(batch) /\ s \notin ToSet(batch) /\ s \in ToAnnounce
    BY <1>1, <1>3
  <1>7. ToAll({s}, TRUE) \subseteq Message
    <2>1. {s} \in SUBSET ToAnnounce
      BY <1>6
    <2> SUFFICES ASSUME NEW c \in Channels
                 PROVE  [to |-> c, of |-> {s}, alone |-> TRUE] \in Message
      BY DEF ToAll
    <2> QED BY <2>1 DEF Message
  <1> DEFINE Told(S) == /\ \A d \in S : d.of # {} /\ d.of \subseteq {s}
                        /\ \A x \in {s}, c \in Channels :
                             x \in lost' \/ \E d \in S : {e \in S : e.to = c /\ x \in e.of} = {d}
  <1>8. \E S : Sent' = Sent \cup S /\ Told(S) /\ due' \subseteq Message
    <2>1. CASE due' = due \cup ToAll({s}, TRUE) /\ lost' = lost
      <3> DEFINE S == ToAll({s}, TRUE)
      <3>1. Sent' = Sent \cup S /\ due' \subseteq Message
        <4> HIDE DEF S
        <4> QED BY <2>1, <1>1, <1>2, <1>7 DEF Sent, S
      <3>2. \A d \in S : d.of # {} /\ d.of \subseteq {s}
        BY DEF ToAll
      <3>3. ASSUME NEW c \in Channels
            PROVE  \E d \in S : {e \in S : e.to = c /\ s \in e.of} = {d}
        <4> DEFINE d == [to |-> c, of |-> {s}, alone |-> TRUE]
        <4>1. d \in S /\ d.to = c /\ s \in d.of
          BY DEF ToAll
        <4>2. \A e \in S : e.to = c => e = d
          BY DEF ToAll
        <4> HIDE DEF d, S
        <4> QED BY <4>1, <4>2
      <3>4. Told(S)
        <4> HIDE DEF S
        <4> QED BY <3>2, <3>3
      <3> HIDE DEF S, Told
      <3> QED BY <3>1, <3>4
    <2>2. CASE due' = due /\ lost' = lost \cup {s}
      <3>1. Sent' = Sent \cup {} /\ due' \subseteq Message
        BY <2>2, <1>1, <1>2 DEF Sent
      <3>2. Told({})
        BY <2>2
      <3> HIDE DEF Told
      <3> QED BY <3>1, <3>2
    <2> HIDE DEF Told
    <2> QED BY <2>1, <2>2
  <1>9. PICK S : Sent' = Sent \cup S /\ Told(S) /\ due' \subseteq Message
    BY <1>8
  <1>10. Tell(S, {s})
    BY <1>1, <1>6, <1>9 DEF Tell
  <1>11. ToldByNow'
    BY <1>10, NowTold DEF PostsInv
  <1>12. lost' \in {lost, lost \cup {s}}
    OBVIOUS
  <1> QED BY <1>4, <1>5, <1>9, <1>11, <1>12, RestArrives

LEMMA LoadMapGood ==
    ASSUME PostsInv, NEW s \in loading, LoadMap(s) \/ LoadMapFails(s)
    PROVE  PostsInv'
  <1>1. CASE LoadMap(s)
    <2>1. UNCHANGED <<collection, unsaved, posted, lastMap>> /\ lost' = lost
      BY <1>1 DEF LoadMap
    <2>2. CASE IsSummed(s)
      <3>1. Settle(s, Append(batch, s))
        BY <1>1, <2>2 DEF LoadMap
      <3> QED BY <2>1, <2>2, <3>1, SettleGood
    <2>3. CASE ~ IsSummed(s)
      <3>1. loading' = loading \ {s} /\ due' = due \cup ToAll({s}, TRUE) /\ batch' = batch
        BY <1>1, <2>3 DEF LoadMap
      <3> QED BY <2>1, <2>3, <3>1, AloneGood
    <2> QED BY <2>2, <2>3
  <1>2. CASE LoadMapFails(s)
    <2>1. UNCHANGED <<collection, unsaved, posted, lastMap>> /\ lost' = lost \cup {s}
      BY <1>2 DEF LoadMapFails
    <2>2. CASE IsSummed(s)
      <3>1. Settle(s, batch)
        BY <1>2, <2>2 DEF LoadMapFails
      <3> QED BY <2>1, <2>2, <3>1, SettleGood
    <2>3. CASE ~ IsSummed(s)
      <3>1. loading' = loading \ {s} /\ batch' = batch /\ due' = due
        BY <1>2, <2>3 DEF LoadMapFails
      <3> QED BY <2>1, <2>3, <3>1, AloneGood
    <2> QED BY <2>2, <2>3
  <1> QED BY <1>1, <1>2

(* Everything but the last maps, for the steps in which messages go on.    *)
LEMMA RestGoesOn ==
    ASSUME PostsInv, UNCHANGED <<collection, loading, batch>>, Sent' = Sent,
           lost \subseteq lost', PostsTypeOK', LastMapByNow'
    PROVE  PostsInv'
  <1>1. ToAnnounce' = ToAnnounce /\ (\A x : IsSummed(x)' = IsSummed(x)) /\ NoneDropped'
    BY FixedCollection DEF PostsInv
  <1>2. BatchWaits'
    BY <1>1 DEF PostsInv, BatchWaits
  <1>3. \A x, c : ToldBy(x, c)' = ToldBy(x, c)
    BY DEF ToldBy
  <1>4. ToldByNow /\ loading' \cup ToSet(batch') = loading \cup ToSet(batch)
    BY DEF PostsInv
  <1>5. \A d \in Sent' : d.of # {}
    BY <1>4 DEF ToldByNow
  <1>6. ASSUME NEW x \in ToAnnounce, NEW c \in Channels
        PROVE  IF x \in loading' \cup ToSet(batch') THEN ToldBy(x, c)' = {}
               ELSE x \in lost' \/ \E d \in Sent' : ToldBy(x, c)' = {d}
    BY <1>3, <1>4 DEF ToldByNow
  <1>7. ToldByNow'
    BY <1>1, <1>5, <1>6 DEF ToldByNow
  <1> QED BY <1>1, <1>2, <1>7 DEF PostsInv

LEMMA SendGood ==
    ASSUME PostsInv, NEW d \in due, Send(d) \/ SendFails(d)
    PROVE  PostsInv'
  <1>1. /\ collection \in Collections /\ loading \subseteq ToAnnounce
        /\ batch \in Seq({s \in ToAnnounce : IsSummed(s)} \ loading)
        /\ due \cup unsaved \cup posted \subseteq Message /\ unsaved \subseteq {e \in posted : e.alone}
        /\ lastMap \in [Channels -> MapsPosted \cup {NoMap}] /\ lost \subseteq ToAnnounce \cup Message
        /\ LastMapByNow
    BY DEF PostsInv, PostsTypeOK
  <1>2. UNCHANGED <<collection, loading, batch, lastMap>> /\ due' = due \ {d}
    BY DEF Send, SendFails
  <1>3. ToAnnounce' = ToAnnounce /\ (\A x : IsSummed(x)' = IsSummed(x)) /\ Message' = Message
    BY <1>2, FixedCollection
  <1>4. {s \in ToAnnounce : IsSummed(s)}' = {s \in ToAnnounce : IsSummed(s)}
    BY <1>3
  <1>5. CASE Send(d)
    <2>1. posted' = posted \cup {d} /\ lost' = lost
          /\ unsaved' = IF d.alone THEN unsaved \cup {d} ELSE unsaved
      BY <1>5 DEF Send
    <2>2. Sent' = Sent
      BY <1>2, <1>3, <2>1 DEF Sent
    <2>3. unsaved' \subseteq {e \in posted' : e.alone} /\ unsaved \subseteq unsaved'
      BY <1>1, <2>1
    <2>4. PostsTypeOK'
      BY <1>1, <1>2, <1>3, <1>4, <2>1, <2>3 DEF PostsTypeOK
    <2>5. \A c : AloneIn(c) \subseteq AloneIn(c)' /\ AloneIn(c)' \subseteq AloneIn(c) \cup (unsaved' \cap {d})
      BY <2>1 DEF AloneIn
    <2>6. ASSUME NEW c \in Channels
          PROVE  IF lastMap'[c] = NoMap THEN AloneIn(c)' \subseteq unsaved' \cup lost'
                 ELSE \E e \in AloneIn(c)' : \E s \in e.of : lastMap'[c] = s.map
      <3>1. IF lastMap[c] = NoMap THEN AloneIn(c) \subseteq unsaved \cup lost
            ELSE \E e \in AloneIn(c) : \E s \in e.of : lastMap[c] = s.map
        BY <1>1 DEF LastMapByNow
      <3> QED BY <3>1, <1>2, <2>1, <2>3, <2>5
    <2>7. LastMapByNow'
      BY <2>6 DEF LastMapByNow
    <2> QED BY <1>2, <2>1, <2>2, <2>4, <2>7, RestGoesOn
  <1>6. CASE SendFails(d)
    <2>1. UNCHANGED <<posted, unsaved>> /\ lost' = lost \cup {d}
      BY <1>6 DEF SendFails
    <2>2. Sent' = Sent
      BY <1>1, <1>2, <1>3, <2>1 DEF Sent
    <2>3. PostsTypeOK'
      BY <1>1, <1>2, <1>3, <1>4, <2>1 DEF PostsTypeOK
    <2>4. LastMapByNow'
      BY <1>1, <1>2, <2>1, LastMapStays
    <2> QED BY <1>2, <2>1, <2>2, <2>3, <2>4, RestGoesOn
  <1> QED BY <1>5, <1>6

LEMMA SaveBeatmapGood ==
    ASSUME PostsInv, NEW d \in unsaved, SaveBeatmap(d)
    PROVE  PostsInv'
  <1>1. /\ collection \in Collections /\ loading \subseteq ToAnnounce
        /\ batch \in Seq({s \in ToAnnounce : IsSummed(s)} \ loading)
        /\ due \cup unsaved \cup posted \subseteq Message /\ unsaved \subseteq {e \in posted : e.alone}
        /\ lastMap \in [Channels -> MapsPosted \cup {NoMap}] /\ lost \subseteq ToAnnounce \cup Message
        /\ LastMapByNow
    BY DEF PostsInv, PostsTypeOK
  <1>2. UNCHANGED <<collection, loading, batch, due, posted>> /\ unsaved' = unsaved \ {d}
    BY DEF SaveBeatmap
  <1>3. ToAnnounce' = ToAnnounce /\ (\A x : IsSummed(x)' = IsSummed(x)) /\ Message' = Message
    BY <1>2, FixedCollection
  <1>4. {s \in ToAnnounce : IsSummed(s)}' = {s \in ToAnnounce : IsSummed(s)}
    BY <1>3
  <1>5. \A c : AloneIn(c)' = AloneIn(c)
    BY <1>2 DEF AloneIn
  <1>6. d \in posted /\ d.alone /\ d \in Message /\ d.of # {} /\ d.to \in Channels /\ d.of \subseteq ToAnnounce
    BY <1>1 DEF Message, PostsInv, ToldByNow, Sent
  <1> DEFINE s == CHOOSE x \in d.of : TRUE
  <1>7. s \in d.of
    BY <1>6
  <1>8. s.map \in MapsPosted /\ s.map # NoMap
    BY <1>1, <1>6, <1>7, AnnouncedGood, ScorePostsAssumption
  <1>9. CASE lastMap' = [lastMap EXCEPT ![d.to] = s.map] /\ lost' = lost
    <2>1. Sent' = Sent
      BY <1>2, <1>3, <1>9 DEF Sent
    <2> HIDE DEF s
    <2>2. lastMap' \in [Channels -> MapsPosted \cup {NoMap}]
      BY <1>1, <1>8, <1>9
    <2>3. PostsTypeOK'
      BY <1>1, <1>2, <1>3, <1>4, <1>9, <2>2 DEF PostsTypeOK
    <2>4. ASSUME NEW c \in Channels
          PROVE  IF lastMap'[c] = NoMap THEN AloneIn(c)' \subseteq unsaved' \cup lost'
                 ELSE \E e \in AloneIn(c)' : \E x \in e.of : lastMap'[c] = x.map
      <3>1. IF lastMap[c] = NoMap THEN AloneIn(c) \subseteq unsaved \cup lost
            ELSE \E e \in AloneIn(c) : \E x \in e.of : lastMap[c] = x.map
        BY <1>1 DEF LastMapByNow
      <3>2. CASE c = d.to
        <4>1. d \in AloneIn(c) /\ lastMap'[c] = s.map
          BY <1>1, <1>6, <1>9, <3>2 DEF AloneIn
        <4> QED BY <4>1, <1>5, <1>7, <1>8
      <3>3. CASE c # d.to
        <4>1. d \notin AloneIn(c) /\ lastMap'[c] = lastMap[c]
          BY <1>1, <1>9, <3>3 DEF AloneIn
        <4> QED BY <4>1, <3>1, <1>2, <1>5, <1>9
      <3> QED BY <3>2, <3>3
    <2>5. LastMapByNow'
      BY <2>4 DEF LastMapByNow
    <2> QED BY <1>2, <1>9, <2>1, <2>3, <2>5, RestGoesOn
  <1>10. CASE lost' = lost \cup {d} /\ lastMap' = lastMap
    <2>1. Sent' = Sent
      BY <1>2, <1>3, <1>6, <1>10 DEF Sent
    <2>2. PostsTypeOK'
      BY <1>1, <1>2, <1>3, <1>4, <1>6, <1>10 DEF PostsTypeOK
    <2>3. ASSUME NEW c \in Channels
          PROVE  IF lastMap'[c] = NoMap THEN AloneIn(c)' \subseteq unsaved' \cup lost'
                 ELSE \E e \in AloneIn(c)' : \E x \in e.of : lastMap'[c] = x.map
      <3>1. IF lastMap[c] = NoMap THEN AloneIn(c) \subseteq unsaved \cup lost
            ELSE \E e \in AloneIn(c) : \E x \in e.of : lastMap[c] = x.map
        BY <1>1 DEF LastMapByNow
      <3> QED BY <3>1, <1>2, <1>5, <1>10
    <2>4. LastMapByNow'
      BY <2>3 DEF LastMapByNow
    <2> QED BY <1>2, <1>10, <2>1, <2>2, <2>4, RestGoesOn
  <1> QED BY <1>9, <1>10 DEF SaveBeatmap

LEMMA InitPosts == PostsInit => PostsInv
  <1> SUFFICES ASSUME PostsInit
               PROVE  PostsInv
    OBVIOUS
  <1>1. /\ collection \in Collections /\ loading = ToAnnounce /\ batch = <<>>
        /\ due = {} /\ unsaved = {} /\ posted = {} /\ lost = {}
        /\ lastMap = [c \in Channels |-> NoMap]
    BY DEF PostsInit
  <1>2. PostsTypeOK
    BY <1>1 DEF PostsTypeOK
  <1>3. NoneDropped
    BY <1>1, AnnouncedGood
  <1>4. BatchWaits
    BY <1>1 DEF BatchWaits
  <1>5. ToldByNow
    BY <1>1 DEF ToldByNow, ToldBy, Sent
  <1>6. LastMapByNow
    BY <1>1 DEF LastMapByNow, AloneIn
  <1> QED BY <1>2, <1>3, <1>4, <1>5, <1>6 DEF PostsInv

LEMMA PostsStutter ==
    ASSUME PostsInv, UNCHANGED postVars
    PROVE  PostsInv'
  <1>1. /\ collection' = collection /\ loading' = loading /\ batch' = batch /\ due' = due
        /\ unsaved' = unsaved /\ posted' = posted /\ lastMap' = lastMap /\ lost' = lost
    BY DEF postVars
  <1>2. ToAnnounce' = ToAnnounce /\ (\A x : IsSummed(x)' = IsSummed(x)) /\ Message' = Message
    BY <1>1, FixedCollection
  <1>3. PostsTypeOK'
    BY <1>1, <1>2 DEF PostsInv, PostsTypeOK
  <1>4. Sent' = Sent
    BY <1>1, <1>2 DEF Sent
  <1>5. LastMapByNow'
    BY <1>1, LastMapStays DEF PostsInv
  <1> QED BY <1>1, <1>3, <1>4, <1>5, RestGoesOn

LEMMA NextPosts ==
    ASSUME PostsInv, [PostsNext]_postVars
    PROVE  PostsInv'
  <1>1. ASSUME NEW s \in loading, LoadMap(s) \/ LoadMapFails(s)
        PROVE  PostsInv'
    BY <1>1, LoadMapGood
  <1>2. ASSUME NEW d \in due, Send(d) \/ SendFails(d)
        PROVE  PostsInv'
    BY <1>2, SendGood
  <1>3. ASSUME NEW d \in unsaved, SaveBeatmap(d)
        PROVE  PostsInv'
    BY <1>3, SaveBeatmapGood
  <1>4. CASE UNCHANGED postVars
    BY <1>4, PostsStutter
  <1> QED BY <1>1, <1>2, <1>3, <1>4 DEF PostsNext

(* When nothing is under way, every score that is not lost is in exactly   *)
(* one message to each channel.                                            *)
LEMMA PostsInvSays == PostsInv => EveryScoreIsTold
  <1> SUFFICES ASSUME PostsInv
               PROVE  EveryScoreIsTold
    OBVIOUS
  <1>1. NoneDropped /\ ToldByNow /\ LastMapByNow /\ BatchWaits
    BY DEF PostsInv
  <1>2. ASSUME AllSent, NEW c \in Channels, NEW s \in ToAnnounce \ lost
        PROVE  ToldOnce(s, c)
    <2>1. ToSet(batch) = {} /\ loading = {} /\ due = {}
      BY <1>1, <1>2 DEF AllSent, BatchWaits, ToSet
    <2>2. s \notin loading \cup ToSet(batch)
      BY <2>1
    <2>3. PICK d : ToldBy(s, c) = {d}
      BY <1>1, <2>2 DEF ToldByNow
    <2>4. ToldBy(s, c) = {e \in posted \cup (lost \cap Message) : e.to = c /\ s \in e.of}
      BY <2>1 DEF ToldBy, Sent
    <2>5. Cardinality({d}) = 1
      BY FS_Singleton
    <2> QED BY <2>3, <2>4, <2>5 DEF ToldOnce
  <1>3. ASSUME AllSent, NEW c \in Channels
        PROVE  LastMapWasTold(c)
    <2> DEFINE alone == {d \in posted : d.to = c /\ d.alone}
               told == UNION {{s.map : s \in d.of} : d \in alone}
    <2>1. alone = AloneIn(c) /\ unsaved = {}
      BY <1>3 DEF AloneIn, AllSent
    <2>2. CASE lastMap[c] = NoMap
      <3>1. alone \subseteq lost
        BY <1>1, <2>1, <2>2 DEF LastMapByNow
      <3>2. lastMap[c] \in told \cup (IF alone \subseteq lost THEN {NoMap} ELSE {})
        <4> HIDE DEF told, alone
        <4> QED BY <2>2, <3>1
      <3> QED BY <3>2 DEF LastMapWasTold
    <2>3. CASE lastMap[c] # NoMap
      <3>1. PICK d \in alone : \E s \in d.of : lastMap[c] = s.map
        BY <1>1, <2>1, <2>3 DEF LastMapByNow
      <3>2. lastMap[c] \in told
        BY <3>1
      <3> QED BY <3>2 DEF LastMapWasTold
    <2> QED BY <2>2, <2>3
  <1> QED BY <1>1, <1>2, <1>3 DEF EveryScoreIsTold

LEMMA PostsInvariance == PostsSpec => []PostsInv
  <1>1. PostsInv /\ [PostsNext]_postVars => PostsInv'
    BY NextPosts
  <1> QED BY InitPosts, <1>1, PTL DEF PostsSpec

(* When an update's messages are out, every play it collected, or one that *)
(* is nowhere worse, was told once in every channel, whatever failed of    *)
(* the others; a channel's last map is one it was told of (merge,          *)
(* send_all, send_batch, send_message_to).                                 *)
THEOREM EveryScoreTold == PostsSpec => []EveryScoreIsTold
  <1> QED BY PostsInvariance, PostsInvSays, PTL

-----------------------------------------------------------------------------
(* Both lists in one behaviour *)

LEMMA ScoresInvariance == FairScores => [](IInv /\ PostsInv)
  <1>1. ScoresInit => IInv /\ PostsInv
    BY InitIInv, InitPosts DEF ScoresInit
  <1>2. ASSUME IInv, PostsInv, [ScoresNext]_scoresVars
        PROVE  IInv' /\ PostsInv'
    <2>1. [Next]_vars /\ [PostsNext]_postVars
      BY <1>2 DEF ScoresNext, scoresVars
    <2> QED BY <1>2, <2>1, NextIInv, NextPosts
  <1> QED BY <1>1, <1>2, PTL DEF FairScores

(* The buffer and an update's messages are of their types, side by side.   *)
THEOREM ScoresTyped == FairScores => []ScoresTypeOK
  <1>1. IInv /\ PostsInv => ScoresTypeOK
    BY DEF IInv, PostsInv, ScoresTypeOK
  <1> QED BY <1>1, ScoresInvariance, PTL
=============================================================================
