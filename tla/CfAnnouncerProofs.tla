------------------------- MODULE CfAnnouncerProofs -------------------------
(***************************************************************************)
(* Theorems about the Codeforces announcer and the live watches, for any   *)
(* users, handles, contests and calls.                                     *)
(***************************************************************************)
EXTENDS MCCfAnnouncer, FoldLemmas, SequenceTheorems, FiniteSetTheorems, TLAPS

-----------------------------------------------------------------------------
(* Rating changes and their order *)

(* Of the places in a set, counted from below, there is an n-th.           *)
LEMMA NthExists ==
    ASSUME NEW N \in Nat, NEW K \in SUBSET (1..N), NEW n \in 1..Cardinality(K)
    PROVE  \E i \in K : Cardinality({j \in K : j <= i}) = n
  <1> DEFINE Upto(m) == {j \in K : j <= m}
             enough == {m \in Nat : Cardinality(Upto(m)) >= n}
  <1>1. \A j \in K : j \in Nat /\ 1 <= j /\ j <= N
    OBVIOUS
  <1>2. IsFiniteSet(K)
    <2>1. IsFiniteSet(1..N)
      BY FS_Interval
    <2> QED BY <2>1, FS_Subset
  <1>3. \A m \in Nat : \A j \in Nat : j \in Upto(m) <=> j \in K /\ j <= m
    OBVIOUS
  <1>4. \A m \in Nat : Upto(m) \subseteq K
    OBVIOUS
  <1> HIDE DEF Upto
  <1>5. \A m \in Nat : IsFiniteSet(Upto(m)) /\ Cardinality(Upto(m)) \in Nat
    BY <1>2, <1>4, FS_Subset, FS_CardinalityType
  <1>6. N \in enough /\ 0 \notin enough
    <2>1. Upto(N) = K
      BY <1>1, <1>3, <1>4
    <2>2. Upto(0) = {}
      <3>1. \A j \in K : j \notin Upto(0)
        BY <1>1, <1>3, <1>4
      <3> QED BY <3>1, <1>4
    <2> QED BY <1>5, <2>1, <2>2, FS_EmptySet
  <1>7. PICK m \in enough : \A k \in enough : m <= k
    BY <1>6, LeastExists
  <1>8. m \in Nat /\ m - 1 \in Nat /\ m - 1 \notin enough
    <2>1. m \in Nat /\ m # 0
      BY <1>6
    <2>2. m - 1 \in Nat /\ ~ (m <= m - 1)
      BY <2>1
    <2> HIDE DEF enough
    <2> QED BY <2>1, <2>2, <1>7
  <1>9. m \in K
    <2> SUFFICES ASSUME m \notin K PROVE FALSE
      OBVIOUS
    <2>1. Upto(m) = Upto(m - 1)
      <3>1. \A j \in K : j \in Upto(m) <=> j \in Upto(m - 1)
        BY <1>1, <1>3, <1>4, <1>8
      <3> QED BY <3>1, <1>4, <1>8
    <2> QED BY <2>1, <1>7, <1>8
  <1>10. Cardinality(Upto(m)) = Cardinality(Upto(m - 1)) + 1
    <2>1. Upto(m) = Upto(m - 1) \cup {m} /\ m \notin Upto(m - 1)
      <3>1. \A j \in K : j \in Upto(m) <=> j \in Upto(m - 1) \cup {m}
        BY <1>1, <1>3, <1>4, <1>8, <1>9
      <3>2. m \notin Upto(m - 1)
        BY <1>3, <1>8, m - 1 < m
      <3> QED BY <3>1, <3>2, <1>4, <1>8, <1>9
    <2> QED BY <2>1, <1>5, <1>8, FS_AddElement
  <1>11. Cardinality(Upto(m)) = n
    BY <1>5, <1>7, <1>8, <1>10
  <1> QED BY <1>9, <1>11 DEF Upto

(* In the list r, k comes no later than l.                                 *)
Upto(r, k, l) == \E i \in DOMAIN r, j \in DOMAIN r : i <= j /\ r[i] = k /\ r[j] = l

(* A last contest is one of the list, or there is none.                    *)
Known(r, l) == l = NoContest \/ l \in ToSet(r)

RatedGood(r) == r \in Seq(Contests) /\ IsInjective(r)

LEMMA AppendKeepsOrder ==
    ASSUME NEW r, RatedGood(r), NEW k \in Contests, k \notin ToSet(r)
    PROVE  /\ RatedGood(Append(r, k))
           /\ \A l : Known(r, l) =>
                 /\ Known(Append(r, k), l)
                 /\ \A x : Upto(Append(r, k), x, l) <=> Upto(r, x, l)
  <1> DEFINE s == Append(r, k)
  <1>1. /\ r \in Seq(Contests) /\ Len(r) \in Nat /\ DOMAIN r = 1..Len(r)
        /\ s \in Seq(Contests) /\ DOMAIN s = 1..(Len(r) + 1) /\ s[Len(r) + 1] = k
        /\ \A i \in 1..Len(r) : s[i] = r[i] /\ r[i] # k
    BY DEF RatedGood, ToSet
  <1>2. \A i \in DOMAIN s : i \in DOMAIN r \/ i = Len(r) + 1
    BY <1>1
  <1> HIDE DEF s
  <1>3. IsInjective(s)
    <2> SUFFICES ASSUME NEW i \in DOMAIN s, NEW j \in DOMAIN s, s[i] = s[j] PROVE i = j
      BY DEF IsInjective
    <2> QED BY <1>1, <1>2 DEF RatedGood, IsInjective
  <1>4. ASSUME NEW l, Known(r, l) PROVE Known(s, l)
    BY <1>1, <1>4 DEF Known, ToSet
  <1>5. ASSUME NEW l, Known(r, l), NEW x PROVE Upto(s, x, l) <=> Upto(r, x, l)
    <2>1. Upto(r, x, l) => Upto(s, x, l)
      BY <1>1 DEF Upto
    <2>2. ASSUME NEW i \in DOMAIN s, NEW j \in DOMAIN s, i <= j, s[i] = x, s[j] = l
          PROVE  i \in DOMAIN r /\ j \in DOMAIN r /\ r[i] = x /\ r[j] = l
      <3>1. j \in DOMAIN r
        BY <1>1, <1>2, <1>5, <2>2, CfAnnouncerAssumption DEF Known, ToSet
      <3> QED BY <1>1, <1>2, <2>2, <3>1
    <2> QED BY <2>1, <2>2 DEF Upto
  <1> QED BY <1>1, <1>3, <1>4, <1>5 DEF s, RatedGood

(* What Codeforces answers: changes of the list in its order, and all of   *)
(* them while nothing is rolled back.                                      *)
LEMMA ChangesKeepOrder ==
    ASSUME NEW h \in Handles, RatedGood(rated[h])
    PROVE  /\ RatingChanges(h) \in Seq(Contests)
           /\ hidden[h] = {} => RatingChanges(h) = rated[h]
           /\ \E place \in [DOMAIN RatingChanges(h) -> DOMAIN rated[h]] :
                 /\ \A i \in DOMAIN place : RatingChanges(h)[i] = rated[h][place[i]]
                 /\ \A i \in DOMAIN place, j \in DOMAIN place :
                       i < j => place[i] < place[j]
  <1> DEFINE r == rated[h]
             shown == {i \in DOMAIN r : r[i] \notin hidden[h]}
             Below(i) == {j \in shown : j <= i}
             Nth(n) == CHOOSE i \in shown : Cardinality(Below(i)) = n
             N == Cardinality(shown)
             place == [n \in 1..N |-> Nth(n)]
  <1>1. r \in Seq(Contests) /\ Len(r) \in Nat /\ DOMAIN r = 1..Len(r)
    BY DEF RatedGood
  <1>2. IsFiniteSet(shown) /\ N \in Nat
    <2>1. IsFiniteSet(1..Len(r))
      BY <1>1, FS_Interval
    <2> QED BY <1>1, <2>1, FS_Subset, FS_CardinalityType
  <1>3. ASSUME NEW n \in 1..N PROVE Nth(n) \in shown /\ Cardinality(Below(Nth(n))) = n
    <2>1. shown \in SUBSET (1..Len(r))
      BY <1>1
    <2> HIDE DEF shown, r
    <2>2. \E i \in shown : Cardinality(Below(i)) = n
      BY <1>1, <2>1, NthExists
    <2> QED BY <2>2
  <1>4. RatingChanges(h) = [n \in 1..N |-> r[Nth(n)]]
    BY DEF RatingChanges
  <1> HIDE DEF Nth
  <1>5. RatingChanges(h) \in Seq(Contests) /\ DOMAIN RatingChanges(h) = 1..N
    <2>1. \A n \in 1..N : r[Nth(n)] \in Contests
      <3>1. shown \subseteq DOMAIN r
        OBVIOUS
      <3>2. \A i \in DOMAIN r : r[i] \in Contests
        BY <1>1
      <3> HIDE DEF shown, r
      <3> QED BY <1>3, <3>1, <3>2
    <2>2. RatingChanges(h) \in [1..N -> Contests]
      BY <1>4, <2>1
    <2> QED BY <1>2, <1>4, <2>2, SeqDef
  <1>6. /\ place \in [1..N -> DOMAIN r]
        /\ \A i \in 1..N : RatingChanges(h)[i] = r[place[i]]
    BY <1>3, <1>4
  <1>7. ASSUME NEW i \in 1..N, NEW j \in 1..N, i < j PROVE place[i] < place[j]
    <2>1. place[i] \in Nat /\ place[j] \in Nat /\ place[i] = Nth(i) /\ place[j] = Nth(j)
      BY <1>1, <1>6
    <2> SUFFICES ASSUME place[j] <= place[i] PROVE FALSE
      BY <2>1
    <2>2. Below(place[j]) \subseteq Below(place[i])
      BY <1>1, <2>1
    <2>3. IsFiniteSet(Below(place[i]))
      BY <1>2, FS_Subset
    <2>4. Cardinality(Below(place[j])) <= Cardinality(Below(place[i]))
      BY <2>2, <2>3, FS_Subset
    <2> QED BY <1>2, <1>3, <1>7, <2>1, <2>4
  <1>8. ASSUME hidden[h] = {} PROVE RatingChanges(h) = r
    <2>1. shown = 1..Len(r)
      BY <1>1, <1>8
    <2>0. \A m \in Nat : Cardinality(1..m) = m
      <3> TAKE m \in Nat
      <3>1. Cardinality(1..m) = IF 1 > m THEN 0 ELSE m - 1 + 1
        BY FS_Interval
      <3> QED BY <3>1
    <2>2. N = Len(r)
      <3> HIDE DEF shown
      <3> QED BY <1>1, <2>0, <2>1
    <2>3. ASSUME NEW n \in 1..N PROVE Nth(n) = n
      <3>1. Nth(n) \in 1..Len(r) /\ Cardinality(Below(Nth(n))) = n
        BY <1>3, <2>1
      <3>2. Below(Nth(n)) = 1..Nth(n)
        BY <1>1, <2>1, <3>1
      <3>3. Nth(n) \in Nat
        BY <3>1
      <3> QED BY <2>0, <3>1, <3>2, <3>3
    <2>4. DOMAIN RatingChanges(h) = DOMAIN r /\ \A n \in DOMAIN r : RatingChanges(h)[n] = r[n]
      <3> HIDE DEF shown, r
      <3> QED BY <1>1, <1>4, <2>2, <2>3
    <2>5. Len(RatingChanges(h)) = Len(r)
      BY <1>1, <1>5, <2>4
    <2> QED BY <1>1, <1>5, <2>4, <2>5, SeqEqual
  <1> QED BY <1>5, <1>6, <1>7, <1>8

(* A list without repetitions has its new changes after the last one that  *)
(* was announced; they are taken from the end.                             *)
LEMMA NewChangesAfter ==
    ASSUME NEW c \in Seq(Contests), IsInjective(c), NEW last \in Contests
    PROVE  /\ last \notin ToSet(c) => NewChanges(c, last) = <<>>
           /\ \A f \in DOMAIN c : c[f] = last =>
                NewChanges(c, last) = [n \in 1..(Len(c) - f) |-> c[Len(c) - n + 1]]
  <1> DEFINE after == {i \in DOMAIN c : \E j \in 1..(i - 1) : c[j] = last}
             tail == SubSeq(c, Len(c) - Cardinality(after) + 1, Len(c))
  <1>1. Len(c) \in Nat /\ DOMAIN c = 1..Len(c)
    OBVIOUS
  <1>2. NewChanges(c, last) = Reverse(tail)
    BY CfAnnouncerAssumption DEF NewChanges
  <1>3. ASSUME last \notin ToSet(c) PROVE NewChanges(c, last) = <<>>
    <2>1. after = {}
      BY <1>1, <1>3 DEF ToSet
    <2>2. Cardinality(after) = 0
      BY <2>1, FS_EmptySet
    <2>3. tail = <<>>
      <3> HIDE DEF after
      <3> QED BY <1>1, <2>2
    <2>4. NewChanges(c, last) = [n \in 1..0 |-> <<>>[0 - n + 1]]
      BY <1>2, <2>3 DEF Reverse
    <2>5. NewChanges(c, last) \in [1..0 -> Contests]
      BY <2>4
    <2>6. NewChanges(c, last) \in Seq(Contests)
      BY <2>5, SeqDef
    <2> QED BY <2>5, <2>6, EmptySeq, LenProperties
  <1>4. ASSUME NEW f \in DOMAIN c, c[f] = last
        PROVE  NewChanges(c, last) = [n \in 1..(Len(c) - f) |-> c[Len(c) - n + 1]]
    <2>1. after = (f + 1)..Len(c)
      <3>1. \A j \in DOMAIN c : c[j] = last <=> j = f
        BY <1>4 DEF IsInjective
      <3>2. \A i \in DOMAIN c : i \in after <=> f < i
        BY <1>1, <3>1
      <3> QED BY <1>1, <3>2
    <2>2. Cardinality(after) = Len(c) - f
      <3>1. Cardinality((f + 1)..Len(c))
               = IF f + 1 > Len(c) THEN 0 ELSE Len(c) - (f + 1) + 1
        <4>1. f + 1 \in Int /\ Len(c) \in Int
          BY <1>1
        <4> QED BY <4>1, FS_Interval
      <3> HIDE DEF after
      <3> QED BY <1>1, <2>1, <3>1
    <2>3. /\ tail \in Seq(Contests) /\ Len(tail) = Len(c) - f
          /\ \A n \in 1..(Len(c) - f) : tail[n] = c[f + n]
      <3>1. tail = SubSeq(c, f + 1, Len(c))
        <4> HIDE DEF after
        <4>1. Len(c) - Cardinality(after) + 1 = f + 1
          BY <1>1, <2>2
        <4> QED BY <4>1
      <3>2. f + 1 \in 1..(Len(c) + 1) /\ Len(c) \in (f + 1 - 1)..Len(c)
        BY <1>1
      <3> HIDE DEF tail
      <3> QED BY <1>1, <3>1, <3>2, SubSeqProperties
    <2> HIDE DEF tail
    <2>4. Reverse(tail) = [n \in 1..(Len(c) - f) |-> c[Len(c) - n + 1]]
      BY <1>1, <2>3 DEF Reverse
    <2> QED BY <1>2, <2>4
  <1> QED BY <1>3, <1>4

(* What an update makes of the changes: all of them come after the last    *)
(* one announced and none later than the one it remembers, and when none   *)
(* is rolled back they are all there are.                                  *)
LEMMA UpdateTakesNew ==
    ASSUME NEW h \in Handles, RatedGood(rated[h]),
           NEW last \in Contests \cup {NoContest}, Known(rated[h], last),
           NEW new, new = NewChanges(RatingChanges(h), last),
           NEW mark, mark = IF new = <<>> THEN last ELSE Head(new)
    PROVE  /\ new \in Seq(Contests)
           /\ ToSet(new) \subseteq ToSet(rated[h])
           /\ mark \in Contests \cup {NoContest} /\ Known(rated[h], mark)
           /\ \A k \in ToSet(new) : ~ Upto(rated[h], k, last)
           /\ last # NoContest \/ Len(new) <= 1 =>
                /\ \A k \in ToSet(new) : Upto(rated[h], k, mark)
                /\ \A k : Upto(rated[h], k, last) => Upto(rated[h], k, mark)
           /\ hidden[h] = {} =>
                \A k : Upto(rated[h], k, mark) => Upto(rated[h], k, last) \/ k \in ToSet(new)
  <1> DEFINE r == rated[h]
             c == RatingChanges(h)
  <1>1. /\ c \in Seq(Contests) /\ (hidden[h] = {} => c = r)
        /\ r \in Seq(Contests) /\ IsInjective(r)
    BY ChangesKeepOrder DEF RatedGood
  <1>2. PICK place \in [DOMAIN c -> DOMAIN r] :
               /\ \A i \in DOMAIN place : c[i] = r[place[i]]
               /\ \A i \in DOMAIN place, j \in DOMAIN place : i < j => place[i] < place[j]
    BY ChangesKeepOrder
  <1> HIDE DEF c, r
  <1>3. /\ Len(r) \in Nat /\ DOMAIN r = 1..Len(r)
        /\ Len(c) \in Nat /\ DOMAIN c = 1..Len(c) /\ DOMAIN place = 1..Len(c)
    BY <1>1, <1>2
  <1>4. IsInjective(c)
    <2> SUFFICES ASSUME NEW i \in DOMAIN c, NEW j \in DOMAIN c, c[i] = c[j], i < j PROVE FALSE
      BY <1>3 DEF IsInjective
    <2> QED BY <1>1, <1>2, <1>3 DEF IsInjective
  <1>5. CASE last = NoContest
    <2>1. new = c
      BY <1>5 DEF NewChanges, c
    <2>2. \A k \in ToSet(new) : k \in ToSet(r)
      BY <1>2, <2>1 DEF ToSet
    <2>3. \A k : ~ Upto(r, k, last)
      BY <1>1, <1>3, <1>5, CfAnnouncerAssumption DEF Upto
    <2>4. CASE new = <<>>
      BY <1>1, <2>1, <2>3, <2>4 DEF ToSet, r
    <2>5. CASE new # <<>>
      <3>1. mark = c[1] /\ 1 \in DOMAIN c /\ mark \in ToSet(c) /\ mark \in Contests
        BY <1>1, <1>3, <2>1, <2>5 DEF ToSet
      <3>2. ASSUME Len(new) <= 1 PROVE \A k \in ToSet(new) : k = mark
        BY <1>3, <2>1, <3>1, <3>2 DEF ToSet
      <3>3. Upto(r, mark, mark)
        BY <1>2, <1>3, <3>1 DEF Upto
      <3>4. ASSUME c = r, NEW k, Upto(r, k, mark) PROVE k = mark
        <4>1. PICK i \in DOMAIN r, j \in DOMAIN r : i <= j /\ r[i] = k /\ r[j] = mark
          BY <3>4 DEF Upto
        <4>2. j = 1
          BY <1>1, <3>1, <3>4, <4>1 DEF IsInjective
        <4> QED BY <1>3, <3>1, <3>4, <4>1, <4>2
      <3> QED BY <1>1, <1>5, <2>1, <2>2, <2>3, <3>1, <3>2, <3>3, <3>4 DEF Known, r
    <2> QED BY <2>4, <2>5
  <1>6. CASE last # NoContest
    <2>1. last \in Contests /\ last \in ToSet(r)
      BY <1>6 DEF Known, r
    <2>2. CASE last \notin ToSet(c)
      <3>1. new = <<>> /\ c # r
        BY <1>1, <1>4, <2>1, <2>2, NewChangesAfter DEF c
      <3> QED BY <1>1, <3>1 DEF ToSet, r
    <2>3. CASE last \in ToSet(c)
      <3>1. PICK f \in DOMAIN c : c[f] = last
        BY <2>3 DEF ToSet
      <3>2. new = [n \in 1..(Len(c) - f) |-> c[Len(c) - n + 1]]
        BY <1>1, <1>4, <2>1, <3>1, NewChangesAfter DEF c
      <3>3. new \in Seq(Contests) /\ Len(new) = Len(c) - f
        <4>1. Len(c) - f \in Nat /\ new \in [1..(Len(c) - f) -> Contests]
          BY <1>1, <1>3, <3>1, <3>2
        <4>2. new \in Seq(Contests)
          BY <4>1, SeqDef
        <4>3. DOMAIN new = 1..(Len(c) - f)
          BY <3>2
        <4> QED BY <4>1, <4>2, <4>3, LenProperties
      <3>4. \A k : k \in ToSet(new) <=> \E i \in DOMAIN c : f < i /\ k = c[i]
        <4>1. ASSUME NEW k, k \in ToSet(new) PROVE \E i \in DOMAIN c : f < i /\ k = c[i]
          <5>1. PICK n \in 1..(Len(c) - f) : k = c[Len(c) - n + 1]
            BY <3>2, <4>1 DEF ToSet
          <5>2. Len(c) - n + 1 \in DOMAIN c /\ f < Len(c) - n + 1
            BY <1>3, <3>1, <5>1
          <5> QED BY <5>1, <5>2
        <4>2. ASSUME NEW i \in DOMAIN c, f < i PROVE c[i] \in ToSet(new)
          <5>1. Len(c) - i + 1 \in 1..(Len(c) - f) /\ Len(c) - (Len(c) - i + 1) + 1 = i
            BY <1>3, <3>1, <4>2
          <5>2. new[Len(c) - i + 1] = c[i] /\ Len(c) - i + 1 \in DOMAIN new
            BY <3>2, <5>1
          <5> QED BY <5>2 DEF ToSet
        <4> QED BY <4>1, <4>2
      <3>5. \A k \in ToSet(new) : k \in ToSet(r)
        <4> SUFFICES ASSUME NEW k \in ToSet(new) PROVE k \in ToSet(r)
          OBVIOUS
        <4>1. PICK i \in DOMAIN c : k = c[i]
          BY <3>4
        <4>2. place[i] \in DOMAIN r /\ k = r[place[i]]
          BY <1>2, <1>3, <4>1
        <4> QED BY <4>2 DEF ToSet
      <3>6. ASSUME NEW k \in ToSet(new) PROVE ~ Upto(r, k, last)
        <4>1. PICK i \in DOMAIN c : f < i /\ k = c[i]
          BY <3>4, <3>6
        <4>2. place[f] < place[i] /\ r[place[f]] = last /\ r[place[i]] = k
          BY <1>2, <1>3, <3>1, <4>1
        <4>3. place[f] \in DOMAIN r /\ place[i] \in DOMAIN r
          BY <1>2, <1>3, <3>1, <4>1
        <4> QED BY <1>1, <1>3, <4>2, <4>3 DEF Upto, IsInjective
      <3>7. CASE new = <<>>
        <4>1. Len(c) = f
          BY <1>3, <3>1, <3>3, <3>7
        <4>2. ASSUME c = r, NEW k, Upto(r, k, mark) PROVE Upto(r, k, last)
          BY <3>7, <4>2
        <4> QED BY <3>3, <3>5, <3>7, <4>2 DEF ToSet, r
      <3>8. CASE new # <<>>
        <4>1. mark = c[Len(c)] /\ f < Len(c) /\ Len(c) \in DOMAIN c
          BY <1>3, <3>1, <3>2, <3>3, <3>8
        <4>2. mark \in ToSet(r) /\ mark \in Contests
          BY <1>1, <1>2, <1>3, <4>1 DEF ToSet
        <4>3. ASSUME NEW i \in DOMAIN c PROVE Upto(r, c[i], mark)
          <5>1. i = Len(c) \/ i < Len(c)
            BY <1>3
          <5>2. /\ place[i] \in DOMAIN r /\ place[Len(c)] \in DOMAIN r
                /\ place[i] <= place[Len(c)]
            BY <1>2, <1>3, <4>1, <5>1
          <5> QED BY <1>2, <1>3, <4>1, <5>2 DEF Upto
        <4>4. ASSUME NEW k, Upto(r, k, last) PROVE Upto(r, k, mark)
          <5>1. PICK i \in DOMAIN r, j \in DOMAIN r : i <= j /\ r[i] = k /\ r[j] = last
            BY <4>4 DEF Upto
          <5>2. /\ place[f] \in DOMAIN r /\ r[place[f]] = last
                /\ place[Len(c)] \in DOMAIN r /\ r[place[Len(c)]] = mark
                /\ place[f] < place[Len(c)]
            BY <1>2, <1>3, <3>1, <4>1
          <5>3. j = place[f]
            BY <1>1, <5>1, <5>2 DEF IsInjective
          <5>4. i <= place[Len(c)]
            BY <1>3, <5>1, <5>2, <5>3
          <5> QED BY <5>1, <5>2, <5>4 DEF Upto
        <4>5. ASSUME c = r, NEW k, Upto(r, k, mark)
              PROVE  Upto(r, k, last) \/ k \in ToSet(new)
          <5>1. PICK i \in DOMAIN r, j \in DOMAIN r : i <= j /\ r[i] = k /\ r[j] = mark
            BY <4>5 DEF Upto
          <5>2. CASE i <= f
            BY <3>1, <4>5, <5>1, <5>2 DEF Upto
          <5>3. CASE f < i
            BY <3>4, <4>5, <5>1, <5>3
          <5> QED BY <1>3, <3>1, <5>1, <5>2, <5>3
        <4> QED BY <1>1, <3>3, <3>4, <3>5, <3>6, <4>2, <4>3, <4>4, <4>5 DEF Known, r
      <3> QED BY <3>7, <3>8
    <2> QED BY <2>2, <2>3
  <1> QED BY <1>5, <1>6

-----------------------------------------------------------------------------
(* The inductive invariant *)

(* A row is a saved account, with a last contest of its handle's list.     *)
RowGood(row) == row # NoUser => row.handle \in Handles /\ Known(rated[row.handle], row.last)

RowsGood(u) ==
    /\ RowGood(saving[u]) /\ RowGood(db[u]) /\ RowGood(job[u].row)
    /\ saving[u] # NoUser => saving[u].failures = 0 /\ epoch[u] < MaxSaves
    /\ db[u].failures < MaxFailures
    /\ job[u].phase = "off" => job[u] = NoJob
    /\ job[u].phase # "off" => scan /\ db[u] # NoUser /\ job[u].row.handle \in Handles
    /\ job[u].phase \in {"info", "send"} => job[u].row.failures < MaxFailures
    /\ \A e \in 0..MaxSaves, h \in Handles, k \in Contests :
         <<u, e, h, k>> \in announced => e <= epoch[u]

(* Without an early save the row of a scan is the stored one until the     *)
(* update has its answers, and has its handle if it will be written back.  *)
LinkGood(u) ==
    "early" \notin mishaps[u] /\ job[u].phase # "off" =>
        /\ job[u].phase = "info" => job[u].row = db[u] /\ ~ newer[u]
        /\ newer[u] \/ job[u].row.handle = db[u].handle

(* Nothing was announced twice to a user whose rows were all written back  *)
(* as announced: what was announced is not later than the last contest of  *)
(* the row, and what is about to be comes after it.                        *)
Clean(u) == mishaps[u] \cap {"first", "limit", "early", "late", "crash"} = {}

Mark(u) == IF job[u].phase = "done" THEN job[u].row.last ELSE db[u].last

CleanGood(u) ==
    Clean(u) =>
        /\ \A x \in again : x[1] # u
        /\ job[u].phase # "off" => ~ newer[u]
        /\ \A h \in Handles, k \in Contests :
             <<u, epoch[u], h, k>> \in announced =>
                 h = db[u].handle /\ Upto(rated[h], k, Mark(u))
        /\ job[u].phase = "send" =>
             LET r == rated[job[u].row.handle]
             IN  /\ \A k \in ToSet(job[u].todo) :
                      ~ Upto(r, k, db[u].last) /\ Upto(r, k, job[u].row.last)
                 /\ \A k \in Contests :
                      Upto(r, k, db[u].last) => Upto(r, k, job[u].row.last)

(* A user without a failed sending, a rollback or an early save was told   *)
(* of all that the stored row has passed, and will have been of all that   *)
(* the row of the scan has passed once it is written back.                 *)
Heard(u) == mishaps[u] \cap {"send", "hidden", "early"} = {}

Told(u, row, more) ==
    \A k \in Contests :
        Upto(rated[row.handle], k, row.last) =>
            k \in base[u] \/ <<u, epoch[u], row.handle, k>> \in announced \/ k \in more

HeardGood(u) ==
    Heard(u) =>
        /\ db[u] # NoUser => Told(u, db[u], {})
        /\ job[u].phase = "send" /\ ~ newer[u] => Told(u, job[u].row, ToSet(job[u].todo))
        /\ job[u].phase = "done" /\ ~ newer[u] => Told(u, job[u].row, {})

UserGood(u) == RowsGood(u) /\ LinkGood(u) /\ CleanGood(u) /\ HeardGood(u)

ScansInv ==
    /\ TypeOK
    /\ \A h \in Handles : RatedGood(rated[h])
    /\ \A u \in Users : UserGood(u)

LEMMA InitScans == Init => ScansInv
  <1> SUFFICES ASSUME Init PROVE ScansInv
    OBVIOUS
  <1> USE CfAnnouncerAssumption
  <1>1. NoUser \in CfUser /\ NoJob.row = NoUser /\ NoJob.todo = <<>> /\ NoJob.phase = "off"
    BY DEF CfUser, NoUser, NoJob
  <1>2. TypeOK
    <2>1. <<>> \in Seq(Contests)
      BY EmptySeq
    <2>2. NoJob \in [phase : {"off", "info", "send", "done"}, row : CfUser, todo : Seq(Contests)]
      BY <1>1, <2>1 DEF NoJob
    <2>3. 0 \in 0..MaxFaults /\ 0 \in 0..MaxSaves
      OBVIOUS
    <2> HIDE CfAnnouncerAssumption
    <2> QED BY <1>1, <2>1, <2>2, <2>3 DEF Init, TypeOK
  <1>3. ASSUME NEW h \in Handles PROVE RatedGood(rated[h])
    BY EmptySeq DEF Init, RatedGood, IsInjective
  <1>4. ASSUME NEW u \in Users PROVE UserGood(u)
    <2>1. /\ saving[u] = NoUser /\ db[u] = NoUser /\ job[u] = NoJob /\ announced = {} /\ again = {}
          /\ db[u].failures = 0
      BY DEF Init, NoUser
    <2>2. RowsGood(u)
      BY <1>1, <2>1 DEF RowsGood, RowGood
    <2>3. LinkGood(u)
      BY <1>1, <2>1 DEF LinkGood
    <2>4. CleanGood(u)
      BY <1>1, <2>1 DEF CleanGood
    <2>5. HeardGood(u)
      BY <1>1, <2>1 DEF HeardGood
    <2> QED BY <2>2, <2>3, <2>4, <2>5 DEF UserGood
  <1> QED BY <1>2, <1>3, <1>4 DEF ScansInv

(* What a step leaves alone of a user.                                     *)
SameFor(u) ==
    /\ db'[u] = db[u] /\ saving'[u] = saving[u] /\ job'[u] = job[u] /\ newer'[u] = newer[u]
    /\ epoch'[u] = epoch[u] /\ base'[u] = base[u] /\ mishaps'[u] = mishaps[u]
    /\ scan' \/ job[u].phase = "off"
    /\ \A e, h, k : <<u, e, h, k>> \in announced' <=> <<u, e, h, k>> \in announced
    /\ \A x \in again' : x[1] = u => x \in again

LEMMA SameUser ==
    ASSUME NEW u \in Users, UserGood(u), rated' = rated, SameFor(u)
    PROVE  UserGood(u)'
  <1>1. RowsGood(u)'
    BY DEF UserGood, RowsGood, RowGood, SameFor
  <1>2. LinkGood(u)'
    BY DEF UserGood, LinkGood, SameFor
  <1>3. CleanGood(u)'
    BY DEF UserGood, CleanGood, Clean, Mark, SameFor
  <1>4. HeardGood(u)'
    BY DEF UserGood, HeardGood, Heard, Told, SameFor
  <1> QED BY <1>1, <1>2, <1>3, <1>4 DEF UserGood

LEMMA RateStep ==
    ASSUME ScansInv, NEW h \in Handles, NEW k \in Contests, Rate(h, k)
    PROVE  ScansInv'
  <1>1. RatedGood(rated[h]) /\ rated' = [rated EXCEPT ![h] = Append(@, k)] /\ k \notin ToSet(rated[h])
    BY DEF ScansInv, Rate
  <1>2. \A g \in Handles : rated'[g] = IF g = h THEN Append(rated[g], k) ELSE rated[g]
    BY <1>1 DEF ScansInv, TypeOK
  <1>3. ASSUME NEW g \in Handles
        PROVE  /\ RatedGood(rated'[g])
               /\ \A l : Known(rated[g], l) =>
                     /\ Known(rated'[g], l)
                     /\ \A x : Upto(rated'[g], x, l) <=> Upto(rated[g], x, l)
    BY <1>1, <1>2, AppendKeepsOrder DEF ScansInv
  <1>4. TypeOK'
    <2>1. rated' \in [Handles -> Seq(Contests)]
      BY <1>1, <1>2, <1>3 DEF ScansInv, TypeOK, RatedGood
    <2> QED BY <2>1 DEF ScansInv, TypeOK, Rate, history
  <1>5. ASSUME NEW u \in Users PROVE UserGood(u)'
    <2>1. UserGood(u) /\ db[u] \in CfUser /\ job[u].row \in CfUser
      BY DEF ScansInv, TypeOK
    <2>2. UNCHANGED <<hidden, faults, db, saving, scan, job, newer, epoch, base, announced, again,
                      mishaps>>
      BY DEF Rate, history
    <2>3. RowsGood(u)'
      BY <1>3, <2>1, <2>2 DEF UserGood, RowsGood, RowGood
    <2>4. LinkGood(u)'
      BY <2>1, <2>2 DEF UserGood, LinkGood
    <2>5. RowGood(db[u]) /\ RowGood(job[u].row)
      BY <2>1 DEF UserGood, RowsGood
    <2>6. job[u].phase # "off" => db[u] # NoUser /\ job[u].row.handle \in Handles
      BY <2>1 DEF UserGood, RowsGood
    <2>7. NoUser.handle \notin Handles
      BY CfAnnouncerAssumption DEF NoUser
    <2>8. CleanGood(u)'
      BY <1>3, <2>1, <2>2, <2>5, <2>6, <2>7 DEF UserGood, CleanGood, Clean, Mark, RowGood, LinkGood
    <2>9. HeardGood(u)'
      BY <1>3, <2>1, <2>2, <2>5, <2>6, <2>7 DEF UserGood, HeardGood, Heard, Told, RowGood
    <2> QED BY <2>3, <2>4, <2>8, <2>9 DEF UserGood
  <1> QED BY <1>3, <1>4, <1>5 DEF ScansInv

LEMMA RollBackStep ==
    ASSUME ScansInv, NEW h \in Handles, NEW k \in Contests, RollBack(h, k) \/ Restore(h, k)
    PROVE  ScansInv'
  <1>1. UNCHANGED <<rated, db, saving, scan, job, newer, history>>
    BY DEF RollBack, Restore
  <1>2. TypeOK'
    <2>1. hidden' \in [Handles -> SUBSET Contests]
      <3>1. hidden \in [Handles -> SUBSET Contests]
        BY DEF ScansInv, TypeOK
      <3>2. CASE RollBack(h, k)
        BY <3>1, <3>2 DEF RollBack
      <3>3. CASE Restore(h, k)
        BY <3>1, <3>3 DEF Restore
      <3> QED BY <3>2, <3>3
    <2>2. faults' \in 0..MaxFaults
      BY CfAnnouncerAssumption DEF ScansInv, TypeOK, RollBack, Restore, Fault
    <2> QED BY <1>1, <2>1, <2>2 DEF ScansInv, TypeOK, history
  <1>3. ASSUME NEW u \in Users PROVE UserGood(u)'
    <2>1. UserGood(u)
      BY DEF ScansInv
    <2>2. SameFor(u)
      BY <1>1, <2>1 DEF SameFor, history, UserGood, RowsGood
    <2> QED BY <1>1, <2>1, <2>2, SameUser
  <1> QED BY <1>1, <1>2, <1>3 DEF ScansInv

LEMMA BeginSaveStep ==
    ASSUME ScansInv, NEW u \in Users, NEW h \in Handles, BeginSave(u, h)
    PROVE  ScansInv'
  <1> DEFINE row == [handle |-> h, last |-> LastOf(RatingChanges(h)), failures |-> 0]
  <1>1. /\ saving' = [saving EXCEPT ![u] = row] /\ epoch[u] < MaxSaves
        /\ UNCHANGED <<world, db, scan, job, newer, history>>
    BY DEF BeginSave
  <1>2. row \in CfUser /\ Known(rated[h], row.last)
    <2>1. RatedGood(rated[h])
      BY DEF ScansInv
    <2>2. RatingChanges(h) \in Seq(Contests)
      BY <2>1, ChangesKeepOrder
    <2>3. CASE RatingChanges(h) = <<>>
      BY <2>3, CfAnnouncerAssumption DEF LastOf, CfUser, Known
    <2>4. CASE RatingChanges(h) # <<>>
      <3> DEFINE c == RatingChanges(h)
      <3>1. PICK place \in [DOMAIN c -> DOMAIN rated[h]] :
              \A i \in DOMAIN place : c[i] = rated[h][place[i]]
        BY <2>1, ChangesKeepOrder
      <3> HIDE DEF c
      <3>2. Len(c) \in DOMAIN c /\ LastOf(c) = c[Len(c)] /\ LastOf(c) \in Contests
        BY <2>2, <2>4 DEF LastOf, Last, c
      <3>3. LastOf(c) \in ToSet(rated[h])
        BY <3>1, <3>2 DEF ToSet
      <3> QED BY <3>2, <3>3, CfAnnouncerAssumption DEF c, CfUser, Known
    <2> QED BY <2>3, <2>4
  <1>3. row.handle = h /\ row.failures = 0
    OBVIOUS
  <1> HIDE DEF row
  <1>4. TypeOK'
    BY <1>1, <1>2 DEF ScansInv, TypeOK, world, history
  <1>5. ASSUME NEW v \in Users PROVE UserGood(v)'
    <2>1. UserGood(v)
      BY DEF ScansInv
    <2>2. CASE v # u
      BY <1>1, <2>1, <2>2, SameUser DEF SameFor, world, history, UserGood, RowsGood, ScansInv, TypeOK
    <2>3. CASE v = u
      <3>1. saving'[u] = row
        BY <1>1 DEF ScansInv, TypeOK
      <3>2. RowsGood(u)'
        BY <1>1, <1>2, <1>3, <2>1, <2>3, <3>1 DEF UserGood, RowsGood, RowGood, world, history
      <3>3. LinkGood(u)'
        BY <1>1, <2>1, <2>3 DEF UserGood, LinkGood, world, history
      <3>4. CleanGood(u)'
        BY <1>1, <2>1, <2>3 DEF UserGood, CleanGood, Clean, Mark, world, history
      <3>5. HeardGood(u)'
        BY <1>1, <2>1, <2>3 DEF UserGood, HeardGood, Heard, Told, world, history
      <3> QED BY <2>3, <3>2, <3>3, <3>4, <3>5 DEF UserGood
    <2> QED BY <2>2, <2>3
  <1> QED BY <1>1, <1>4, <1>5 DEF ScansInv, world

LEMMA CommitSaveStep ==
    ASSUME ScansInv, NEW u \in Users, CommitSave(u)
    PROVE  ScansInv'
  <1> DEFINE row == saving[u]
             r == rated[row.handle]
             passed == {r[i] : i \in {j \in DOMAIN r : \E k \in j..Len(r) : r[k] = row.last}}
             mishap == CASE job[u].phase = "off" -> {}
                         [] job[u].phase = "info" -> {"early"}
                         [] OTHER -> {"late"}
  <1>1. /\ row # NoUser /\ row \in CfUser /\ row.handle \in Handles
        /\ row.failures = 0 /\ epoch[u] < MaxSaves /\ Known(r, row.last)
        /\ RatedGood(r)
    BY DEF CommitSave, ScansInv, TypeOK, UserGood, RowsGood, RowGood
  <1>2. /\ db' = [db EXCEPT ![u] = row] /\ saving' = [saving EXCEPT ![u] = NoUser]
        /\ newer' = [newer EXCEPT ![u] = TRUE] /\ epoch' = [epoch EXCEPT ![u] = @ + 1]
        /\ base' = [base EXCEPT ![u] = passed]
        /\ mishaps' = [mishaps EXCEPT ![u] = @ \cup mishap]
        /\ UNCHANGED <<world, scan, job, announced, again>>
    BY DEF CommitSave
  <1>3. mishap \subseteq {"early", "late"} /\ (job[u].phase # "off" => mishap # {})
        /\ (job[u].phase = "info" => "early" \in mishap)
    OBVIOUS
  <1>4. \A k : Upto(r, k, row.last) => k \in passed
    <2> SUFFICES ASSUME NEW k, Upto(r, k, row.last) PROVE k \in passed
      OBVIOUS
    <2>1. PICK i \in DOMAIN r, j \in DOMAIN r : i <= j /\ r[i] = k /\ r[j] = row.last
      BY DEF Upto
    <2>2. j \in i..Len(r)
      BY <1>1, <2>1 DEF RatedGood
    <2> QED BY <2>1, <2>2
  <1>5. passed \subseteq Contests
    BY <1>1 DEF RatedGood
  <1>6. NoUser \in CfUser
    BY CfAnnouncerAssumption DEF CfUser, NoUser
  <1> HIDE DEF passed, mishap
  <1>7. TypeOK'
    <2>1. epoch[u] + 1 \in 0..MaxSaves
      BY <1>1, CfAnnouncerAssumption DEF ScansInv, TypeOK
    <2> HIDE DEF row, r
    <2> QED BY <1>1, <1>2, <1>3, <1>5, <1>6, <2>1 DEF ScansInv, TypeOK, world
  <1>8. ASSUME NEW v \in Users PROVE UserGood(v)'
    <2>1. UserGood(v)
      BY DEF ScansInv
    <2>2. CASE v # u
      BY <1>2, <2>1, <2>2, SameUser DEF SameFor, world, UserGood, RowsGood, ScansInv, TypeOK
    <2>3. CASE v = u
      <3>1. /\ db'[u] = row /\ saving'[u] = NoUser /\ newer'[u] = TRUE
            /\ epoch'[u] = epoch[u] + 1 /\ base'[u] = passed
            /\ mishaps'[u] = mishaps[u] \cup mishap
            /\ UNCHANGED <<rated, scan, job, announced, again>>
        BY <1>2 DEF ScansInv, TypeOK, world
      <3>2. epoch[u] \in Nat /\ newer'[u] /\ announced \subseteq Announcement
        BY <3>1 DEF ScansInv, TypeOK
      <3> HIDE DEF row, r
      <3>3. RowGood(row)
        BY <1>1 DEF RowGood, r
      <3>4. \A e \in 0..MaxSaves, h \in Handles, k \in Contests :
               <<u, e, h, k>> \in announced => e <= epoch[u]
        BY <2>1, <2>3 DEF UserGood, RowsGood
      <3>5. RowsGood(u)'
        <4>1. RowGood(saving[u])' /\ RowGood(db[u])' /\ RowGood(job[u].row)'
          BY <2>1, <2>3, <3>1, <3>3 DEF RowGood, UserGood, RowsGood
        <4>2. \A e \in 0..MaxSaves, h \in Handles, k \in Contests :
                 <<u, e, h, k>> \in announced' => e <= epoch'[u]
          BY <3>1, <3>2, <3>4
        <4> QED BY <1>1, <2>1, <2>3, <3>1, <4>1, <4>2, CfAnnouncerAssumption
              DEF UserGood, RowsGood
      <3>6. LinkGood(u)'
        BY <1>3, <3>1, <3>2 DEF LinkGood
      <3>7. CleanGood(u)'
        <4> SUFFICES ASSUME Clean(u)' PROVE CleanGood(u)'
          BY DEF CleanGood
        <4>1. mishap = {} /\ job[u].phase = "off" /\ Clean(u)
          BY <1>3, <3>1 DEF Clean
        <4>2. \A h \in Handles, k \in Contests : <<u, epoch[u] + 1, h, k>> \notin announced
          <5> SUFFICES ASSUME NEW h \in Handles, NEW k \in Contests,
                              <<u, epoch[u] + 1, h, k>> \in announced
                       PROVE  FALSE
            OBVIOUS
          <5>1. epoch[u] + 1 \in 0..MaxSaves
            BY <1>1, <3>2, CfAnnouncerAssumption
          <5> QED BY <3>2, <3>4, <5>1
        <4>3. \A x \in again : x[1] # u
          BY <2>1, <2>3, <4>1 DEF UserGood, CleanGood
        <4> QED BY <3>1, <4>1, <4>2, <4>3 DEF CleanGood
      <3>8. HeardGood(u)'
        BY <1>4, <3>1, <3>2 DEF HeardGood, Told, r
      <3> QED BY <2>3, <3>5, <3>6, <3>7, <3>8 DEF UserGood
    <2> QED BY <2>2, <2>3
  <1> QED BY <1>2, <1>7, <1>8 DEF ScansInv, world

LEMMA BeginScanStep ==
    ASSUME ScansInv, BeginScan
    PROVE  ScansInv'
  <1>1. /\ ~ scan /\ scan' = TRUE /\ newer' = [u \in Users |-> FALSE]
        /\ job' = [u \in Users |-> IF db[u] = NoUser THEN NoJob
                                   ELSE [phase |-> "info", row |-> db[u], todo |-> <<>>]]
        /\ UNCHANGED <<rated, hidden, faults, db, saving, epoch, base, announced, again, mishaps>>
    BY DEF BeginScan, world, history
  <1>2. /\ NoUser \in CfUser /\ <<>> \in Seq(Contests)
        /\ NoJob = [phase |-> "off", row |-> NoUser, todo |-> <<>>]
    BY CfAnnouncerAssumption, EmptySeq DEF CfUser, NoUser, NoJob
  <1>3. TypeOK'
    BY <1>1, <1>2 DEF ScansInv, TypeOK
  <1>4. ASSUME NEW u \in Users PROVE UserGood(u)'
    <2>1. UserGood(u) /\ job[u].phase = "off"
      BY <1>1 DEF ScansInv, UserGood, RowsGood
    <2>2. /\ job'[u].phase = "off" => job'[u] = NoJob /\ job'[u].row = NoUser
          /\ job'[u].phase # "off" =>
               job'[u].phase = "info" /\ job'[u].row = db[u] /\ db[u] # NoUser
          /\ newer'[u] = FALSE
      BY <1>1, <1>2
    <2>3. RowsGood(u)'
      BY <1>1, <2>1, <2>2 DEF UserGood, RowsGood, RowGood
    <2>4. LinkGood(u)'
      BY <1>1, <2>2 DEF LinkGood
    <2>5. CleanGood(u)'
      BY <1>1, <2>1, <2>2 DEF UserGood, CleanGood, Clean, Mark
    <2>6. HeardGood(u)'
      BY <1>1, <2>1, <2>2 DEF UserGood, HeardGood, Heard, Told
    <2> QED BY <2>3, <2>4, <2>5, <2>6 DEF UserGood
  <1> QED BY <1>1, <1>3, <1>4 DEF ScansInv

LEMMA UserInfoFailsStep ==
    ASSUME ScansInv, NEW u \in Users, UserInfoFails(u)
    PROVE  ScansInv'
  <1> DEFINE row == Failed(job[u].row)
  <1>1. /\ job[u].phase = "info" /\ job[u].row \in CfUser /\ job[u].row.failures < MaxFailures
        /\ job[u] \in [phase : {"off", "info", "send", "done"}, row : CfUser, todo : Seq(Contests)]
    BY DEF UserInfoFails, ScansInv, TypeOK, UserGood, RowsGood
  <1>2. /\ row \in CfUser /\ row.handle = job[u].row.handle /\ row.last = job[u].row.last
    BY <1>1, CfAnnouncerAssumption DEF Failed, CfUser
  <1>3. /\ job' = [job EXCEPT ![u].phase = "done", ![u].row = row]
        /\ UNCHANGED <<world, db, saving, scan, newer, history>>
    BY <1>1 DEF UserInfoFails, ScansInv, TypeOK
  <1> HIDE DEF row
  <1>4. /\ job'[u] = [job[u] EXCEPT !.phase = "done", !.row = row]
        /\ \A v \in Users : v # u => job'[v] = job[v]
    BY <1>3 DEF ScansInv, TypeOK
  <1>5. job'[u].phase = "done" /\ job'[u].row = row
    BY <1>1, <1>4
  <1>6. TypeOK'
    BY <1>1, <1>2, <1>3 DEF ScansInv, TypeOK, world, history
  <1>7. ASSUME NEW v \in Users PROVE UserGood(v)'
    <2>1. UserGood(v)
      BY DEF ScansInv
    <2>2. CASE v # u
      BY <1>3, <1>4, <2>1, <2>2, SameUser DEF SameFor, world, history, UserGood, RowsGood
    <2>3. CASE v = u
      <3>1. RowsGood(u)'
        BY <1>1, <1>2, <1>3, <1>5, <2>1, <2>3, CfAnnouncerAssumption
        DEF UserGood, RowsGood, RowGood, world, history, NoUser
      <3>2. LinkGood(u)'
        BY <1>1, <1>2, <1>3, <1>5, <2>1, <2>3 DEF UserGood, LinkGood, world, history
      <3>3. Clean(u) => ~ newer[u] /\ row.handle = db[u].handle /\ row.last = db[u].last
        BY <1>1, <1>2, <2>1, <2>3 DEF UserGood, LinkGood, CleanGood, Clean
      <3>4. CleanGood(u)'
        BY <1>1, <1>3, <1>5, <2>1, <2>3, <3>3
        DEF UserGood, CleanGood, Clean, Mark, world, history
      <3>5. Heard(u) /\ ~ newer[u] =>
              row.handle = db[u].handle /\ row.last = db[u].last /\ db[u] # NoUser
        BY <1>1, <1>2, <2>1, <2>3 DEF UserGood, LinkGood, RowsGood, Heard
      <3>6. HeardGood(u)'
        <4> SUFFICES ASSUME Heard(u)' PROVE HeardGood(u)'
          BY DEF HeardGood
        <4>1. Heard(u) /\ (db[u] # NoUser => Told(u, db[u], {}))
          BY <1>3, <2>1, <2>3 DEF UserGood, HeardGood, Heard, history
        <4>2. ~ newer[u] => Told(u, row, {})
          BY <3>5, <4>1 DEF Told
        <4>3. ASSUME db'[u] # NoUser PROVE Told(u, db[u], {})'
          BY <1>3, <4>1, <4>3 DEF Told, world, history
        <4>4. ASSUME ~ newer'[u] PROVE Told(u, job[u].row, {})'
          BY <1>3, <1>5, <4>2, <4>4 DEF Told, world, history
        <4> QED BY <1>5, <4>3, <4>4 DEF HeardGood
      <3> QED BY <2>3, <3>1, <3>2, <3>4, <3>6 DEF UserGood
    <2> QED BY <2>2, <2>3
  <1> QED BY <1>3, <1>6, <1>7 DEF ScansInv, world

LEMMA UserInfoStep ==
    ASSUME ScansInv, NEW u \in Users, UserInfo(u)
    PROVE  ScansInv'
  <1> DEFINE row == job[u].row
             h == row.handle
             r == rated[h]
             new == NewChanges(RatingChanges(h), row.last)
             mark == IF new = <<>> THEN row.last ELSE Head(new)
             mishap == (IF row.last = NoContest /\ Len(new) > 1 THEN {"first"} ELSE {})
                         \cup (IF hidden[h] = {} THEN {} ELSE {"hidden"})
             after == [phase |-> "send", row |-> [row EXCEPT !.last = mark], todo |-> new]
  <1>1. /\ job[u].phase = "info" /\ row \in CfUser /\ h \in Handles
        /\ row.last \in Contests \cup {NoContest} /\ row.failures < MaxFailures
        /\ db[u] # NoUser /\ scan /\ RatedGood(r)
    BY DEF UserInfo, ScansInv, TypeOK, CfUser, UserGood, RowsGood
  <1>2. Known(r, row.last)
    BY <1>1, CfAnnouncerAssumption DEF ScansInv, UserGood, RowsGood, RowGood, NoUser
  <1>3. /\ new \in Seq(Contests)
        /\ mark \in Contests \cup {NoContest} /\ Known(r, mark)
        /\ \A k \in ToSet(new) : ~ Upto(r, k, row.last)
        /\ row.last # NoContest \/ Len(new) <= 1 =>
             /\ \A k \in ToSet(new) : Upto(r, k, mark)
             /\ \A k : Upto(r, k, row.last) => Upto(r, k, mark)
        /\ hidden[h] = {} =>
             \A k : Upto(r, k, mark) => Upto(r, k, row.last) \/ k \in ToSet(new)
    <2>1. RatedGood(rated[h]) /\ row.last \in Contests \cup {NoContest} /\ Known(rated[h], row.last)
      BY <1>1, <1>2
    <2> HIDE DEF row
    <2> QED BY <1>1, <2>1, UpdateTakesNew
  <1>4. /\ job' = [job EXCEPT ![u] = after] /\ newer' = [newer EXCEPT ![u] = FALSE]
        /\ mishaps' = [mishaps EXCEPT ![u] = @ \cup mishap]
        /\ UNCHANGED <<rated, hidden, faults, db, saving, scan, epoch, base, announced, again>>
    <2>1. /\ mishaps' = [mishaps EXCEPT ![u] = @
                            \cup (IF row.last = NoContest /\ Len(new) > 1 THEN {"first"} ELSE {})
                            \cup (IF hidden[h] = {} THEN {} ELSE {"hidden"})]
          /\ job' = [job EXCEPT ![u] =
                       [phase |-> "send",
                        row |-> [row EXCEPT !.last = IF new = <<>> THEN @ ELSE Head(new)],
                        todo |-> new]]
          /\ newer' = [newer EXCEPT ![u] = FALSE]
          /\ UNCHANGED <<rated, hidden, faults, db, saving, scan, epoch, base, announced, again>>
      BY DEF UserInfo, world
    <2> HIDE DEF new
    <2>2. mishaps[u] \cup mishap
            = mishaps[u] \cup (IF row.last = NoContest /\ Len(new) > 1 THEN {"first"} ELSE {})
                         \cup (IF hidden[h] = {} THEN {} ELSE {"hidden"})
      OBVIOUS
    <2> HIDE DEF mishap
    <2> QED BY <2>1, <2>2
  <1>5. /\ mishap \subseteq {"first", "hidden"}
        /\ "first" \notin mishap => row.last # NoContest \/ Len(new) <= 1
        /\ "hidden" \notin mishap => hidden[h] = {}
    <2>1. Len(new) \in Nat
      BY <1>3
    <2> HIDE DEF new
    <2> QED BY <2>1
  <1> HIDE DEF new, mark, mishap
  <1>6. /\ [row EXCEPT !.last = mark] \in CfUser
        /\ [row EXCEPT !.last = mark].handle = h /\ [row EXCEPT !.last = mark].last = mark
        /\ [row EXCEPT !.last = mark].failures = row.failures
    BY <1>1, <1>3 DEF CfUser
  <1>7. TypeOK'
    <2>1. after \in [phase : {"off", "info", "send", "done"}, row : CfUser, todo : Seq(Contests)]
      BY <1>3, <1>6
    <2> HIDE DEF after, row
    <2> QED BY <1>4, <1>5, <2>1 DEF ScansInv, TypeOK
  <1>8. ASSUME NEW v \in Users PROVE UserGood(v)'
    <2>1. UserGood(v)
      BY DEF ScansInv
    <2>2. CASE v # u
      BY <1>4, <2>1, <2>2, SameUser DEF SameFor, UserGood, RowsGood, ScansInv, TypeOK
    <2>3. CASE v = u
      <3>1. /\ job'[u] = after /\ newer'[u] = FALSE /\ mishaps'[u] = mishaps[u] \cup mishap
            /\ UNCHANGED <<rated, db, saving, scan, epoch, base, announced, again>>
        BY <1>4 DEF ScansInv, TypeOK
      <3>2. /\ job'[u].phase = "send" /\ job'[u].todo = new
            /\ job'[u].row.handle = h /\ job'[u].row.last = mark
            /\ job'[u].row.failures = row.failures
        <4>1. /\ after.phase = "send" /\ after.todo = new
              /\ after.row = [row EXCEPT !.last = mark]
          OBVIOUS
        <4> HIDE DEF after, row
        <4> QED BY <1>6, <3>1, <4>1
      <3>3. "early" \notin mishaps[u] => row = db[u]
        BY <1>1, <2>1, <2>3 DEF UserGood, LinkGood
      <3> HIDE DEF after
      <3>4. RowsGood(u)'
        BY <1>1, <1>3, <2>1, <2>3, <3>1, <3>2 DEF UserGood, RowsGood, RowGood
      <3>5. LinkGood(u)'
        BY <2>1, <2>3, <3>1, <3>2, <3>3 DEF UserGood, LinkGood
      <3>6. CleanGood(u)'
        <4> SUFFICES ASSUME Clean(u)' PROVE CleanGood(u)'
          BY DEF CleanGood
        <4>1. Clean(u) /\ (row.last # NoContest \/ Len(new) <= 1) /\ row = db[u]
          BY <1>5, <3>1, <3>3 DEF Clean
        <4>2. /\ \A x \in again : x[1] # u
              /\ \A g \in Handles, k \in Contests :
                   <<u, epoch[u], g, k>> \in announced =>
                       g = db[u].handle /\ Upto(rated[g], k, db[u].last)
          BY <1>1, <2>1, <2>3, <4>1 DEF UserGood, CleanGood, Mark
        <4>3. /\ \A k \in ToSet(new) : ~ Upto(r, k, db[u].last) /\ Upto(r, k, mark)
              /\ \A k \in Contests : Upto(r, k, db[u].last) => Upto(r, k, mark)
          BY <1>3, <4>1
        <4> HIDE DEF row
        <4> QED BY <3>1, <3>2, <4>2, <4>3 DEF CleanGood, Mark
      <3>7. HeardGood(u)'
        <4> SUFFICES ASSUME Heard(u)' PROVE HeardGood(u)'
          BY DEF HeardGood
        <4>1. Heard(u) /\ hidden[h] = {} /\ row = db[u]
          BY <1>5, <3>1, <3>3 DEF Heard
        <4>2. Told(u, db[u], {})
          BY <1>1, <2>1, <2>3, <4>1 DEF UserGood, HeardGood
        <4>3. Told(u, db[u], {})'
          BY <3>1, <4>2 DEF Told
        <4>4. \A k \in Contests : Upto(r, k, mark) =>
                 k \in base[u] \/ <<u, epoch[u], h, k>> \in announced \/ k \in ToSet(new)
          BY <1>3, <4>1, <4>2 DEF Told
        <4>5. Told(u, job[u].row, ToSet(job[u].todo))'
          <5> HIDE DEF row
          <5> QED BY <3>1, <3>2, <4>4 DEF Told
        <4> QED BY <3>2, <4>3, <4>5 DEF HeardGood
      <3> QED BY <2>3, <3>4, <3>5, <3>6, <3>7 DEF UserGood
    <2> QED BY <2>2, <2>3
  <1> QED BY <1>4, <1>7, <1>8 DEF ScansInv

(* What an announcement adds is of the user, the saving and the handle.    *)
LEMMA AnnounceStep ==
    ASSUME ScansInv, NEW u \in Users, job[u].row.handle \in Handles,
           NEW some \in SUBSET Contests, Announce(u, some)
    PROVE  /\ announced' \subseteq Announcement /\ again' \subseteq announced'
           /\ \A v \in Users \ {u} :
                /\ \A e, h, k : <<v, e, h, k>> \in announced' <=> <<v, e, h, k>> \in announced
                /\ \A x \in again' : x[1] = v => x \in again
           /\ \A e, h, k : <<u, e, h, k>> \in announced' <=>
                \/ <<u, e, h, k>> \in announced
                \/ e = epoch[u] /\ h = job[u].row.handle /\ k \in some
           /\ \A x \in again' : x \in again \/
                \E k \in some : <<u, epoch[u], job[u].row.handle, k>> \in announced
  <1> DEFINE new == {<<u, epoch[u], job[u].row.handle, k>> : k \in some}
  <1>1. announced' = announced \cup new /\ again' = again \cup (announced \cap new)
    BY DEF Announce
  <1>2. announced \subseteq Announcement /\ again \subseteq announced /\ epoch[u] \in 0..MaxSaves
    BY DEF ScansInv, TypeOK
  <1>3. new \subseteq Announcement
    BY <1>2 DEF Announcement
  <1>4. \A v, e, h, k : <<v, e, h, k>> \in new <=>
          v = u /\ e = epoch[u] /\ h = job[u].row.handle /\ k \in some
    OBVIOUS
  <1>5. \A x \in new : x[1] = u /\ \E k \in some : x = <<u, epoch[u], job[u].row.handle, k>>
    OBVIOUS
  <1> HIDE DEF new
  <1>6. announced' \subseteq Announcement /\ again' \subseteq announced'
    BY <1>1, <1>2, <1>3
  <1>7. ASSUME NEW v \in Users \ {u}
        PROVE  /\ \A e, h, k : <<v, e, h, k>> \in announced' <=> <<v, e, h, k>> \in announced
               /\ \A x \in again' : x[1] = v => x \in again
    BY <1>1, <1>4, <1>5, <1>7
  <1>8. \A e, h, k : <<u, e, h, k>> \in announced' <=>
          \/ <<u, e, h, k>> \in announced
          \/ e = epoch[u] /\ h = job[u].row.handle /\ k \in some
    BY <1>1, <1>4
  <1>9. \A x \in again' : x \in again \/
          \E k \in some : <<u, epoch[u], job[u].row.handle, k>> \in announced
    BY <1>1, <1>5
  <1> QED BY <1>6, <1>7, <1>8, <1>9

(* The count of the failures is a field of its own.                        *)
LEMMA RowWithFailures ==
    ASSUME NEW row \in CfUser, NEW n \in 0..MaxFailures
    PROVE  /\ [row EXCEPT !.failures = n] \in CfUser
           /\ [row EXCEPT !.failures = n].handle = row.handle
           /\ [row EXCEPT !.failures = n].last = row.last
           /\ [row EXCEPT !.failures = n].failures = n
  BY DEF CfUser

LEMMA JobDone ==
    ASSUME NEW jobs \in [Users -> [phase : {"off", "info", "send", "done"},
                                   row : CfUser, todo : Seq(Contests)]],
           NEW u \in Users, NEW row
    PROVE  /\ [jobs EXCEPT ![u].phase = "done", ![u].row = row][u].phase = "done"
           /\ [jobs EXCEPT ![u].phase = "done", ![u].row = row][u].row = row
  OBVIOUS

(* An update whose sending ended: all was sent, or it is a mishap.         *)
LEMMA SentStep ==
    ASSUME ScansInv, NEW u \in Users, job[u].phase = "send",
           NEW some \in SUBSET ToSet(job[u].todo), Announce(u, some),
           NEW row \in CfUser, row.handle = job[u].row.handle, row.last = job[u].row.last,
           NEW mishap \in SUBSET {"send"}, mishap = {} => some = ToSet(job[u].todo),
           job' = [job EXCEPT ![u].phase = "done", ![u].row = row],
           mishaps' = [mishaps EXCEPT ![u] = @ \cup mishap], faults' \in 0..MaxFaults,
           UNCHANGED <<rated, hidden, db, saving, scan, newer, epoch, base>>
    PROVE  ScansInv'
  <1> DEFINE h == job[u].row.handle
             r == rated[h]
  <1>1. /\ h \in Handles /\ db[u] # NoUser /\ job[u].todo \in Seq(Contests) /\ scan
        /\ job[u] \in [phase : {"off", "info", "send", "done"}, row : CfUser, todo : Seq(Contests)]
    BY DEF ScansInv, TypeOK, UserGood, RowsGood
  <1>2. \A k \in some : k \in Contests /\ k \in ToSet(job[u].todo)
    BY <1>1 DEF ToSet
  <1>3. /\ announced' \subseteq Announcement /\ again' \subseteq announced'
        /\ \A v \in Users \ {u} :
             /\ \A e, g, k : <<v, e, g, k>> \in announced' <=> <<v, e, g, k>> \in announced
             /\ \A x \in again' : x[1] = v => x \in again
        /\ \A e, g, k : <<u, e, g, k>> \in announced' <=>
             \/ <<u, e, g, k>> \in announced
             \/ e = epoch[u] /\ g = h /\ k \in some
        /\ \A x \in again' : x \in again \/ \E k \in some : <<u, epoch[u], h, k>> \in announced
    BY <1>1, <1>2, AnnounceStep
  <1>4. /\ job'[u] = [job[u] EXCEPT !.phase = "done", !.row = row]
        /\ \A v \in Users : v # u => job'[v] = job[v]
        /\ mishaps'[u] = mishaps[u] \cup mishap
        /\ \A v \in Users : v # u => mishaps'[v] = mishaps[v]
    BY DEF ScansInv, TypeOK
  <1> HIDE DEF h, r
  <1>5. job'[u].phase = "done" /\ job'[u].row = row
    BY <1>1, JobDone DEF ScansInv, TypeOK
  <1>6. TypeOK'
    <2>1. job' \in [Users -> [phase : {"off", "info", "send", "done"},
                              row : CfUser, todo : Seq(Contests)]]
      BY <1>1 DEF ScansInv, TypeOK
    <2>2. mishaps' \in [Users -> SUBSET {"first", "hidden", "limit", "early", "late",
                                         "send", "crash"}]
      BY DEF ScansInv, TypeOK
    <2> QED BY <1>3, <2>1, <2>2 DEF ScansInv, TypeOK
  <1>7. ASSUME NEW v \in Users PROVE UserGood(v)'
    <2>1. UserGood(v)
      BY DEF ScansInv
    <2>2. CASE v # u
      <3>1. SameFor(v)
        BY <1>3, <1>4, <2>1, <2>2 DEF SameFor, UserGood, RowsGood
      <3> QED BY <2>1, <3>1, SameUser
    <2>3. CASE v = u
      <3>1. epoch[u] \in 0..MaxSaves /\ epoch[u] \in Nat
        BY CfAnnouncerAssumption DEF ScansInv, TypeOK
      <3>2. \A e \in 0..MaxSaves, g \in Handles, k \in Contests :
               <<u, e, g, k>> \in announced' => e <= epoch'[u]
        BY <1>3, <2>1, <2>3, <3>1 DEF UserGood, RowsGood
      <3>3. RowsGood(u)'
        BY <1>1, <1>5, <2>1, <2>3, <3>2, CfAnnouncerAssumption
        DEF UserGood, RowsGood, RowGood, NoUser, h
      <3>4. LinkGood(u)'
        BY <1>4, <1>5, <2>1, <2>3 DEF UserGood, LinkGood
      <3>5. CleanGood(u)'
        <4> SUFFICES ASSUME Clean(u)' PROVE CleanGood(u)'
          BY DEF CleanGood
        <4>1. Clean(u) /\ "early" \notin mishaps[u]
          BY <1>4 DEF Clean
        <4>2. ~ newer[u] /\ h = db[u].handle
          BY <2>1, <2>3, <4>1 DEF UserGood, CleanGood, LinkGood, h
        <4>3. /\ \A x \in again : x[1] # u
              /\ \A g \in Handles, k \in Contests :
                   <<u, epoch[u], g, k>> \in announced =>
                       g = db[u].handle /\ Upto(rated[g], k, db[u].last)
              /\ \A k \in ToSet(job[u].todo) : ~ Upto(r, k, db[u].last) /\ Upto(r, k, row.last)
              /\ \A k \in Contests : Upto(r, k, db[u].last) => Upto(r, k, row.last)
          BY <2>1, <2>3, <4>1 DEF UserGood, CleanGood, Mark, h, r
        <4>4. \A x \in again' : x[1] # u
          BY <1>1, <1>2, <1>3, <4>2, <4>3 DEF h, r
        <4>5. \A g \in Handles, k \in Contests :
                 <<u, epoch[u], g, k>> \in announced' => g = db[u].handle /\ Upto(rated[g], k, row.last)
          BY <1>2, <1>3, <4>2, <4>3 DEF r
        <4> QED BY <1>5, <4>2, <4>4, <4>5 DEF CleanGood, Mark
      <3>6. HeardGood(u)'
        <4> SUFFICES ASSUME Heard(u)' PROVE HeardGood(u)'
          BY DEF HeardGood
        <4>1. Heard(u) /\ some = ToSet(job[u].todo)
          BY <1>4 DEF Heard
        <4>2. Told(u, db[u], {})'
          BY <1>1, <1>3, <2>1, <2>3, <4>1 DEF UserGood, HeardGood, Told
        <4>3. ASSUME ~ newer[u] PROVE Told(u, row, {})'
          <5>1. Told(u, job[u].row, some)
            BY <2>1, <2>3, <4>1, <4>3 DEF UserGood, HeardGood
          <5> QED BY <1>3, <5>1 DEF Told, h
        <4>4. ASSUME ~ newer'[u] PROVE Told(u, job[u].row, {})'
          BY <1>5, <4>3, <4>4 DEF Told
        <4> QED BY <1>5, <4>2, <4>4 DEF HeardGood
      <3> QED BY <2>3, <3>3, <3>4, <3>5, <3>6 DEF UserGood
    <2> QED BY <2>2, <2>3
  <1> QED BY <1>6, <1>7 DEF ScansInv

LEMMA SendStep ==
    ASSUME ScansInv, NEW u \in Users, Send(u)
    PROVE  ScansInv'
  <1> DEFINE row == [job[u].row EXCEPT !.failures = 0]
  <1>1. /\ job \in [Users -> [phase : {"off", "info", "send", "done"},
                              row : CfUser, todo : Seq(Contests)]]
        /\ job[u].row \in CfUser /\ faults \in 0..MaxFaults /\ mishaps[u] \cup {} = mishaps[u]
        /\ mishaps = [mishaps EXCEPT ![u] = mishaps[u]]
    BY DEF ScansInv, TypeOK
  <1>2. row \in CfUser /\ row.handle = job[u].row.handle /\ row.last = job[u].row.last
    <2>1. 0 \in 0..MaxFailures
      BY CfAnnouncerAssumption
    <2> QED BY <1>1, <2>1, RowWithFailures
  <1>3. job' = [job EXCEPT ![u].phase = "done", ![u].row = row]
    BY <1>1 DEF Send
  <1> HIDE DEF row
  <1>4. mishaps' = [mishaps EXCEPT ![u] = @ \cup {}]
    BY <1>1 DEF Send
  <1>5. ToSet(job[u].todo) \in SUBSET ToSet(job[u].todo) /\ {} \in SUBSET {"send"}
    OBVIOUS
  <1>6. /\ job[u].phase = "send" /\ Announce(u, ToSet(job[u].todo)) /\ faults' \in 0..MaxFaults
        /\ UNCHANGED <<rated, hidden, db, saving, scan, newer, epoch, base>>
    BY <1>1 DEF Send, world
  <1> QED BY <1>1, <1>2, <1>3, <1>4, <1>5, <1>6, SentStep

LEMMA SendFailsStep ==
    ASSUME ScansInv, NEW u \in Users, SendFails(u)
    PROVE  ScansInv'
  <1> DEFINE row == Failed(job[u].row)
  <1>1. /\ job \in [Users -> [phase : {"off", "info", "send", "done"},
                              row : CfUser, todo : Seq(Contests)]]
        /\ job[u].phase = "send" /\ job[u].row \in CfUser /\ job[u].row.failures < MaxFailures
    BY DEF SendFails, ScansInv, TypeOK, UserGood, RowsGood
  <1>2. row \in CfUser /\ row.handle = job[u].row.handle /\ row.last = job[u].row.last
    <2>1. job[u].row.failures + 1 \in 0..MaxFailures
      BY <1>1, CfAnnouncerAssumption DEF CfUser
    <2> QED BY <1>1, <2>1, RowWithFailures DEF Failed
  <1>3. job' = [job EXCEPT ![u].phase = "done", ![u].row = row]
    BY <1>1 DEF SendFails
  <1> HIDE DEF row
  <1>4. faults' \in 0..MaxFaults
    BY CfAnnouncerAssumption DEF SendFails, Fault, ScansInv, TypeOK
  <1>5. PICK some \in SUBSET ToSet(job[u].todo) : Announce(u, some)
    BY DEF SendFails
  <1> QED BY <1>1, <1>2, <1>3, <1>4, <1>5, SentStep DEF SendFails

LEMMA EndScanStep ==
    ASSUME ScansInv, EndScan
    PROVE  ScansInv'
  <1>1. /\ \A u \in Users : job[u].phase \in {"off", "done"}
        /\ scan' = FALSE /\ job' = [u \in Users |-> NoJob]
        /\ db' = [u \in Users |-> IF job[u].phase = "off" \/ KeepsStored(u)
                                  THEN db[u] ELSE job[u].row]
        /\ mishaps' = [u \in Users |-> mishaps[u] \cup
                         (IF job[u].row.failures >= MaxFailures THEN {"limit"} ELSE {})]
        /\ UNCHANGED <<rated, hidden, faults, saving, newer, epoch, base, announced, again>>
    BY DEF EndScan, world
  <1>2. /\ NoJob \in [phase : {"off", "info", "send", "done"}, row : CfUser, todo : Seq(Contests)]
        /\ NoJob.phase = "off" /\ NoJob.row = NoUser
    BY CfAnnouncerAssumption, EmptySeq DEF NoJob, CfUser, NoUser
  <1>3. TypeOK'
    <2>1. db' \in [Users -> CfUser]
      BY <1>1 DEF ScansInv, TypeOK
    <2>2. mishaps' \in [Users -> SUBSET {"first", "hidden", "limit", "early", "late",
                                         "send", "crash"}]
      BY <1>1 DEF ScansInv, TypeOK
    <2> QED BY <1>1, <1>2, <2>1, <2>2 DEF ScansInv, TypeOK
  <1>4. ASSUME NEW u \in Users PROVE UserGood(u)'
    <2>1. /\ UserGood(u) /\ job[u].row \in CfUser /\ db[u] \in CfUser
          /\ job[u].row.failures \in 0..MaxFailures
      BY DEF ScansInv, TypeOK, CfUser
    <2>2. job'[u] = NoJob
      BY <1>1
    <2>3. \/ db'[u] = db[u] /\ (job[u].phase = "off" \/ KeepsStored(u))
          \/ /\ db'[u] = job[u].row /\ job[u].phase = "done"
             /\ ~ newer[u] /\ job[u].row.failures < MaxFailures
      BY <1>1, <2>1, CfAnnouncerAssumption DEF KeepsStored
    <2>4. mishaps[u] \subseteq mishaps'[u] /\ mishaps'[u] \subseteq mishaps[u] \cup {"limit"}
      BY <1>1
    <2>5. RowsGood(u)'
      BY <1>1, <1>2, <2>1, <2>2, <2>3 DEF UserGood, RowsGood, RowGood
    <2>6. LinkGood(u)'
      BY <1>2, <2>2 DEF LinkGood
    <2>7. CleanGood(u)'
      <3> SUFFICES ASSUME Clean(u)' PROVE CleanGood(u)'
        BY DEF CleanGood
      <3>1. Clean(u) /\ "early" \notin mishaps[u] /\ job[u].row.failures < MaxFailures
        <4>1. Clean(u) /\ "early" \notin mishaps[u] /\ "limit" \notin mishaps'[u]
          BY <2>4 DEF Clean
        <4>2. ~ (job[u].row.failures >= MaxFailures)
          BY <1>1, <4>1
        <4> QED BY <2>1, <4>1, <4>2, CfAnnouncerAssumption
      <3>2. db'[u].handle = db[u].handle /\ db'[u].last = Mark(u)
        BY <1>1, <2>1, <2>3, <3>1, CfAnnouncerAssumption
        DEF UserGood, CleanGood, LinkGood, KeepsStored, Mark
      <3>3. /\ \A x \in again : x[1] # u
            /\ \A h \in Handles, k \in Contests :
                 <<u, epoch[u], h, k>> \in announced =>
                     h = db[u].handle /\ Upto(rated[h], k, Mark(u))
        BY <2>1, <3>1 DEF UserGood, CleanGood
      <3> QED BY <1>1, <1>2, <2>2, <3>2, <3>3 DEF CleanGood, Mark
    <2>8. HeardGood(u)'
      <3> SUFFICES ASSUME Heard(u)', db'[u] # NoUser PROVE Told(u, db[u], {})'
        BY <1>2, <2>2 DEF HeardGood
      <3>1. Heard(u)
        BY <2>4 DEF Heard
      <3>2. Told(u, db[u], {}) \/ db[u] = NoUser
        BY <2>1, <3>1 DEF UserGood, HeardGood
      <3>3. CASE db'[u] = db[u]
        BY <1>1, <3>2, <3>3 DEF Told
      <3>4. CASE db'[u] = job[u].row /\ job[u].phase = "done" /\ ~ newer[u]
        <4>1. Told(u, job[u].row, {})
          BY <2>1, <3>1, <3>4 DEF UserGood, HeardGood
        <4> QED BY <1>1, <3>4, <4>1 DEF Told
      <3> QED BY <2>3, <3>3, <3>4
    <2> QED BY <2>5, <2>6, <2>7, <2>8 DEF UserGood
  <1> QED BY <1>1, <1>3, <1>4 DEF ScansInv

LEMMA CrashStep ==
    ASSUME ScansInv, Crash
    PROVE  ScansInv'
  <1>1. /\ scan' = FALSE /\ job' = [u \in Users |-> NoJob] /\ saving' = [u \in Users |-> NoUser]
        /\ mishaps' = [u \in Users |->
                         mishaps[u] \cup (IF job[u].phase = "off" THEN {} ELSE {"crash"})]
        /\ UNCHANGED <<rated, hidden, db, newer, epoch, base, announced, again>>
    BY DEF Crash
  <1>2. /\ NoJob \in [phase : {"off", "info", "send", "done"}, row : CfUser, todo : Seq(Contests)]
        /\ NoJob.phase = "off" /\ NoJob.row = NoUser /\ NoUser \in CfUser
    BY CfAnnouncerAssumption, EmptySeq DEF NoJob, CfUser, NoUser
  <1>3. TypeOK'
    <2>1. faults' \in 0..MaxFaults
      BY CfAnnouncerAssumption DEF Crash, Fault, ScansInv, TypeOK
    <2>2. mishaps' \in [Users -> SUBSET {"first", "hidden", "limit", "early", "late",
                                         "send", "crash"}]
      BY <1>1 DEF ScansInv, TypeOK
    <2> QED BY <1>1, <1>2, <2>1, <2>2 DEF ScansInv, TypeOK
  <1>4. ASSUME NEW u \in Users PROVE UserGood(u)'
    <2>1. UserGood(u)
      BY DEF ScansInv
    <2>2. /\ job'[u] = NoJob /\ saving'[u] = NoUser /\ mishaps[u] \subseteq mishaps'[u]
          /\ job[u].phase # "off" => "crash" \in mishaps'[u]
      BY <1>1
    <2>3. RowsGood(u)'
      BY <1>1, <1>2, <2>1, <2>2 DEF UserGood, RowsGood, RowGood
    <2>4. LinkGood(u)'
      BY <1>2, <2>2 DEF LinkGood
    <2>5. CleanGood(u)'
      <3> SUFFICES ASSUME Clean(u)' PROVE CleanGood(u)'
        BY DEF CleanGood
      <3>1. Clean(u) /\ job[u].phase = "off"
        BY <2>2 DEF Clean
      <3> QED BY <1>1, <1>2, <2>1, <2>2, <3>1 DEF UserGood, CleanGood, Mark
    <2>6. HeardGood(u)'
      BY <1>1, <1>2, <2>1, <2>2 DEF UserGood, HeardGood, Heard, Told
    <2> QED BY <2>3, <2>4, <2>5, <2>6 DEF UserGood
  <1> QED BY <1>1, <1>3, <1>4 DEF ScansInv

LEMMA NextScans == ScansInv /\ [Next]_vars => ScansInv'
  <1> SUFFICES ASSUME ScansInv, [Next]_vars PROVE ScansInv'
    OBVIOUS
  <1>1. CASE World
    BY <1>1, RateStep, RollBackStep DEF World
  <1>2. CASE \E u \in Users, h \in Handles : BeginSave(u, h)
    BY <1>2, BeginSaveStep
  <1>3. CASE \E u \in Users : CommitSave(u)
    BY <1>3, CommitSaveStep
  <1>4. CASE BeginScan
    BY <1>4, BeginScanStep
  <1>5. CASE \E u \in Users : UserInfo(u) \/ UserInfoFails(u) \/ Send(u) \/ SendFails(u)
    BY <1>5, UserInfoStep, UserInfoFailsStep, SendStep, SendFailsStep
  <1>6. CASE EndScan
    BY <1>6, EndScanStep
  <1>7. CASE Crash
    BY <1>7, CrashStep
  <1>8. CASE UNCHANGED vars
    <2>1. UNCHANGED <<rated, hidden, faults, db, saving, scan, job, newer, epoch, base,
                      announced, again, mishaps>>
      BY <1>8 DEF vars, world, history
    <2>2. ASSUME NEW u \in Users PROVE UserGood(u)'
      <3>1. UserGood(u)
        BY DEF ScansInv
      <3>2. SameFor(u)
        BY <2>1, <3>1 DEF SameFor, UserGood, RowsGood
      <3> QED BY <2>1, <3>1, <3>2, SameUser
    <2> QED BY <2>1, <2>2 DEF ScansInv, TypeOK
  <1> QED BY <1>1, <1>2, <1>3, <1>4, <1>5, <1>6, <1>7, <1>8 DEF Next

-----------------------------------------------------------------------------
(* Theorems *)

(* Every variable of the announcer keeps its type, whatever is saved,      *)
(* rolled back or fails: above all the failures of a row stay below the    *)
(* limit from which it is not written back.                                *)
THEOREM CfAnnouncerTypes == Spec => []TypeOK
  <1>1. ScansInv => TypeOK
    BY DEF ScansInv
  <1> QED BY InitScans, NextScans, <1>1, PTL DEF Spec

(* Within one saving a rating change is announced twice only after one of  *)
(* the mishaps (update_user's last_contest_id, updates).                   *)
THEOREM CfRepeatsNeedAMishap == Spec => []RepeatsNeedAMishap
  <1>1. ScansInv => RepeatsNeedAMishap
    <2> SUFFICES ASSUME ScansInv, NEW x \in again
                 PROVE  mishaps[x[1]] \cap {"first", "limit", "early", "late", "crash"} # {}
      BY DEF RepeatsNeedAMishap
    <2>1. x[1] \in Users
      BY DEF ScansInv, TypeOK, Announcement
    <2> QED BY <2>1 DEF ScansInv, UserGood, CleanGood, Clean
  <1> QED BY InitScans, NextScans, <1>1, PTL DEF Spec

(* What the stored row of a user has passed was announced, unless a        *)
(* sending failed, it was rolled back when Codeforces was asked, or the    *)
(* user was saved too early (update_user).                                 *)
THEOREM CfNoChangeSkipped == Spec => []NoChangeSkipped
  <1>1. ScansInv => NoChangeSkipped
    <2> SUFFICES ASSUME ScansInv, NEW u \in Users, db[u] # NoUser,
                        mishaps[u] \cap {"send", "hidden", "early"} = {},
                        NEW i \in DOMAIN rated[db[u].handle], NEW j \in DOMAIN rated[db[u].handle],
                        i <= j, rated[db[u].handle][j] = db[u].last,
                        rated[db[u].handle][i] \notin base[u]
                 PROVE  <<u, epoch[u], db[u].handle, rated[db[u].handle][i]>> \in announced
      BY DEF NoChangeSkipped
    <2>1. UserGood(u)
      BY DEF ScansInv
    <2>2. Told(u, db[u], {})
      BY <2>1 DEF UserGood, HeardGood, Heard
    <2>3. db[u].handle \in Handles
      BY <2>1 DEF UserGood, RowsGood, RowGood
    <2>4. rated[db[u].handle][i] \in Contests
      BY <2>3 DEF ScansInv, TypeOK
    <2> QED BY <2>2, <2>4 DEF Told, Upto
  <1> QED BY InitScans, NextScans, <1>1, PTL DEF Spec

(* A scan puts an older handle back only when the save ended before the    *)
(* update of the user got its answers (updates, last_update).              *)
THEOREM CfLateSaveWins == Spec => LateSaveWins
  <1>1. ScansInv /\ [Next]_vars =>
          [\A u \in Users : db[u] # NoUser /\ db'[u].handle # db[u].handle
              => epoch'[u] # epoch[u] \/ "early" \in mishaps[u]]_vars
    <2> SUFFICES ASSUME ScansInv, Next, NEW u \in Users,
                        db[u] # NoUser, db'[u].handle # db[u].handle
                 PROVE  epoch'[u] # epoch[u] \/ "early" \in mishaps[u]
      OBVIOUS
    <2>1. CASE \E v \in Users : CommitSave(v)
      <3>1. PICK v \in Users : CommitSave(v)
        BY <2>1
      <3>2. v = u
        BY <3>1 DEF CommitSave, ScansInv, TypeOK
      <3>3. epoch[u] \in Nat /\ epoch'[u] = epoch[u] + 1
        BY <3>1, <3>2, CfAnnouncerAssumption DEF CommitSave, ScansInv, TypeOK
      <3> QED BY <3>3
    <2>2. CASE EndScan
      <3>1. db'[u] = job[u].row /\ job[u].phase # "off" /\ ~ newer[u]
        BY <2>2 DEF EndScan, KeepsStored
      <3>2. LinkGood(u)
        BY DEF ScansInv, UserGood
      <3> QED BY <3>1, <3>2 DEF LinkGood
    <2>3. CASE UNCHANGED db
      BY <2>3
    <2>4. \/ \E v \in Users : CommitSave(v)
          \/ EndScan
          \/ UNCHANGED db
      BY DEF Next, World, Rate, RollBack, Restore, BeginSave, BeginScan, UserInfo,
             UserInfoFails, Send, SendFails, Crash
    <2> QED BY <2>1, <2>2, <2>3, <2>4
  <1> QED BY InitScans, NextScans, <1>1, PTL DEF Spec, LateSaveWins

-----------------------------------------------------------------------------
(* The contest cache and the live watches *)

Phases == {"before", "coding", "testing", "finished"}
Places == {"none", "asking", "standings", "list", "refresh", "fetching", "fetched", "read",
           "sleeping", "starting", "watching", "over"}

Call == [at : Places, kind : {"watch", "link"}, contest : Watched, copy : SUBSET ListCopy,
         until : 0..(MaxClock + Grace), phase : Phases, followed : SUBSET Coders,
         seen : [Coders -> Result], told : [Coders -> {"nothing", "passed", "failed"}],
         lost : SUBSET Coders]

(* Every submission that is rejected makes the solution worth less, and    *)
(* only a solution that may still fail is in the queue.                    *)
ResultGood(r) ==
    /\ r \in Result
    /\ r.worth > 0 => r.worth = Worth - r.rejected
    /\ r.queued => r.worth > 0 /\ ~r.final

(* How a result changes while a contest goes on: rejections are counted,   *)
(* the queue is left as a success or with one more of them, and after the  *)
(* coding a solution fails for good.                                       *)
Later(old, new, phase) ==
    /\ old.rejected <= new.rejected
    /\ old.queued /\ ~new.queued => new.worth > 0 \/ old.rejected < new.rejected
    /\ phase # "coding" /\ new.worth = 0 /\ old.worth > 0 => new.final

(* A solution with points was told of as a success, and a success without  *)
(* points is in the queue.                                                 *)
ToldGood(c) ==
    \A h \in c.followed :
        /\ ResultGood(c.seen[h])
        /\ h \notin c.lost =>
             /\ Points(c.seen[h]) > 0 => c.told[h] = "passed"
             /\ c.told[h] = "passed" /\ Points(c.seen[h]) = 0 => c.seen[h].queued

(* What is true of a call by itself, and of one that follows the contest.  *)
CallGood(c) ==
    /\ c \in Call
    /\ c.at \notin {"watching", "over"} =>
         c.followed = {} /\ c.seen = NoCall.seen /\ c.told = NoCall.told
    /\ c.at \in {"sleeping", "starting", "watching"} => c.kind = "watch"
    /\ ToldGood(c)

FollowsGood(c) ==
    c.at = "watching" =>
        /\ site[c.contest].phase # "before"
        /\ site[c.contest].phase = "coding" => c.phase = "coding"
        /\ \A h \in c.followed : Later(c.seen[h], results[c.contest][h], c.phase)

WorldGood ==
    /\ clock \in Time
    /\ site \in [Watched -> Round]
    /\ results \in [Watched -> [Coders -> Result]]
    /\ \A k \in Watched : \A h \in Coders :
         /\ ResultGood(results[k][h])
         /\ results[k][h].queued => site[k].phase \notin {"before", "coding"}

CallsGood ==
    /\ watch \in [Watches -> Call]
    /\ \A w \in Watches : CallGood(watch[w]) /\ FollowsGood(watch[w])

(* Who fetches the list holds its lock, and nobody holds a list that is    *)
(* older than the one stored.                                              *)
ListGood ==
    /\ list \in ListCopy /\ list.taken <= clock
    /\ writer \in Watches \cup {NoWatch}
    /\ \A w \in Watches : writer = w <=> watch[w].at \in {"fetching", "fetched"}
    /\ \A w \in Watches : \A c \in watch[w].copy :
         watch[w].at = "fetched" /\ list.taken <= c.taken /\ c.taken <= clock

(* The contests with a watch are the watched ones, and have only one.      *)
WatchingGood ==
    /\ known \subseteq Watched
    /\ watching \subseteq Watched
    /\ \A k \in Watched : k \in watching <=> \E w \in Watches : w \in WatchesOf(k)
    /\ \A k \in Watched : \A v, w \in WatchesOf(k) : v = w

ContestInv == WorldGood /\ CallsGood /\ ListGood /\ WatchingGood

-----------------------------------------------------------------------------
(* Facts about results and calls *)

LEMMA NoResultGood == ResultGood(NoResult) /\ Points(NoResult) = 0
  BY ContestWatchAssumption DEF ResultGood, Result, NoResult, Points

LEMMA NoCallGood == CallGood(NoCall) /\ FollowsGood(NoCall)
  <1>1. NoCall \in Call
    <2>1. (CHOOSE k \in Watched : TRUE) \in Watched
      BY ContestWatchAssumption
    <2>2. [h \in Coders |-> NoResult] \in [Coders -> Result]
      BY NoResultGood DEF ResultGood
    <2> QED BY <2>1, <2>2, ContestWatchAssumption DEF NoCall, Call, Places, Phases
  <1>2. NoCall.at = "none" /\ NoCall.followed = {}
    BY DEF NoCall
  <1> QED BY <1>1, <1>2 DEF CallGood, FollowsGood, ToldGood

LEMMA CallType ==
    ASSUME NEW w \in Watches, ContestInv
    PROVE  watch[w] \in Call /\ watch \in [Watches -> Call]
  BY DEF ContestInv, CallsGood

-----------------------------------------------------------------------------
(* One call goes on *)

(* What is said of all calls stays true when it is true of the new one.    *)
LEMMA OneCall ==
    ASSUME ContestInv, NEW w \in Watches, NEW c, CallGood(c), FollowsGood(c),
           watch' = [watch EXCEPT ![w] = c], UNCHANGED codeforces
    PROVE  WorldGood' /\ CallsGood'
  <1>1. WorldGood'
    BY DEF ContestInv, WorldGood, codeforces
  <1>2. watch' \in [Watches -> Call]
    BY DEF ContestInv, CallsGood, CallGood
  <1>3. \A v \in Watches : CallGood(watch'[v]) /\ FollowsGood(watch'[v])
    BY DEF ContestInv, CallsGood
  <1>4. \A v \in Watches : FollowsGood(watch[v])'
    <2> TAKE v \in Watches
    <2>1. FollowsGood(watch'[v]) /\ site' = site /\ results' = results
      BY <1>3 DEF codeforces
    <2> QED BY <2>1 DEF FollowsGood
  <1>5. \A v \in Watches : CallGood(watch[v])'
    <2> TAKE v \in Watches
    <2>1. CallGood(watch'[v])
      BY <1>3
    <2> QED BY <2>1 DEF CallGood, ToldGood
  <1> QED BY <1>1, <1>2, <1>4, <1>5 DEF CallsGood

(* A call that is still running is or is not a watch, as it was.           *)
LEMMA SameWatch ==
    ASSUME ContestInv, NEW w \in Watches, NEW c, Running(w),
           c.kind = watch[w].kind, c.contest = watch[w].contest, c.at \notin {"none", "over"},
           watch' = [watch EXCEPT ![w] = c], watching' = watching, known' \subseteq Watched
    PROVE  WatchingGood'
  <1>1. watch \in [Watches -> Call]
    BY CallType
  <1>2. \A k \in Watched : WatchesOf(k)' = WatchesOf(k)
    BY <1>1 DEF WatchesOf, Running
  <1> QED BY <1>2 DEF ContestInv, WatchingGood

(* A call that is over is no watch.                                        *)
LEMMA WatchIsOver ==
    ASSUME ContestInv, NEW w \in Watches, NEW c, Running(w), c.at = "over",
           watch' = [watch EXCEPT ![w] = c], known' \subseteq Watched,
           watching' = IF watch[w].kind = "watch" THEN watching \ {watch[w].contest} ELSE watching
    PROVE  WatchingGood'
  <1>1. watch \in [Watches -> Call] /\ watch[w] \in Call
    BY CallType
  <1>2. \A k \in Watched : WatchesOf(k)' = WatchesOf(k) \ {w}
    BY <1>1 DEF WatchesOf, Running
  <1>3. CASE watch[w].kind = "watch"
    <2>1. w \in WatchesOf(watch[w].contest) /\ watch[w].contest \in Watched
      BY <1>1, <1>3 DEF WatchesOf, Call
    <2>2. WatchesOf(watch[w].contest) = {w}
      BY <2>1 DEF ContestInv, WatchingGood
    <2>3. \A k \in Watched : k # watch[w].contest => w \notin WatchesOf(k)
      BY DEF WatchesOf
    <2> QED BY <1>2, <1>3, <2>2, <2>3, <1>1 DEF ContestInv, WatchingGood, Call
  <1>4. CASE watch[w].kind # "watch"
    <2>1. \A k \in Watched : w \notin WatchesOf(k)
      BY <1>4 DEF WatchesOf
    <2> QED BY <1>2, <1>4, <2>1 DEF ContestInv, WatchingGood
  <1> QED BY <1>3, <1>4

(* A call that has nothing to do with the lock of the list.                *)
LEMMA SameList ==
    ASSUME ContestInv, NEW w \in Watches, NEW c, c.copy = {},
           watch[w].at \notin {"fetching", "fetched"}, c.at \notin {"fetching", "fetched"},
           watch' = [watch EXCEPT ![w] = c], UNCHANGED <<list, writer, clock>>
    PROVE  ListGood'
  <1>1. watch \in [Watches -> Call]
    BY CallType
  <1> QED BY <1>1 DEF ContestInv, ListGood

(* No call but the writer, with the list it fetched, has a copy.           *)
LEMMA NoCopy ==
    ASSUME ContestInv, NEW w \in Watches, watch[w].at # "fetched"
    PROVE  watch[w].copy = {}
  BY DEF ContestInv, ListGood

(* A call that ends, wherever it was.                                      *)
LEMMA EndStep ==
    ASSUME ContestInv, NEW w \in Watches, Running(w), End(w),
           UNCHANGED <<codeforces, list>>, known' \subseteq Watched
    PROVE  ContestInv'
  <1> DEFINE c == [watch[w] EXCEPT !.at = "over", !.copy = {}, !.until = 0]
  <1>1. watch[w] \in Call /\ watch \in [Watches -> Call]
    BY CallType
  <1>2. watch' = [watch EXCEPT ![w] = c]
    BY <1>1 DEF End, Call
  <1>3. CallGood(c)
    <2>1. c \in Call
      <3>1. 0 \in 0..(MaxClock + Grace)
        BY ContestWatchAssumption
      <3> QED BY <1>1, <3>1 DEF Call, Places
    <2>2. c.at = "over" /\ c.followed = watch[w].followed /\ c.seen = watch[w].seen
          /\ c.told = watch[w].told /\ c.lost = watch[w].lost
      BY <1>1 DEF Call
    <2>3. ToldGood(watch[w])
      BY DEF ContestInv, CallsGood, CallGood
    <2> HIDE DEF c
    <2> QED BY <2>1, <2>2, <2>3 DEF CallGood, ToldGood
  <1>4. c.at = "over" /\ c.copy = {}
    BY <1>1 DEF Call
  <1> HIDE DEF c
  <1>5. WorldGood' /\ CallsGood'
    BY <1>2, <1>3, <1>4, OneCall DEF FollowsGood
  <1>6. WatchingGood'
    BY <1>2, <1>4, WatchIsOver DEF End
  <1>7. ListGood'
    <2>1. list' = list /\ clock' = clock /\ writer' = IF writer = w THEN NoWatch ELSE writer
      BY DEF End, codeforces
    <2>2. \A v \in Watches : v # w => watch'[v] = watch[v]
      BY <1>1, <1>2
    <2>3. watch'[w] = c
      BY <1>1, <1>2
    <2>4. \A v \in Watches : writer' = v <=> watch'[v].at \in {"fetching", "fetched"}
      BY <1>4, <2>1, <2>2, <2>3, ContestWatchAssumption DEF ContestInv, ListGood
    <2>5. \A v \in Watches : \A x \in watch'[v].copy :
             watch'[v].at = "fetched" /\ list.taken <= x.taken /\ x.taken <= clock
      BY <1>4, <2>2, <2>3 DEF ContestInv, ListGood
    <2> QED BY <2>1, <2>4, <2>5 DEF ContestInv, ListGood
  <1> QED BY <1>5, <1>6, <1>7 DEF ContestInv

(* A call that goes on to a step without the lock, before a watch follows  *)
(* its contest.                                                            *)
LEMMA GoOnStep ==
    ASSUME ContestInv, NEW w \in Watches, NEW step, Running(w), GoOn(w, step),
           watch[w].at \notin {"fetching", "fetched", "watching"},
           step \in {"standings", "list", "refresh", "read", "starting"},
           step = "starting" => watch[w].kind = "watch",
           UNCHANGED <<codeforces, list>>, known' \subseteq Watched
    PROVE  ContestInv'
  <1> DEFINE c == [watch[w] EXCEPT !.at = step]
  <1>1. watch[w] \in Call /\ watch \in [Watches -> Call] /\ CallGood(watch[w])
    BY CallType DEF ContestInv, CallsGood
  <1>2. watch' = [watch EXCEPT ![w] = c]
    BY <1>1 DEF GoOn, At, Call
  <1>3. /\ c \in Call /\ c.at = step /\ c.kind = watch[w].kind
        /\ c.contest = watch[w].contest /\ c.copy = watch[w].copy
        /\ c.followed = watch[w].followed /\ c.seen = watch[w].seen /\ c.told = watch[w].told
    BY <1>1 DEF Call, Places
  <1>4. watch[w].at \notin {"watching", "over"} /\ watch[w].copy = {}
    BY NoCopy DEF Running
  <1> HIDE DEF c
  <1>5. CallGood(c)
    BY <1>1, <1>3, <1>4 DEF CallGood, ToldGood
  <1>6. FollowsGood(c)
    BY <1>3 DEF FollowsGood
  <1>7. WorldGood' /\ CallsGood'
    BY <1>2, <1>5, <1>6, OneCall
  <1>8. WatchingGood'
    BY <1>2, <1>3, SameWatch DEF GoOn
  <1>9. ListGood'
    BY <1>2, <1>3, <1>4, SameList DEF GoOn, codeforces
  <1> QED BY <1>7, <1>8, <1>9 DEF ContestInv

-----------------------------------------------------------------------------
(* The steps of the cache *)

LEMMA FoundStep ==
    ASSUME ContestInv, NEW w \in Watches, Running(w), Found(w),
           watch[w].at \notin {"fetching", "fetched", "watching"},
           UNCHANGED <<codeforces, list>>, known' \subseteq Watched
    PROVE  ContestInv'
  <1>1. watch[w].kind \in {"watch", "link"}
    BY CallType DEF Call
  <1> QED BY <1>1, EndStep, GoOnStep DEF Found

LEMMA KnownStep ==
    ASSUME ContestInv, NEW w \in Watches
    PROVE  known \subseteq Watched /\ watch[w].contest \in Watched
  BY CallType DEF ContestInv, WatchingGood, Call

LEMMA AskSteps ==
    ASSUME ContestInv, NEW w \in Watches, Recall(w) \/ AskStandings(w) \/ CheckListAge(w)
    PROVE  ContestInv'
  <1>1. known \subseteq Watched /\ watch[w].contest \in Watched
    BY KnownStep
  <1>2. CASE Recall(w)
    BY <1>1, <1>2, FoundStep, GoOnStep DEF Recall, Running
  <1>3. CASE AskStandings(w)
    <2>1. known' \subseteq Watched /\ Running(w) /\ UNCHANGED <<codeforces, list>>
      BY <1>1, <1>3 DEF AskStandings, Running
    <2>2. Found(w) \/ GoOn(w, "list") \/ End(w)
      BY <1>3 DEF AskStandings
    <2>3. watch[w].at = "standings"
      BY <1>3 DEF AskStandings
    <2> QED BY <2>1, <2>2, <2>3, FoundStep, GoOnStep, EndStep
  <1>4. CASE CheckListAge(w)
    BY <1>1, <1>4, GoOnStep DEF CheckListAge, Running
  <1> QED BY <1>2, <1>3, <1>4

LEMMA LockListStep ==
    ASSUME ContestInv, NEW w \in Watches, LockList(w)
    PROVE  ContestInv'
  <1> DEFINE c == [watch[w] EXCEPT !.at = "fetching"]
  <1>1. watch[w] \in Call /\ watch \in [Watches -> Call] /\ CallGood(watch[w])
    BY CallType DEF ContestInv, CallsGood
  <1>2. watch' = [watch EXCEPT ![w] = c] /\ watch[w].at = "refresh" /\ Running(w)
    BY <1>1 DEF LockList, At, Call, Running
  <1>3. /\ c \in Call /\ c.at = "fetching" /\ c.kind = watch[w].kind
        /\ c.contest = watch[w].contest /\ c.copy = watch[w].copy
        /\ c.followed = watch[w].followed /\ c.seen = watch[w].seen /\ c.told = watch[w].told
    BY <1>1 DEF Call, Places
  <1> HIDE DEF c
  <1>4. CallGood(c) /\ FollowsGood(c)
    BY <1>1, <1>2, <1>3 DEF CallGood, ToldGood, FollowsGood
  <1>5. WorldGood' /\ CallsGood'
    BY <1>2, <1>4, OneCall DEF LockList
  <1>6. WatchingGood'
    BY <1>2, <1>3, SameWatch, KnownStep DEF LockList
  <1>7. ListGood'
    <2>1. watch[w].copy = {}
      BY <1>2, NoCopy
    <2> QED BY <1>1, <1>2, <1>3, <2>1, ContestWatchAssumption DEF ContestInv, ListGood, LockList, codeforces
  <1> QED BY <1>5, <1>6, <1>7 DEF ContestInv

LEMMA FetchListStep ==
    ASSUME ContestInv, NEW w \in Watches, FetchList(w)
    PROVE  ContestInv'
  <1> DEFINE new == [rounds |-> site, taken |-> clock, stored |-> clock]
  <1> DEFINE c == [watch[w] EXCEPT !.at = "fetched", !.copy = {new}]
  <1>1. watch[w] \in Call /\ watch \in [Watches -> Call] /\ CallGood(watch[w])
    BY CallType DEF ContestInv, CallsGood
  <1>2. watch[w].at = "fetching" /\ Running(w) /\ UNCHANGED <<codeforces, list, known>>
    BY DEF FetchList, Running
  <1>3. CASE End(w)
    BY <1>2, <1>3, EndStep, KnownStep
  <1>4. CASE watch' = [watch EXCEPT ![w].at = "fetched", ![w].copy = {new}]
             /\ UNCHANGED <<watching, writer>>
    <2>1. watch' = [watch EXCEPT ![w] = c]
      BY <1>1, <1>4 DEF Call
    <2>2. new \in ListCopy /\ new.taken = clock
      BY DEF ContestInv, WorldGood, ListCopy
    <2> HIDE DEF new
    <2>3. /\ c \in Call /\ c.at = "fetched" /\ c.kind = watch[w].kind
          /\ c.contest = watch[w].contest /\ c.copy = {new}
          /\ c.followed = watch[w].followed /\ c.seen = watch[w].seen /\ c.told = watch[w].told
      BY <1>1, <2>2 DEF Call, Places
    <2> HIDE DEF c
    <2>4. CallGood(c) /\ FollowsGood(c)
      BY <1>1, <1>2, <2>3 DEF CallGood, ToldGood, FollowsGood
    <2>5. WorldGood' /\ CallsGood'
      BY <1>2, <2>1, <2>4, OneCall
    <2>6. WatchingGood'
      BY <1>2, <1>4, <2>1, <2>3, SameWatch, KnownStep
    <2>7. ListGood'
      <3>1. list' = list /\ clock' = clock /\ writer' = writer /\ clock <= clock
        BY <1>2, <1>4 DEF codeforces, ContestInv, WorldGood, Time
      <3> QED BY <1>1, <1>2, <2>1, <2>2, <2>3, <3>1 DEF ContestInv, ListGood
    <2> QED BY <2>5, <2>6, <2>7 DEF ContestInv
  <1> QED BY <1>3, <1>4 DEF FetchList

LEMMA StoreListStep ==
    ASSUME ContestInv, NEW w \in Watches, StoreList(w)
    PROVE  ContestInv' /\ list'.taken >= list.taken
  <1> DEFINE c == [watch[w] EXCEPT !.at = "read", !.copy = {}]
  <1>1. watch[w] \in Call /\ watch \in [Watches -> Call] /\ CallGood(watch[w])
    BY CallType DEF ContestInv, CallsGood
  <1>2. watch[w].at = "fetched" /\ Running(w) /\ UNCHANGED <<codeforces, known, watching>>
        /\ writer' = NoWatch
    BY DEF StoreList, Running
  <1>3. watch' = [watch EXCEPT ![w] = c]
    BY <1>1 DEF Call, StoreList
  <1>4. /\ c \in Call /\ c.at = "read" /\ c.kind = watch[w].kind
        /\ c.contest = watch[w].contest /\ c.copy = {}
        /\ c.followed = watch[w].followed /\ c.seen = watch[w].seen /\ c.told = watch[w].told
    BY <1>1 DEF Call, Places
  <1>5. PICK new \in watch[w].copy : list' = [new EXCEPT !.stored = clock]
    BY DEF StoreList
  <1>6. new \in ListCopy /\ new.taken >= list.taken /\ new.taken <= clock /\ clock \in Time
    <2>1. new \in ListCopy
      BY <1>1 DEF Call
    <2> QED BY <2>1 DEF ContestInv, ListGood, WorldGood, ListCopy, Time
  <1>7. list' \in ListCopy /\ list'.taken = new.taken
    BY <1>5, <1>6 DEF ListCopy
  <1> HIDE DEF c
  <1>8. CallGood(c) /\ FollowsGood(c)
    BY <1>1, <1>2, <1>4 DEF CallGood, ToldGood, FollowsGood
  <1>9. WorldGood' /\ CallsGood'
    BY <1>2, <1>3, <1>8, OneCall
  <1>10. WatchingGood'
    BY <1>2, <1>3, <1>4, SameWatch, KnownStep
  <1>11. ListGood'
    <2>1. \A v \in Watches : v # w => watch[v].at \notin {"fetching", "fetched"} /\ watch[v].copy = {}
      BY <1>2 DEF ContestInv, ListGood
    <2>2. \A v \in Watches : watch'[v].at \notin {"fetching", "fetched"} /\ watch'[v].copy = {}
      BY <1>1, <1>3, <1>4, <2>1
    <2>3. clock' = clock
      BY <1>2 DEF codeforces
    <2> QED BY <1>2, <1>6, <1>7, <2>2, <2>3, ContestWatchAssumption DEF ListGood
  <1> QED BY <1>6, <1>7, <1>9, <1>10, <1>11 DEF ContestInv

LEMMA ReadListStep ==
    ASSUME ContestInv, NEW w \in Watches, ReadList(w)
    PROVE  ContestInv'
  <1> DEFINE r == list.rounds[watch[w].contest]
  <1> DEFINE c == [watch[w] EXCEPT !.at = "sleeping", !.until = r.start + Grace]
  <1>1. watch[w] \in Call /\ watch \in [Watches -> Call] /\ CallGood(watch[w])
    BY CallType DEF ContestInv, CallsGood
  <1>2. watch[w].at = "read" /\ Running(w) /\ UNCHANGED <<codeforces, list>>
        /\ known' \subseteq Watched
    BY KnownStep DEF ReadList, Running
  <1>3. CASE Found(w)
    BY <1>2, <1>3, FoundStep
  <1>4. CASE End(w)
    BY <1>2, <1>4, EndStep
  <1>5. CASE /\ watch[w].kind # "link"
             /\ watch' = [watch EXCEPT ![w].at = "sleeping", ![w].until = r.start + Grace]
             /\ UNCHANGED <<watching, writer>>
    <2>1. r \in Round
      BY <1>1 DEF ContestInv, ListGood, ListCopy, Call
    <2>2. r.start + Grace \in 0..(MaxClock + Grace)
      BY <2>1, ContestWatchAssumption DEF Round, Time
    <2>3. watch' = [watch EXCEPT ![w] = c]
      BY <1>1, <1>5 DEF Call
    <2> HIDE DEF r
    <2>4. /\ c \in Call /\ c.at = "sleeping" /\ c.kind = "watch" /\ c.kind = watch[w].kind
          /\ c.contest = watch[w].contest /\ c.copy = watch[w].copy
          /\ c.followed = watch[w].followed /\ c.seen = watch[w].seen /\ c.told = watch[w].told
      BY <1>1, <1>5, <2>2 DEF Call, Places
    <2> HIDE DEF c
    <2>5. CallGood(c) /\ FollowsGood(c) /\ watch[w].copy = {}
      BY <1>1, <1>2, <2>4, NoCopy DEF CallGood, ToldGood, FollowsGood
    <2>6. WorldGood' /\ CallsGood'
      BY <1>2, <2>3, <2>5, OneCall
    <2>7. WatchingGood'
      BY <1>2, <1>5, <2>3, <2>4, SameWatch
    <2>8. ListGood'
      BY <1>2, <1>5, <2>3, <2>4, <2>5, SameList DEF codeforces
    <2> QED BY <2>6, <2>7, <2>8 DEF ContestInv
  <1> QED BY <1>3, <1>4, <1>5 DEF ReadList

-----------------------------------------------------------------------------
(* Calls begin, and watches wait *)

LEMMA BeginSteps ==
    ASSUME ContestInv, NEW w \in Watches, NEW k \in Watched, BeginWatch(w, k) \/ BeginLink(w, k)
    PROVE  ContestInv'
  <1>1. PICK c : /\ \/ /\ c = [NoCall EXCEPT !.at = "asking", !.kind = "watch", !.contest = k]
                       /\ k \notin watching /\ watching' = watching \cup {k}
                    \/ /\ c = [NoCall EXCEPT !.at = "asking", !.contest = k]
                       /\ watching' = watching
                 /\ watch' = [watch EXCEPT ![w] = c]
    BY DEF BeginWatch, BeginLink
  <1>2. ~Running(w) /\ UNCHANGED <<codeforces, known, list, writer>>
    BY DEF BeginWatch, BeginLink
  <1>3. NoCall \in Call /\ NoCall.followed = {} /\ NoCall.copy = {} /\ NoCall.kind = "link"
    BY NoCallGood DEF CallGood, NoCall
  <1>4. /\ c \in Call /\ c.at = "asking" /\ c.contest = k /\ c.copy = {}
        /\ c.followed = {} /\ c.seen = NoCall.seen /\ c.told = NoCall.told
        /\ c.kind = "watch" => k \notin watching /\ watching' = watching \cup {k}
        /\ c.kind # "watch" => watching' = watching
    BY <1>1, <1>3 DEF Call, Places
  <1>5. CallGood(c) /\ FollowsGood(c)
    BY <1>4 DEF CallGood, ToldGood, FollowsGood
  <1>6. WorldGood' /\ CallsGood'
    BY <1>1, <1>2, <1>5, OneCall
  <1>7. watch \in [Watches -> Call]
    BY CallType
  <1>8. ListGood'
    <2>1. watch[w].at \notin {"fetching", "fetched"}
      BY <1>2 DEF Running
    <2> QED BY <1>1, <1>2, <1>4, <2>1, SameList DEF codeforces
  <1>9. WatchingGood'
    <2>1. \A q \in Watched : WatchesOf(q)' =
             IF q = k /\ c.kind = "watch" THEN WatchesOf(q) \cup {w} ELSE WatchesOf(q)
      BY <1>1, <1>2, <1>4, <1>7 DEF WatchesOf, Running
    <2>2. c.kind = "watch" => WatchesOf(k) = {}
      BY <1>4 DEF ContestInv, WatchingGood, WatchesOf
    <2> QED BY <1>2, <1>4, <2>1, <2>2 DEF ContestInv, WatchingGood
  <1> QED BY <1>6, <1>8, <1>9 DEF ContestInv

LEMMA WaitSteps ==
    ASSUME ContestInv, NEW w \in Watches, WakeToWatch(w) \/ MessageFails(w) \/ ScanFails(w)
    PROVE  ContestInv'
  <1>1. known \subseteq Watched
    BY KnownStep
  <1>2. CASE WakeToWatch(w)
    <2>1. watch[w].kind = "watch"
      BY <1>2 DEF ContestInv, CallsGood, CallGood, WakeToWatch
    <2> QED BY <1>1, <1>2, <2>1, GoOnStep DEF WakeToWatch, Running
  <1>3. CASE MessageFails(w) \/ ScanFails(w)
    <2>1. End(w) /\ Running(w) /\ UNCHANGED <<codeforces, known, list>>
      BY <1>3 DEF MessageFails, ScanFails, Running
    <2> QED BY <1>1, <2>1, EndStep
  <1> QED BY <1>2, <1>3

LEMMA StartWatchingStep ==
    ASSUME ContestInv, NEW w \in Watches, StartWatching(w)
    PROVE  ContestInv'
  <1> DEFINE k == watch[w].contest
  <1>1. watch[w] \in Call /\ watch \in [Watches -> Call] /\ CallGood(watch[w]) /\ k \in Watched
    BY CallType, KnownStep DEF ContestInv, CallsGood
  <1>2. watch[w].at = "starting" /\ Running(w) /\ UNCHANGED <<codeforces, known, list>>
        /\ known' \subseteq Watched
    BY KnownStep DEF StartWatching, Running
  <1>3. CASE End(w)
    BY <1>2, <1>3, EndStep
  <1>4. ASSUME site[k].phase # "before", NEW f \in SUBSET Coders,
               watch' = [watch EXCEPT ![w] = [@ EXCEPT !.at = "watching", !.until = 0,
                                              !.phase = site[k].phase, !.followed = f]],
               UNCHANGED <<watching, writer>>
        PROVE  ContestInv'
    <2> DEFINE c == [watch[w] EXCEPT !.at = "watching", !.until = 0,
                                     !.phase = site[k].phase, !.followed = f]
    <2>1. watch' = [watch EXCEPT ![w] = c]
      BY <1>1, <1>4
    <2>2. site[k].phase \in Phases /\ 0 \in 0..(MaxClock + Grace)
      BY <1>1, ContestWatchAssumption DEF ContestInv, WorldGood, Round, Phases
    <2>3. /\ c \in Call /\ c.at = "watching" /\ c.kind = watch[w].kind
          /\ c.contest = k /\ c.copy = watch[w].copy /\ c.phase = site[k].phase
          /\ c.followed = f /\ c.seen = watch[w].seen /\ c.told = watch[w].told
      BY <1>1, <2>2 DEF Call, Places
    <2> HIDE DEF c
    <2>4. c.seen = [h \in Coders |-> NoResult] /\ c.told = [h \in Coders |-> "nothing"]
          /\ watch[w].copy = {}
      BY <1>1, <1>2, <2>3, NoCopy DEF CallGood, NoCall
    <2>5. CallGood(c)
      <3>1. \A h \in f : h \in Coders /\ c.seen[h] = NoResult /\ c.told[h] = "nothing"
        BY <2>4
      <3>2. ToldGood(c)
        BY <2>3, <3>1, NoResultGood DEF ToldGood
      <3> QED BY <1>1, <1>2, <2>3, <3>2 DEF CallGood
    <2>6. FollowsGood(c)
      <3>1. ASSUME NEW h \in f PROVE Later(NoResult, results[k][h], c.phase)
        <4>1. results[k][h] \in Result
          BY <1>1, <3>1 DEF ContestInv, WorldGood
        <4> QED BY <4>1, ContestWatchAssumption DEF Later, NoResult, Result
      <3>2. \A h \in f : h \in Coders /\ c.seen[h] = NoResult
        BY <2>4
      <3> QED BY <1>4, <2>3, <3>1, <3>2 DEF FollowsGood
    <2>7. WorldGood' /\ CallsGood'
      BY <1>2, <2>1, <2>5, <2>6, OneCall
    <2>8. WatchingGood'
      BY <1>2, <1>4, <2>1, <2>3, SameWatch
    <2>9. ListGood'
      <3>1. UNCHANGED <<list, writer, clock>> /\ c.copy = {}
        BY <1>2, <1>4, <2>3, <2>4 DEF codeforces
      <3> QED BY <1>2, <2>1, <2>3, <3>1, SameList
    <2> QED BY <2>7, <2>8, <2>9 DEF ContestInv
  <1> QED BY <1>3, <1>4 DEF StartWatching

-----------------------------------------------------------------------------
(* A scan tells what has changed *)

(* What was true of what a coder was told is true again after a scan: the  *)
(* verdict of a change agrees with the points, and no change was passed    *)
(* over that leaves another verdict standing.                              *)
LEMMA ChangeIsTold ==
    ASSUME NEW old, NEW new, NEW phase, NEW told,
           ResultGood(old), ResultGood(new), Later(old, new, phase),
           Points(old) > 0 => told = "passed",
           told = "passed" /\ Points(old) = 0 => old.queued
    PROVE  LET change == AnalyzeChange(phase, old, new)
               now == IF change # "nothing" THEN change ELSE told
           IN  /\ change \in {"nothing", "passed", "failed"}
               /\ Points(new) > 0 => now = "passed"
               /\ now = "passed" /\ Points(new) = 0 => new.queued
  <1>1. /\ old.worth \in Nat /\ new.worth \in Nat /\ old.rejected \in Nat /\ new.rejected \in Nat
        /\ old.queued \in BOOLEAN /\ new.queued \in BOOLEAN
        /\ old.final \in BOOLEAN /\ new.final \in BOOLEAN
        /\ Worth \in Nat
    BY ContestWatchAssumption DEF ResultGood, Result
  <1>2. Points(old) \in Nat /\ Points(new) \in Nat
    BY <1>1 DEF Points
  <1> DEFINE change == AnalyzeChange(phase, old, new)
  <1>3. CASE Points(old) = Points(new) /\ new.rejected > old.rejected
    <2>1. change = "failed"
      BY <1>1, <1>3 DEF AnalyzeChange
    <2>2. Points(new) = 0
      <3>1. SUFFICES ASSUME Points(new) > 0 PROVE FALSE
        BY <1>2
      <3>2. old.worth = Points(new) /\ new.worth = Points(new)
        BY <3>1, <1>3, <1>1 DEF Points
      <3>3. old.worth = Worth - old.rejected /\ new.worth = Worth - new.rejected
        BY <3>1, <3>2, <1>1 DEF ResultGood
      <3> QED BY <3>2, <3>3, <1>1, <1>3
    <2> QED BY <2>1, <2>2
  <1>4. CASE Points(old) = Points(new) /\ new.rejected <= old.rejected
    <2>1. change = IF old.final # new.final /\ Points(new) > 0 THEN "passed" ELSE "nothing"
      BY <1>1, <1>4 DEF AnalyzeChange
    <2>2. CASE Points(new) > 0
      BY <1>4, <2>1, <2>2
    <2>3. CASE Points(new) = 0
      <3>1. change = "nothing"
        BY <2>1, <2>3
      <3>2. told = "passed" => old.queued
        BY <1>4, <2>3
      <3>3. old.queued /\ ~new.queued => new.worth > 0
        BY <1>1, <1>4 DEF Later
      <3>4. new.worth > 0 => new.queued
        BY <2>3, <1>1 DEF Points
      <3> QED BY <3>1, <3>2, <3>3, <3>4, <2>3
    <2> QED BY <1>2, <2>2, <2>3
  <1>5. CASE Points(old) # Points(new) /\ Points(new) = 0
    <2>1. change = IF new.final \/ phase = "coding" THEN "failed" ELSE "nothing"
      BY <1>5 DEF AnalyzeChange
    <2>2. old.worth > 0
      BY <1>1, <1>5 DEF Points
    <2>3. ~new.final /\ phase # "coding" => new.worth > 0
      BY <1>1, <2>2 DEF Later
    <2>4. new.worth > 0 => new.queued
      BY <1>5, <1>1 DEF Points
    <2> QED BY <1>5, <2>1, <2>3, <2>4
  <1>6. CASE Points(old) # Points(new) /\ Points(new) # 0
    <2>1. change = "passed"
      BY <1>6 DEF AnalyzeChange
    <2> QED BY <1>6, <2>1
  <1> QED BY <1>1, <1>3, <1>4, <1>5, <1>6

LEMMA ScanStep ==
    ASSUME ContestInv, NEW w \in Watches, ScanChanges(w)
    PROVE  ContestInv'
  <1> DEFINE k == watch[w].contest
             change(h) == Verdict(w, watch[w].phase, h)
             changed == ChangedCoders(w, watch[w].phase)
             done == site[k].phase = "finished"
  <1>1. watch[w] \in Call /\ watch \in [Watches -> Call] /\ CallGood(watch[w])
        /\ FollowsGood(watch[w]) /\ k \in Watched
    BY CallType, KnownStep DEF ContestInv, CallsGood
  <1>2. watch[w].at = "watching" /\ Running(w) /\ UNCHANGED <<codeforces, known, list, writer>>
        /\ known' \subseteq Watched /\ watch[w].kind = "watch" /\ watch[w].copy = {}
    BY KnownStep, NoCopy, <1>1 DEF ScanChanges, ScanBy, Running, CallGood
  <1>3. PICK lost \in SUBSET changed :
          /\ watch' = [watch EXCEPT ![w] = Scanned(w, watch[w].phase, lost)]
          /\ watching' = IF done THEN watching \ {k} ELSE watching
    BY DEF ScanChanges, ScanBy
  <1> DEFINE seen == [h \in Coders |-> IF h \in watch[w].followed THEN results[k][h] ELSE NoResult]
             told == [h \in Coders |-> IF h \in changed \ lost THEN change(h) ELSE watch[w].told[h]]
             c == Scanned(w, watch[w].phase, lost)
  <1>4. watch' = [watch EXCEPT ![w] = c]
    BY <1>3
  <1>5. \A h \in Coders : results[k][h] \in Result /\ ResultGood(results[k][h])
    BY <1>1 DEF ContestInv, WorldGood
  <1>6. ASSUME NEW h \in watch[w].followed
        PROVE  /\ h \in Coders
               /\ change(h) \in {"nothing", "passed", "failed"}
               /\ h \notin watch[w].lost \cup lost =>
                    /\ Points(results[k][h]) > 0 => told[h] = "passed"
                    /\ told[h] = "passed" /\ Points(results[k][h]) = 0 => results[k][h].queued
    <2>1. h \in Coders
      BY <1>1 DEF Call
    <2>2. ResultGood(watch[w].seen[h]) /\ Later(watch[w].seen[h], results[k][h], watch[w].phase)
      BY <1>1, <1>2 DEF CallGood, ToldGood, FollowsGood
    <2>3. h \notin watch[w].lost =>
             /\ Points(watch[w].seen[h]) > 0 => watch[w].told[h] = "passed"
             /\ watch[w].told[h] = "passed" /\ Points(watch[w].seen[h]) = 0 => watch[w].seen[h].queued
      BY <1>1 DEF CallGood, ToldGood
    <2>4. h \notin lost => told[h] = IF change(h) # "nothing" THEN change(h) ELSE watch[w].told[h]
      BY <2>1 DEF ChangedCoders
    <2>5. change(h) = AnalyzeChange(watch[w].phase, watch[w].seen[h], results[k][h])
      BY DEF Verdict
    <2>6. ResultGood(results[k][h])
      BY <1>5, <2>1
    <2>7. change(h) \in {"nothing", "passed", "failed"}
      BY <2>5 DEF AnalyzeChange
    <2> HIDE DEF told, change, changed
    <2>8. ASSUME h \notin watch[w].lost \cup lost
          PROVE  /\ Points(results[k][h]) > 0 => told[h] = "passed"
                 /\ told[h] = "passed" /\ Points(results[k][h]) = 0 => results[k][h].queued
      BY <2>2, <2>3, <2>4, <2>5, <2>6, <2>8, ChangeIsTold
    <2> QED BY <2>1, <2>7, <2>8
  <1>7. seen \in [Coders -> Result]
    BY <1>5, NoResultGood DEF ResultGood
  <1>8. told \in [Coders -> {"nothing", "passed", "failed"}]
    BY <1>1, <1>6 DEF Call, ChangedCoders
  <1>9. lost \subseteq Coders /\ site[k].phase \in Phases
    BY <1>1, <1>3 DEF Call, ContestInv, WorldGood, Round, Phases, ChangedCoders
  <1>10. /\ c \in Call /\ c.at \in {"watching", "over"} /\ c.kind = "watch" /\ c.contest = k
         /\ c.copy = {} /\ c.followed = watch[w].followed /\ c.phase = site[k].phase
         /\ c.seen = seen /\ c.told = told /\ c.lost = watch[w].lost \cup lost
         /\ c.at = "over" <=> done
    <2>1. watch[w].lost \cup lost \subseteq Coders
      BY <1>1, <1>9 DEF Call
    <2>2. c = [watch[w] EXCEPT !.at = IF done THEN "over" ELSE "watching",
                               !.phase = site[k].phase, !.seen = seen, !.told = told,
                               !.lost = watch[w].lost \cup lost]
      BY DEF Scanned
    <2> HIDE DEF seen, told, done, c
    <2> QED BY <1>1, <1>2, <1>7, <1>8, <1>9, <2>1, <2>2 DEF Call, Places
  <1>11. CallGood(c)
    <2>1. \A h \in watch[w].followed : seen[h] = results[k][h]
      BY <1>6
    <2> HIDE DEF seen, told, c
    <2>2. ToldGood(c)
      BY <1>5, <1>6, <1>10, <2>1 DEF ToldGood
    <2> QED BY <1>10, <2>2 DEF CallGood
  <1>12. FollowsGood(c)
    <2>1. \A h \in watch[w].followed : seen[h] = results[k][h]
      BY <1>6
    <2>2. ASSUME NEW h \in watch[w].followed PROVE Later(results[k][h], results[k][h], site[k].phase)
      <3>1. results[k][h] \in Result
        BY <1>5, <1>6
      <3> QED BY <3>1, ContestWatchAssumption DEF Later, Result
    <2>3. site[k].phase # "before"
      BY <1>1, <1>2 DEF FollowsGood
    <2> HIDE DEF seen, told, c
    <2> QED BY <1>10, <2>1, <2>2, <2>3 DEF FollowsGood
  <1> HIDE DEF c, seen, told, change, changed
  <1>13. WorldGood' /\ CallsGood'
    BY <1>2, <1>4, <1>11, <1>12, OneCall
  <1>14. WatchingGood'
    <2>1. CASE done
      <3>1. c.at = "over" /\ watching' = watching \ {watch[w].contest}
        BY <1>3, <1>10, <2>1
      <3> QED BY <1>2, <1>4, <3>1, WatchIsOver
    <2>2. CASE ~done
      <3>1. c.at = "watching" /\ watching' = watching
        BY <1>3, <1>10, <2>2
      <3> QED BY <1>2, <1>4, <1>10, <3>1, SameWatch
    <2> QED BY <2>1, <2>2
  <1>15. ListGood'
    <2>1. UNCHANGED <<list, writer, clock>> /\ c.at \notin {"fetching", "fetched"}
      BY <1>2, <1>10 DEF codeforces
    <2> QED BY <1>2, <1>4, <1>10, <2>1, SameList
  <1> QED BY <1>13, <1>14, <1>15 DEF ContestInv

-----------------------------------------------------------------------------
(* Codeforces goes on *)

LEMMA SameBot ==
    ASSUME ContestInv, UNCHANGED bot, clock' = clock
    PROVE  ListGood' /\ WatchingGood'
  <1>1. \A k \in Watched : WatchesOf(k)' = WatchesOf(k)
    BY DEF WatchesOf, Running, bot
  <1>2. WatchingGood'
    BY <1>1 DEF ContestInv, WatchingGood, bot
  <1> QED BY <1>2 DEF ContestInv, ListGood, bot

LEMMA PassClockStep ==
    ASSUME ContestInv, PassClock
    PROVE  ContestInv'
  <1>1. clock \in Time /\ clock' \in Time /\ clock' = clock + 1 /\ clock \in Nat
    BY ContestWatchAssumption DEF ContestInv, WorldGood, PassClock, Time
  <1>2. UNCHANGED <<site, results, known, list, writer, watching, watch>>
    BY DEF PassClock, bot
  <1>3. WorldGood'
    BY <1>1, <1>2 DEF ContestInv, WorldGood
  <1>4. CallsGood'
    BY <1>2 DEF ContestInv, CallsGood, CallGood, ToldGood, FollowsGood
  <1>5. WatchingGood'
    <2>1. \A k \in Watched : WatchesOf(k)' = WatchesOf(k)
      BY <1>2 DEF WatchesOf, Running
    <2> QED BY <1>2, <2>1 DEF ContestInv, WatchingGood
  <1>6. ListGood'
    <2>1. list.taken \in Nat
      BY DEF ContestInv, ListGood, ListCopy, Time
    <2>2. \A w \in Watches : \A c \in watch[w].copy : c.taken \in Nat
      BY CallType DEF Call, ListCopy, Time
    <2> QED BY <1>1, <1>2, <2>1, <2>2 DEF ContestInv, ListGood
  <1> QED BY <1>3, <1>4, <1>5, <1>6 DEF ContestInv

LEMMA RoundSteps ==
    ASSUME ContestInv, NEW k \in Watched, Postpone(k) \/ Advance(k)
    PROVE  ContestInv'
  <1>1. site[k] \in Round /\ site \in [Watched -> Round] /\ clock' = clock
        /\ UNCHANGED <<results, known, list, writer, watching, watch>>
    BY DEF ContestInv, WorldGood, Postpone, Advance, bot
  <1>2. PICK r \in Round :
           /\ site' = [site EXCEPT ![k] = r]
           /\ site[k].phase = "before" => r.phase \in {"before", "coding"}
           /\ site[k].phase = "coding" => r.phase = "testing"
           /\ site[k].phase \notin {"before", "coding"} => r.phase = "finished"
    <2>1. CASE Postpone(k)
      <3>1. PICK t \in Time : site' = [site EXCEPT ![k].start = t]
        BY <2>1 DEF Postpone
      <3> DEFINE r == [site[k] EXCEPT !.start = t]
      <3>2. r \in Round /\ r.phase = site[k].phase /\ site' = [site EXCEPT ![k] = r]
        BY <1>1, <3>1 DEF Round
      <3>3. site[k].phase = "before"
        BY <2>1 DEF Postpone
      <3> HIDE DEF r
      <3> QED BY <3>2, <3>3
    <2>2. CASE Advance(k)
      <3>1. PICK p \in {"coding", "testing", "finished"} :
              /\ site' = [site EXCEPT ![k].phase = p]
              /\ site[k].phase = "before" => p = "coding"
              /\ site[k].phase = "coding" => p = "testing"
              /\ site[k].phase \notin {"before", "coding"} => p = "finished"
        BY <2>2 DEF Advance
      <3> DEFINE r == [site[k] EXCEPT !.phase = p]
      <3>2. r \in Round /\ r.phase = p /\ site' = [site EXCEPT ![k] = r]
        BY <1>1, <3>1 DEF Round
      <3> HIDE DEF r
      <3> QED BY <3>1, <3>2
    <2> QED BY <2>1, <2>2
  <1>3. WorldGood'
    BY <1>1, <1>2 DEF ContestInv, WorldGood
  <1>4. CallsGood'
    <2>1. \A w \in Watches : CallGood(watch[w])'
      BY <1>1 DEF ContestInv, CallsGood, CallGood, ToldGood
    <2>2. ASSUME NEW w \in Watches PROVE FollowsGood(watch[w])'
      <3>1. FollowsGood(watch[w]) /\ watch[w].contest \in Watched
        BY KnownStep DEF ContestInv, CallsGood
      <3> QED BY <1>1, <1>2, <3>1 DEF FollowsGood
    <2> QED BY <1>1, <2>1, <2>2 DEF ContestInv, CallsGood
  <1>5. ListGood' /\ WatchingGood'
    BY <1>1, SameBot DEF bot
  <1> QED BY <1>3, <1>4, <1>5 DEF ContestInv

(* A result changes as results do.                                         *)
LEMMA ResultStep ==
    ASSUME ContestInv, NEW k \in Watched, NEW h \in Coders, NEW r,
           SetResult(k, h, r), ResultGood(r),
           r.queued => site[k].phase \notin {"before", "coding"},
           \A old, phase :
               /\ ResultGood(old) /\ Later(old, results[k][h], phase)
               /\ site[k].phase = "coding" => phase = "coding"
               => Later(old, r, phase)
    PROVE  ContestInv'
  <1>1. results' = [results EXCEPT ![k][h] = r] /\ UNCHANGED <<clock, site>> /\ UNCHANGED bot
    BY DEF SetResult
  <1>2. results' = [results EXCEPT ![k] = [results[k] EXCEPT ![h] = r]] /\ r \in Result
        /\ results \in [Watched -> [Coders -> Result]]
    BY <1>1 DEF ContestInv, WorldGood, ResultGood
  <1>3. \A q \in Watched : \A g \in Coders :
           results'[q][g] = IF q = k /\ g = h THEN r ELSE results[q][g]
    BY <1>2
  <1>4. WorldGood'
    <2>1. results' \in [Watched -> [Coders -> Result]]
      BY <1>2
    <2>2. \A q \in Watched : \A g \in Coders :
            /\ ResultGood(results'[q][g])
            /\ results'[q][g].queued => site[q].phase \notin {"before", "coding"}
      BY <1>3 DEF ContestInv, WorldGood
    <2>3. \A q \in Watched : \A g \in Coders : ResultGood(results[q][g])'
      BY <2>2 DEF ResultGood
    <2> QED BY <1>1, <2>1, <2>2, <2>3 DEF ContestInv, WorldGood
  <1>5. CallsGood'
    <2>1. watch' = watch /\ site' = site
      BY <1>1 DEF bot
    <2>2. \A w \in Watches : CallGood(watch[w])'
      BY <2>1 DEF ContestInv, CallsGood, CallGood, ToldGood
    <2>3. ASSUME NEW w \in Watches PROVE FollowsGood(watch[w])'
      <3>1. FollowsGood(watch[w]) /\ watch[w] \in Call /\ CallGood(watch[w])
        BY CallType DEF ContestInv, CallsGood
      <3>2. watch[w].contest \in Watched /\ watch[w].followed \subseteq Coders
        BY <3>1 DEF Call
      <3>3. ASSUME watch[w].at = "watching", NEW g \in watch[w].followed
            PROVE  Later(watch[w].seen[g], results'[watch[w].contest][g], watch[w].phase)
        <4>1. Later(watch[w].seen[g], results[watch[w].contest][g], watch[w].phase)
              /\ ResultGood(watch[w].seen[g])
              /\ (site[watch[w].contest].phase = "coding" => watch[w].phase = "coding")
          BY <3>1, <3>3 DEF FollowsGood, CallGood, ToldGood
        <4> QED BY <1>3, <3>2, <4>1
      <3> QED BY <2>1, <3>1, <3>3 DEF FollowsGood, Later
    <2> QED BY <2>1, <2>2, <2>3 DEF ContestInv, CallsGood
  <1>6. ListGood' /\ WatchingGood'
    BY <1>1, SameBot
  <1> QED BY <1>4, <1>5, <1>6 DEF ContestInv

LEMMA JudgingSteps ==
    ASSUME ContestInv, NEW k \in Watched, NEW h \in Coders,
           (\E final \in BOOLEAN : Submit(k, h, final)) \/ Reject(k, h) \/ Queue(k, h) \/ Judge(k, h)
    PROVE  ContestInv'
  <1> DEFINE r == results[k][h]
  <1>1. ResultGood(r) /\ r \in Result
        /\ (r.queued => site[k].phase \notin {"before", "coding"})
    BY DEF ContestInv, WorldGood
  <1>2. /\ r.worth \in 0..Worth /\ r.rejected \in 0..MaxTries
        /\ r.queued \in BOOLEAN /\ r.final \in BOOLEAN
        /\ Worth \in Nat /\ MaxTries \in Nat
    BY <1>1, ContestWatchAssumption DEF Result
  <1>3. ASSUME NEW final \in BOOLEAN, Submit(k, h, final) PROVE ContestInv'
    <2> DEFINE new == [r EXCEPT !.worth = Worth - r.rejected, !.final = final]
    <2>1. SetResult(k, h, new) /\ site[k].phase = "coding"
          /\ Worth - r.rejected > 0 /\ (r.worth = 0 \/ Worth - r.rejected < r.worth)
      BY <1>3 DEF Submit
    <2>2. new \in Result /\ new.worth = Worth - r.rejected /\ new.final = final
          /\ new.queued = r.queued /\ new.rejected = r.rejected
      <3>1. Worth - r.rejected \in 0..Worth
        BY <1>2, <2>1
      <3> HIDE DEF r
      <3> QED BY <1>1, <3>1 DEF Result
    <2> HIDE DEF new
    <2>3. ResultGood(new) /\ ~new.queued
      BY <1>1, <1>2, <2>1, <2>2 DEF ResultGood
    <2>4. \A old, phase : Later(old, r, phase) => Later(old, new, phase)
      BY <1>2, <2>1, <2>2 DEF Later
    <2> QED BY <2>1, <2>3, <2>4, ResultStep
  <1>4. CASE Reject(k, h)
    <2> DEFINE new == [r EXCEPT !.worth = 0, !.rejected = @ + 1]
    <2>1. SetResult(k, h, new) /\ site[k].phase = "coding" /\ r.rejected < MaxTries
      BY <1>4 DEF Reject
    <2>2. new \in Result /\ new.worth = 0 /\ new.final = r.final
          /\ new.queued = r.queued /\ new.rejected = r.rejected + 1
      <3>1. r.rejected + 1 \in 0..MaxTries /\ 0 \in 0..Worth
        BY <1>2, <2>1
      <3> HIDE DEF r
      <3> QED BY <1>1, <3>1 DEF Result
    <2> HIDE DEF new
    <2>3. ResultGood(new) /\ ~new.queued
      BY <1>1, <2>1, <2>2 DEF ResultGood
    <2>4. \A old, phase : ResultGood(old) /\ Later(old, r, phase) /\ phase = "coding"
                          => Later(old, new, phase)
      BY <1>2, <2>2 DEF Later, ResultGood, Result
    <2> QED BY <2>1, <2>3, <2>4, ResultStep
  <1>5. CASE Queue(k, h)
    <2> DEFINE new == [r EXCEPT !.queued = TRUE]
    <2>1. SetResult(k, h, new) /\ site[k].phase = "testing" /\ r.worth > 0 /\ ~r.final
      BY <1>5 DEF Queue
    <2>2. new \in Result /\ new.worth = r.worth /\ new.final = r.final
          /\ new.queued /\ new.rejected = r.rejected
      BY <1>1, <1>2, <2>1 DEF Result
    <2> HIDE DEF new
    <2>3. ResultGood(new)
      BY <1>1, <2>1, <2>2 DEF ResultGood
    <2>4. \A old, phase : Later(old, r, phase) => Later(old, new, phase)
      BY <2>2 DEF Later
    <2> QED BY <2>1, <2>3, <2>4, ResultStep
  <1>6. CASE Judge(k, h)
    <2> DEFINE passed == [r EXCEPT !.queued = FALSE, !.final = TRUE]
               failed == [passed EXCEPT !.worth = 0, !.rejected = @ + 1]
    <2>1. passed \in Result /\ passed.worth = r.worth /\ passed.final /\ ~passed.queued
          /\ passed.rejected = r.rejected
      BY <1>1, <1>2 DEF Result
    <2>2. CASE SetResult(k, h, passed)
      <3> HIDE DEF passed
      <3>1. ResultGood(passed)
        BY <1>1, <2>1 DEF ResultGood
      <3>2. \A old, phase : Later(old, r, phase) => Later(old, passed, phase)
        BY <1>1, <2>1 DEF Later, ResultGood
      <3> QED BY <2>1, <2>2, <3>1, <3>2, ResultStep
    <2>3. CASE SetResult(k, h, failed) /\ r.rejected < MaxTries
      <3>1. failed \in Result /\ failed.worth = 0 /\ failed.final /\ ~failed.queued
            /\ failed.rejected = r.rejected + 1
        <4>1. passed.rejected + 1 \in 0..MaxTries /\ 0 \in 0..Worth
          BY <1>2, <2>1, <2>3
        <4> HIDE DEF passed
        <4> QED BY <2>1, <4>1 DEF Result
      <3> HIDE DEF failed
      <3>2. ResultGood(failed)
        BY <3>1 DEF ResultGood
      <3>3. \A old, phase : ResultGood(old) /\ Later(old, r, phase) => Later(old, failed, phase)
        BY <1>2, <3>1 DEF Later, ResultGood, Result
      <3> QED BY <2>3, <3>1, <3>2, <3>3, ResultStep
    <2>4. passed.worth = r.worth /\ passed.rejected = r.rejected
      BY <2>1
    <2>5. SetResult(k, h, passed) \/ (SetResult(k, h, failed) /\ r.rejected < MaxTries)
      <3> HIDE DEF passed
      <3> QED BY <1>6, <2>4 DEF Judge, passed
    <2> QED BY <2>2, <2>3, <2>5
  <1> QED BY <1>3, <1>4, <1>5, <1>6

-----------------------------------------------------------------------------
(* The specification *)

LEMMA InitContest == ContestWatchInit => ContestInv
  <1> SUFFICES ASSUME ContestWatchInit PROVE ContestInv
    OBVIOUS
  <1>1. 0 \in Time
    BY ContestWatchAssumption DEF Time
  <1>2. NoCall.at = "none" /\ NoCall.copy = {}
    BY DEF NoCall
  <1>3. WorldGood
    BY <1>1, NoResultGood DEF ContestWatchInit, WorldGood, ResultGood, NoResult
  <1>4. CallsGood
    BY NoCallGood DEF ContestWatchInit, CallsGood, CallGood
  <1>5. ListGood
    BY <1>1, <1>2, <1>3, ContestWatchAssumption DEF ContestWatchInit, ListGood, ListCopy, WorldGood
  <1>6. WatchingGood
    <2>1. \A k \in Watched : WatchesOf(k) = {}
      BY <1>2 DEF ContestWatchInit, WatchesOf, Running
    <2> QED BY <2>1 DEF ContestWatchInit, WatchingGood
  <1> QED BY <1>3, <1>4, <1>5, <1>6 DEF ContestInv

LEMMA UnchangedContest ==
    ASSUME ContestInv, UNCHANGED contestVars
    PROVE  ContestInv'
  <1>1. UNCHANGED <<clock, site, results>> /\ UNCHANGED bot
    BY DEF contestVars, bot
  <1>2. ListGood' /\ WatchingGood'
    BY <1>1, SameBot
  <1>3. WorldGood'
    BY <1>1 DEF ContestInv, WorldGood
  <1>4. CallsGood'
    BY <1>1 DEF ContestInv, CallsGood, CallGood, ToldGood, FollowsGood, bot
  <1> QED BY <1>2, <1>3, <1>4 DEF ContestInv

LEMMA NextContest == ContestInv /\ [ContestWatchNext]_contestVars => ContestInv'
  <1> SUFFICES ASSUME ContestInv, [ContestWatchNext]_contestVars PROVE ContestInv'
    OBVIOUS
  <1>1. CASE UNCHANGED contestVars
    BY <1>1, UnchangedContest
  <1>2. CASE Codeforces
    BY <1>2, PassClockStep, RoundSteps, JudgingSteps DEF Codeforces
  <1>3. ASSUME NEW w \in Watches, NEW k \in Watched, BeginWatch(w, k) \/ BeginLink(w, k)
        PROVE  ContestInv'
    BY <1>3, BeginSteps
  <1>4. ASSUME NEW w \in Watches, Cache(w) PROVE ContestInv'
    BY <1>4, AskSteps, LockListStep, FetchListStep, StoreListStep, ReadListStep DEF Cache
  <1>5. ASSUME NEW w \in Watches, Live(w) PROVE ContestInv'
    BY <1>5, WaitSteps, StartWatchingStep, ScanStep DEF Live
  <1> QED BY <1>1, <1>2, <1>3, <1>4, <1>5 DEF ContestWatchNext

LEMMA SpecContest == ContestWatchSpec => []ContestInv
  BY InitContest, NextContest, PTL DEF ContestWatchSpec

LEMMA ListStep ==
    ASSUME ContestInv, [ContestWatchNext]_contestVars
    PROVE  list'.taken >= list.taken
  <1>1. list.taken \in Nat
    BY DEF ContestInv, ListGood, ListCopy, Time
  <1>2. CASE list' = list
    BY <1>1, <1>2
  <1>3. CASE list' # list
    <2>1. PICK w \in Watches : StoreList(w)
      BY <1>3 DEF ContestWatchNext, contestVars, Codeforces, PassClock, Postpone, Advance, Submit,
         Reject, Queue, Judge, SetResult, bot, BeginWatch, BeginLink, Cache, Recall, AskStandings,
         CheckListAge, LockList, FetchList, ReadList, Live, WakeToWatch, StartWatching,
         MessageFails, ScanChanges, ScanBy, ScanFails
    <2> QED BY <2>1, StoreListStep
  <1> QED BY <1>2, <1>3

(* The contest list never goes back in time, for any number of calls that  *)
(* find it too old at once and whatever the requests answer                *)
(* (get_from_list).                                                        *)
THEOREM ListOnlyMovesOn == ContestWatchSpec => ListNeverGoesBack
  <1>1. ContestInv /\ [ContestWatchNext]_contestVars => [list'.taken >= list.taken]_contestVars
    BY ListStep
  <1> QED BY <1>1, SpecContest, PTL DEF ContestWatchSpec, ListNeverGoesBack

(* What a watch told last of a coder with a final result agrees with it,   *)
(* for every number of coders and contests, unless a message was lost      *)
(* (scan_changes, analyze_change).                                         *)
THEOREM VerdictsTold == ContestWatchSpec => []VerdictsAreTold
  <1>1. ContestInv => VerdictsAreTold
    <2> SUFFICES ASSUME ContestInv, NEW w \in Watches,
                        NEW h \in watch[w].followed \ watch[w].lost, watch[w].seen[h].final
                 PROVE  watch[w].told[h] = "passed" <=> Points(watch[w].seen[h]) > 0
      BY DEF VerdictsAreTold
    <2>1. ToldGood(watch[w]) /\ h \in watch[w].followed /\ h \notin watch[w].lost
      BY DEF ContestInv, CallsGood, CallGood
    <2>2. ResultGood(watch[w].seen[h])
      BY <2>1 DEF ToldGood
    <2>3. Points(watch[w].seen[h]) \in Nat /\ ~watch[w].seen[h].queued
      BY <2>2, ContestWatchAssumption DEF ResultGood, Result, Points
    <2> QED BY <2>1, <2>3 DEF ToldGood
  <1> QED BY <1>1, SpecContest, PTL

LEMMA ContestType == ContestInv => ContestWatchTypeOK
  <1> SUFFICES ASSUME ContestInv PROVE ContestWatchTypeOK
    OBVIOUS
  <1>1. ASSUME NEW k \in Watched PROVE Cardinality(WatchesOf(k)) <= 1
    <2>1. CASE WatchesOf(k) = {}
      BY <2>1, FS_EmptySet
    <2>2. ASSUME NEW w \in WatchesOf(k) PROVE Cardinality(WatchesOf(k)) <= 1
      <3>1. WatchesOf(k) = {w}
        BY <2>2 DEF ContestInv, WatchingGood
      <3> QED BY <3>1, FS_Singleton
    <2> QED BY <2>1, <2>2
  <1>2. watching = {k \in Watched : WatchesOf(k) # {}}
    <2>1. \A k \in Watched : WatchesOf(k) # {} <=> \E w \in Watches : w \in WatchesOf(k)
      BY DEF WatchesOf
    <2> QED BY <2>1 DEF ContestInv, WatchingGood
  <1>3. ASSUME NEW w \in Watches PROVE watch[w] \in Call
    BY CallType
  <1> QED BY <1>1, <1>2, <1>3
      DEF ContestWatchTypeOK, ContestInv, WorldGood, ListGood, WatchingGood, Call, Places

(* A contest is watched once, and is free for another watch when its own   *)
(* has ended, in whatever way (WatchData, watch).                          *)
THEOREM ContestsTypeCorrect == ContestWatchSpec => []ContestWatchTypeOK
  BY ContestType, SpecContest, PTL

-----------------------------------------------------------------------------
(* Both in one behaviour *)

(* The announcer and the live watches are of their types, side by side; a  *)
(* contest is watched once.                                                *)
THEOREM ScansTyped == ScansSpec => []ScansTypeOK
  <1>1. ScansInit => ScansInv /\ ContestInv
    BY InitScans, InitContest DEF ScansInit
  <1>2. ScansInv /\ ContestInv /\ [ScansNext]_scansVars => ScansInv' /\ ContestInv'
    <2>1. [ScansNext]_scansVars => [Next]_vars /\ [ContestWatchNext]_contestVars
      BY DEF ScansNext, scansVars
    <2> QED BY <2>1, NextScans, NextContest
  <1>3. ScansInv /\ ContestInv => ScansTypeOK
    BY ContestType DEF ScansInv, ScansTypeOK
  <1> QED BY <1>1, <1>2, <1>3, PTL DEF ScansSpec
=============================================================================
