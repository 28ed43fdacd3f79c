----------------------------- MODULE FoldLemmas -----------------------------
(***************************************************************************)
(* Induction over numbers and along sequences without operators as         *)
(* parameters: a claim is the set of the numbers it holds of, the step of  *)
(* a fold a function.  From the well-foundedness of the naturals.          *)
(***************************************************************************)
EXTENDS Integers, Sequences, SequenceTheorems, WellFoundedInduction, TLAPS

(* A set of numbers that has one has a least one.                          *)
LEMMA LeastExists ==
    ASSUME NEW S \in SUBSET Nat, S # {}
    PROVE  \E m \in S : \A n \in S : m <= n
  <1>1. PICK m \in S : \A n \in S : ~ (<<n, m>> \in OpToRel(<, Nat))
    BY WFMin, NatLessThanWellFounded
  <1>2. \A n \in S : ~ (n < m)
    BY <1>1 DEF OpToRel
  <1> QED BY <1>2

(* Induction up to a number.                                               *)
LEMMA UpTo ==
    ASSUME NEW N \in Nat, NEW Good, 0 \in Good,
           \A n \in 0..(N - 1) : n \in Good => n + 1 \in Good
    PROVE  \A n \in 0..N : n \in Good
  <1> DEFINE Bad == {n \in 0..N : n \notin Good}
  <1>1. SUFFICES Bad = {}
    OBVIOUS
  <1>2. SUFFICES ASSUME Bad # {}
                 PROVE  FALSE
    OBVIOUS
  <1>3. Bad \in SUBSET Nat
    OBVIOUS
  <1>4. PICK m \in Bad : \A n \in Bad : m <= n
    <2> HIDE DEF Bad
    <2> QED BY <1>2, <1>3, LeastExists
  <1>5. m \in 0..N /\ m \notin Good /\ m # 0
    BY <1>4
  <1>6. m - 1 \in 0..(N - 1) /\ m - 1 \in 0..N /\ ~ (m <= m - 1)
    BY <1>5
  <1>7. m - 1 \in Good
    BY <1>4, <1>6
  <1>8. (m - 1) + 1 = m
    BY <1>5
  <1> QED BY <1>5, <1>6, <1>7, <1>8

(* A fold along a sequence: the value after each of the elements.          *)
IsFold(f, Vals, op, base, s) ==
    /\ f \in [0..Len(s) -> Vals]
    /\ f[0] = base
    /\ \A n \in 1..Len(s) : f[n] = op[f[n - 1]][s[n]]

(* The function that a fold is defined by exists.                          *)
LEMMA FoldExists ==
    ASSUME NEW Vals, NEW Elems, NEW op \in [Vals -> [Elems -> Vals]], NEW base \in Vals,
           NEW s \in Seq(Elems)
    PROVE  \E f : IsFold(f, Vals, op, base, s)
  <1> DEFINE N == Len(s)
             Is(f, k) == f[0] = base /\ \A n \in 1..k : f[n] = op[f[n - 1]][s[n]]
             Good == {k \in 0..N : \E f \in [0..k -> Vals] : Is(f, k)}
  <1>0. N \in Nat /\ \A n \in 1..N : s[n] \in Elems
    OBVIOUS
  <1>1. 0 \in Good
    <2> DEFINE g == [n \in 0..0 |-> base]
    <2>1. g \in [0..0 -> Vals] /\ Is(g, 0)
      OBVIOUS
    <2> HIDE DEF g, Is, N
    <2> QED BY <2>1, <1>0
  <1> HIDE DEF N
  <1>2. ASSUME NEW k \in 0..(N - 1), k \in Good
        PROVE  k + 1 \in Good
    <2>1. PICK f \in [0..k -> Vals] : Is(f, k)
      BY <1>2
    <2>2. k + 1 \in 1..N /\ k + 1 \in 0..N /\ k \in 0..k
      BY <1>0
    <2>3. op[f[k]][s[k + 1]] \in Vals
      BY <1>0, <2>2
    <2> DEFINE v == op[f[k]][s[k + 1]]
               g == [n \in 0..(k + 1) |-> IF n <= k THEN f[n] ELSE v]
    <2>4. g \in [0..(k + 1) -> Vals]
      <3> HIDE DEF v
      <3> QED BY <2>3 DEF v
    <2>5. g[0] = base
      BY <2>1
    <2>6. ASSUME NEW n \in 1..(k + 1)
          PROVE  g[n] = op[g[n - 1]][s[n]]
      <3>1. CASE n = k + 1
        <4>1. n - 1 = k /\ k \in 0..(k + 1) /\ n \in 0..(k + 1) /\ ~ (n <= k)
          BY <3>1
        <4>2. g[n] = v /\ g[n - 1] = f[k]
          <5> HIDE DEF v
          <5> QED BY <4>1
        <4> HIDE DEF g
        <4> QED BY <4>1, <4>2, <3>1
      <3>2. CASE n # k + 1
        <4>1. n \in 1..k /\ n \in 0..(k + 1) /\ n - 1 \in 0..(k + 1) /\ n <= k /\ n - 1 <= k
          BY <3>2
        <4>2. f[n] = op[f[n - 1]][s[n]]
          BY <2>1, <4>1
        <4>3. g[n] = f[n] /\ g[n - 1] = f[n - 1]
          <5> HIDE DEF v
          <5> QED BY <4>1
        <4> HIDE DEF g
        <4> QED BY <4>2, <4>3
      <3> QED BY <3>1, <3>2
    <2>7. Is(g, k + 1)
      <3> HIDE DEF g
      <3> QED BY <2>5, <2>6
    <2> HIDE DEF g, Is
    <2> QED BY <2>2, <2>4, <2>7
  <1>3. N \in Good
    <2>1. \A k \in 0..(N - 1) : k \in Good => k + 1 \in Good
      BY <1>2
    <2>2. \A n \in 0..N : n \in Good
      <3> HIDE DEF Good
      <3> QED BY <1>0, <1>1, <2>1, UpTo
    <2>3. N \in 0..N
      BY <1>0
    <2> HIDE DEF Good
    <2> QED BY <2>2, <2>3
  <1> QED BY <1>3 DEF N, IsFold

(* Concatenation and appending, element by element.                        *)
LEMMA Appended ==
    ASSUME NEW S, NEW s \in Seq(S), NEW x \in S
    PROVE  /\ Append(s, x) \in Seq(S)
           /\ Len(Append(s, x)) = Len(s) + 1
           /\ \A i \in 1..Len(s) : Append(s, x)[i] = s[i]
           /\ Append(s, x)[Len(s) + 1] = x
  OBVIOUS

(* An element is put in front of the i-th of a sequence.                   *)
Insertion(w, l, i, x) ==
    /\ Len(w) = Len(l) + 1
    /\ \A k \in 1..Len(w) : w[k] = IF k < i THEN l[k] ELSE IF k = i THEN x ELSE l[k - 1]

LEMMA Inserted ==
    ASSUME NEW S, NEW l \in Seq(S), NEW i \in 1..(Len(l) + 1), NEW x \in S
    PROVE  LET w == SubSeq(l, 1, i - 1) \o <<x>> \o SubSeq(l, i, Len(l))
           IN  w \in Seq(S) /\ Insertion(w, l, i, x)
  <1> DEFINE front == SubSeq(l, 1, i - 1)
             back == SubSeq(l, i, Len(l))
             start == front \o <<x>>
             w == start \o back
  <1>0. Len(l) \in Nat
    OBVIOUS
  <1>1. /\ front \in Seq(S) /\ Len(front) = i - 1
        /\ \A j \in 1..(i - 1) : front[j] = l[j]
    <2>1. \A j \in 1..(i - 1) : l[j] \in S
      OBVIOUS
    <2>2. /\ front \in Seq(S)
          /\ Len(front) = IF 1 <= i - 1 THEN i - 1 - 1 + 1 ELSE 0
          /\ \A j \in 1..(i - 1 - 1 + 1) : front[j] = l[1 + j - 1]
      BY <2>1, SubSeqProperties
    <2> QED BY <2>2
  <1>2. /\ back \in Seq(S) /\ Len(back) = Len(l) - i + 1
        /\ \A j \in 1..(Len(l) - i + 1) : back[j] = l[i + j - 1]
    <2>1. \A j \in i..Len(l) : l[j] \in S
      OBVIOUS
    <2>2. /\ back \in Seq(S)
          /\ Len(back) = IF i <= Len(l) THEN Len(l) - i + 1 ELSE 0
          /\ \A j \in 1..(Len(l) - i + 1) : back[j] = l[i + j - 1]
      BY <2>1, SubSeqProperties
    <2> QED BY <2>2
  <1>3. /\ start \in Seq(S) /\ Len(start) = i /\ start[i] = x
        /\ \A j \in 1..(i - 1) : start[j] = l[j]
    <2>1. <<x>> \in Seq(S) /\ Len(<<x>>) = 1 /\ <<x>>[1] = x
      OBVIOUS
    <2> HIDE DEF front
    <2> QED BY <1>1, <2>1, ConcatProperties
  <1> HIDE DEF start, back
  <1>4. /\ w \in Seq(S) /\ Len(w) = Len(l) + 1
        /\ \A k \in 1..(Len(l) + 1) : w[k] = IF k <= i THEN start[k] ELSE back[k - i]
    <2>1. i + (Len(l) - i + 1) = Len(l) + 1
      BY <1>0
    <2>2. /\ w \in Seq(S) /\ Len(w) = Len(start) + Len(back)
          /\ \A k \in 1..(Len(start) + Len(back)) :
               w[k] = IF k <= Len(start) THEN start[k] ELSE back[k - Len(start)]
      BY <1>2, <1>3, ConcatProperties
    <2> HIDE DEF w
    <2>3. Len(start) + Len(back) = Len(l) + 1
      BY <1>2, <1>3, <2>1
    <2> QED BY <1>3, <2>2, <2>3
  <1> HIDE DEF w
  <1>5. ASSUME NEW k \in 1..(Len(l) + 1)
        PROVE  w[k] = IF k < i THEN l[k] ELSE IF k = i THEN x ELSE l[k - 1]
    <2>1. CASE k <= i
      BY <2>1, <1>3, <1>4
    <2>2. CASE k > i
      <3>1. k - i \in 1..(Len(l) - i + 1) /\ i + (k - i) - 1 = k - 1
        BY <1>0, <2>2
      <3>2. w[k] = back[k - i] /\ back[k - i] = l[k - 1]
        BY <1>2, <1>4, <2>2, <3>1
      <3> QED BY <2>2, <3>2
    <2> QED BY <2>1, <2>2
  <1>6. Insertion(w, l, i, x)
    BY <1>4, <1>5 DEF Insertion
  <1> QED BY <1>4, <1>6 DEF w, start, back
=============================================================================
