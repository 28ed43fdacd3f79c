-------------------------- MODULE PaginationProofs --------------------------
(***************************************************************************)
(* Theorems about Pagination for every pager and every length.             *)
(***************************************************************************)
EXTENDS Pagination, TLAPS

LEMMA U8Type == \A n \in Int : U8(n) \in 0..255
  BY DEF U8

LEMMA FastType ==
    ASSUME NEW len \in Int
    PROVE  Fast(len) \in 0..255
  BY U8Type DEF Fast

LEMMA Len1Type ==
    ASSUME TypeOK
    PROVE  Len1 \in Int /\ HandlerLen \in Int /\ PageCount \in Int
  <1>1. /\ pager.items \in Nat /\ pager.perPage \in Nat \ {0} /\ fetched \in Nat
    BY DEF TypeOK, Pager
  <1>2. \A n \in Nat, d \in Nat \ {0} : CeilDiv(n, d) \in Int
    BY DEF CeilDiv
  <1> QED BY <1>1, <1>2 DEF Len1, HandlerLen, PageCount, NoLen

(* The step of ">>" as the code computes it, in bytes, is the one intended *)
(* for every len whose sum with the step fits a byte.                      *)
THEOREM FastNextForward ==
    ASSUME NEW len \in Nat, NEW p \in Nat, p + 1 < len, len + Fast(len) <= 256
    PROVE  p < FastNext(len, p) /\ FastNext(len, p) < len
  <1>1. Fast(len) \in 0..255
    BY FastType
  <1>2. Fast(len) >= 5
    <2>1. len <= 256
      BY <1>1
    <2>2. CASE len \div 10 < 5
      BY <2>2 DEF Fast, NoLen, U8
    <2>3. CASE ~(len \div 10 < 5)
      <3>1. Fast(len) = U8(len \div 10) /\ len \div 10 \in 5..255
        BY <2>1, <2>3 DEF Fast, NoLen
      <3> QED BY <3>1 DEF U8
    <2> QED BY <2>2, <2>3
  <1>3. U8(U8(len) - 1) = len - 1
    <2>1. len \in 0..251
      BY <1>1, <1>2
    <2> QED BY <2>1 DEF U8
  <1>4. U8(p + Fast(len)) = p + Fast(len)
    <2> DEFINE f == Fast(len)
    <2>1. f \in 0..255 /\ f \in Nat /\ len + f <= 256
      BY <1>1
    <2> HIDE DEF f
    <2>2. p + f \in 0..255
      BY <2>1
    <2>3. U8(p + f) = p + f
      BY <2>2 DEF U8
    <2> QED BY <2>3 DEF f
  <1> QED BY <1>1, <1>2, <1>3, <1>4 DEF FastNext, SmallerOf

LEMMA NewPageType ==
    ASSUME TypeOK, NEW r \in Reactions, ~Ignored(HandlerLen, page, r)
    PROVE  NewPage(HandlerLen, page, r) \in 0..255
  <1>1. HandlerLen \in Int /\ page \in 0..255 /\ pager.items \in Nat
    BY Len1Type DEF TypeOK, Pager
  <1>2. Fast(HandlerLen) \in 0..255
    BY <1>1, FastType
  <1>3. CASE r = "prev"
    BY <1>1, <1>3 DEF NewPage, Ignored
  <1>4. CASE r = "fast_prev"
    <2> DEFINE f == Fast(HandlerLen)
    <2>1. f \in 0..255
      BY <1>2
    <2>2. NewPage(HandlerLen, page, r) = IF page < f THEN 0 ELSE page - f
      BY <1>4 DEF NewPage, FastPrev
    <2> HIDE DEF f
    <2> QED BY <1>1, <2>1, <2>2
  <1>5. CASE r = "next"
    BY <1>1, <1>5, U8Type DEF NewPage
  <1>6. CASE r = "fast_next"
    <2>1. U8(HandlerLen) \in Int
      BY <1>1, U8Type
    <2>2. U8(U8(HandlerLen) - 1) \in 0..255 /\ U8(page + Fast(HandlerLen)) \in 0..255
      BY <1>1, <1>2, <2>1, U8Type
    <2> QED BY <1>6, <2>2 DEF NewPage, FastNext, SmallerOf
  <1>7. CASE r = "show_all"
    BY <1>1, <1>7, U8Type DEF NewPage
  <1> QED BY <1>3, <1>4, <1>5, <1>6, <1>7
          DEF Reactions, Arrows, FastArrows

(* What a fetch leaves in the buffer.                                      *)
LEMMA FetchType ==
    ASSUME TypeOK, Fetch(target)
    PROVE  fetched' \in Nat /\ ended' \in BOOLEAN
  <1>1. pager.items \in Nat /\ pager.perPage \in Nat \ {0} /\ fetched \in Nat /\ target \in Nat
    BY DEF TypeOK, Pager
  <1>2. FetchedFor(target) \in Nat
    <2>1. (target + 1) * pager.perPage \in Nat
      BY <1>1
    <2>2. ASSUME NEW n \in Nat PROVE CeilDiv(n, Batch) \in Nat
      BY PaginationAssumption DEF CeilDiv
    <2>3. ASSUME NEW n \in Nat PROVE CeilDiv(n, Batch) * Batch \in Nat
      <3>1. CeilDiv(n, Batch) \in Nat
        BY <2>2
      <3> QED BY <3>1, PaginationAssumption
    <2> QED BY <1>1, <2>1, <2>3 DEF FetchedFor
  <1>3. EndedFor(target) \in BOOLEAN
    BY DEF EndedFor, TypeOK
  <1> QED BY <1>2, <1>3 DEF Fetch, TypeOK

LEMMA InitIInv == Init => IInv
  <1> SUFFICES ASSUME Init PROVE IInv
    OBVIOUS
  <1>1. pager \in Pager /\ pager.items \in Nat
    BY PaginationAssumption DEF Init, Pager
  <1>2. fetched \in Nat
    BY <1>1, PaginationAssumption DEF Init, SmallerOf
  <1>3. ended \in BOOLEAN
    BY DEF Init
  <1>a. queue \in Seq(Reactions) /\ shown.page = NoPage /\ shown.buttons = {}
    BY DEF Init
  <1>b. TypeOK
    <2>1. phase = "open" /\ failed \in BOOLEAN
      BY DEF Init
    <2>2. page \in 0..255 /\ target \in 0..255
      BY DEF Init
    <2>3. shown.page \in Nat \cup {NoPage} /\ shown.buttons \subseteq Reactions
      BY <1>a
    <2> QED BY <1>1, <1>2, <1>3, <1>a, <2>1, <2>2, <2>3, Zenon DEF TypeOK
  <1>4. ShownFits /\ ButtonsAreRemoved
    BY PaginationAssumption DEF Init, ShownFits, ButtonsAreRemoved
  <1> QED BY <1>b, <1>4 DEF IInv

LEMMA ButtonsType == ButtonsOf \subseteq Reactions
  BY DEF ButtonsOf, Buttons, Reactions, Arrows, FastArrows

LEMMA TakeSafe == IInv /\ Take => IInv'
  <1> SUFFICES ASSUME IInv, Take PROVE IInv'
    OBVIOUS
  <1>1. Head(queue) \in Reactions /\ queue' \in Seq(Reactions)
    BY DEF Take, IInv, TypeOK
  <1>2. target' \in 0..255 /\ phase' \in {"waiting", "render", "panicked"}
    BY <1>1, NewPageType DEF Take, IInv, TypeOK
  <1>3. /\ phase = "waiting"
        /\ UNCHANGED <<pager, fetched, ended, page, shown, failed>>
    BY DEF Take
  <1>4. TypeOK'
    BY <1>1, <1>2, <1>3 DEF IInv, TypeOK
  <1>5. ShownFits' /\ ButtonsAreRemoved'
    BY <1>2, <1>3 DEF IInv, ShownFits, ButtonsAreRemoved, Rendered, PageCount
  <1> QED BY <1>4, <1>5 DEF IInv

LEMMA ShowSafe == IInv /\ Show => IInv'
  <1> SUFFICES ASSUME IInv, Show PROVE IInv'
    OBVIOUS
  <1>1. /\ shown' = [page |-> target, buttons |-> ButtonsOf]
        /\ page' = target /\ phase' = After /\ Rendered(target)
        /\ phase \in {"single", "first", "render", "last"}
        /\ UNCHANGED <<pager, target, queue, failed>>
    BY DEF Show
  <1>2. fetched' \in Nat /\ ended' \in BOOLEAN
    BY FetchType DEF Show, IInv
  <1>a. shown'.page = target /\ shown'.buttons = ButtonsOf
    BY <1>1
  <1>b. target \in 0..255 /\ target \in Nat /\ target # NoPage
    <2>1. target \in 0..255
      BY DEF IInv, TypeOK
    <2>2. target \in Nat
      BY <2>1
    <2> QED BY <2>1, <2>2, PaginationAssumption, Zenon
  <1>c. phase' \in {"waiting", "done"}
    BY <1>1 DEF After
  <1>3. TypeOK'
    BY <1>1, <1>2, <1>a, <1>b, <1>c, ButtonsType DEF IInv, TypeOK
  <1>4. ShownFits'
    <2>1. Rendered(target)'
      BY <1>1 DEF Rendered, PageCount
    <2>2. Rendered(shown.page)'
      BY <2>1, <1>1, <1>a DEF Rendered, PageCount
    <2> QED BY <1>1, <1>a, <1>b, <1>c, <2>2 DEF ShownFits
  <1>5. ButtonsAreRemoved'
    BY <1>1 DEF ButtonsAreRemoved, After, ButtonsOf
  <1> QED BY <1>3, <1>4, <1>5 DEF IInv

LEMMA NoSuchPageSafe == IInv /\ NoSuchPage => IInv'
  <1> SUFFICES ASSUME IInv, NoSuchPage PROVE IInv'
    OBVIOUS
  <1>1. /\ phase' = After /\ ~Rendered(target)
        /\ phase \in {"first", "render", "last"}
        /\ UNCHANGED <<pager, page, target, queue, shown, failed>>
    BY DEF NoSuchPage
  <1>2. fetched' \in Nat /\ ended' \in BOOLEAN
    BY FetchType DEF NoSuchPage, IInv
  <1>3. TypeOK'
    BY <1>1, <1>2 DEF IInv, TypeOK, After
  <1>4. ShownFits'
    BY <1>1 DEF IInv, ShownFits, After, Rendered, PageCount
  (* A last rendering that finds no page is one of a message that never    *)
  (* showed any.                                                           *)
  <1>5. ButtonsAreRemoved'
    BY <1>1 DEF IInv, ShownFits, ButtonsAreRemoved, After
  <1> QED BY <1>3, <1>4, <1>5 DEF IInv

LEMMA ShowFailsSafe == IInv /\ ShowFails => IInv'
  <1> SUFFICES ASSUME IInv, ShowFails PROVE IInv'
    OBVIOUS
  <1>1. /\ phase \in {"single", "first", "render", "last"}
        /\ \/ phase = "render" /\ phase' = "last" /\ target' = page /\ failed' = failed
           \/ phase' = "done" /\ target' = target /\ failed' = TRUE
        /\ UNCHANGED <<pager, page, queue, shown>>
    BY DEF ShowFails
  <1>2. fetched' \in Nat /\ ended' \in BOOLEAN
    <2>1. CASE Fetch(target)
      BY <2>1, FetchType DEF IInv
    <2>2. CASE UNCHANGED <<fetched, ended>>
      BY <2>2 DEF IInv, TypeOK
    <2> QED BY <2>1, <2>2 DEF ShowFails, Fails
  <1>3. TypeOK'
    BY <1>1, <1>2 DEF IInv, TypeOK
  <1>4. ShownFits' /\ ButtonsAreRemoved'
    BY <1>1 DEF IInv, ShownFits, ButtonsAreRemoved, Rendered, PageCount
  <1> QED BY <1>3, <1>4 DEF IInv

LEMMA NextIInv == IInv /\ [Next]_vars => IInv'
  <1> SUFFICES ASSUME IInv, [Next]_vars PROVE IInv'
    OBVIOUS
  <1> USE DEF IInv, TypeOK, ShownFits, ButtonsAreRemoved, Rendered, PageCount
  <1>1. CASE Open
    BY <1>1 DEF Open
  <1>2. ASSUME NEW r \in Reactions, Press(r) PROVE IInv'
    BY <1>2 DEF Press
  <1>3. CASE Timeout
    BY <1>3 DEF Timeout
  <1>4. CASE Panic
    BY <1>4 DEF Panic
  <1>5. CASE UNCHANGED vars
    BY <1>5 DEF vars
  <1> QED
    BY <1>1, <1>2, <1>3, <1>4, <1>5, TakeSafe, ShowSafe, NoSuchPageSafe, ShowFailsSafe DEF Next

LEMMA Invariance == Spec => []IInv
  <1> QED BY InitIInv, NextIInv, PTL DEF Spec

(* Every page number is a byte and every reaction one that is known.       *)
THEOREM TypeCorrect == Spec => []TypeOK
  <1>1. IInv => TypeOK
    BY DEF IInv
  <1> QED BY <1>1, Invariance, PTL

(* The message shows the page from which the next reaction is counted.     *)
THEOREM PageShown == Spec => []PageIsShown
  <1>1. IInv => PageIsShown
    BY DEF IInv, ShownFits, PageIsShown
  <1> QED BY <1>1, Invariance, PTL

(* A pagination that ends without a failed edit leaves no buttons.         *)
THEOREM ButtonsGone == Spec => []ButtonsAreRemoved
  <1>1. IInv => ButtonsAreRemoved
    BY DEF IInv
  <1> QED BY <1>1, Invariance, PTL

(* In every pagination ">>" leads forward and not past the last page, as   *)
(* long as the sum of the pages and the step fits a byte: the page is one  *)
(* of the list and the arithmetic of FastNextForward applies.              *)
THEOREM FastNextMoves == Spec => FastNextMovesOn
  <1>1. IInv /\ [Next]_vars =>
          [Take /\ phase' = "render" /\ Head(queue) = "fast_next"
             /\ page < HandlerLen - 1 /\ HandlerLen + Fast(HandlerLen) <= 256
           => page < target' /\ target' < HandlerLen]_vars
    <2> SUFFICES ASSUME IInv, Take, phase' = "render", Head(queue) = "fast_next",
                        page < HandlerLen - 1, HandlerLen + Fast(HandlerLen) <= 256
                 PROVE  page < target' /\ target' < HandlerLen
      OBVIOUS
    <2>1. target' = FastNext(HandlerLen, page)
      BY DEF Take, Ignored, NewPage
    <2>2. HandlerLen \in Int /\ page \in Nat
      BY Len1Type DEF IInv, TypeOK
    <2>3. HandlerLen \in Nat /\ page + 1 < HandlerLen
      BY <2>2
    <2> QED BY <2>1, <2>2, <2>3, FastNextForward
  <1> QED BY <1>1, Invariance, PTL DEF Spec, FastNextMovesOn
=============================================================================
