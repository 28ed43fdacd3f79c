----------------------------- MODULE Pagination -----------------------------
(***************************************************************************)
(* A paginated message of youmubot-prelude/src/pagination.rs, with the     *)
(* pagers the crates give it: closures with a page count, the score lists  *)
(* of display.rs over a lazy buffer, and the beatmapset of display.rs.     *)
(***************************************************************************)
EXTENDS Integers, Sequences, FiniteSets

CONSTANTS
    Pagers,         \* the pagers, see Pager
    Batch,          \* scores that the buffer fetches at a time
    MaxQueue,       \* bound on the reactions that wait to be handled
    Faults,         \* "edit"
    NoPage          \* the message shows no page yet

(* A pager of some kind over a number of items.  An "indexed" closure does *)
(* not look whether the page exists, a "sliced" one does.                  *)
Pager == [kind : {"sliced", "indexed", "scores", "beatmapset"},
          items : Nat \ {0}, perPage : Nat \ {0}]

ASSUME PaginationAssumption ==
    /\ Pagers \subseteq Pager
    /\ Batch \in Nat \ {0}
    /\ MaxQueue \in Nat
    /\ Faults \subseteq {"edit"}
    /\ NoPage \notin Nat

VARIABLES
    pager,
    fetched,        \* items the buffer of a "scores" pager holds
    ended,          \* and whether it knows that these are all
    phase,          \* what paginate_with_first_message does
    page,
    target,         \* the page being rendered
    queue,          \* reactions the collector received
    shown,          \* the page the message shows, and its buttons
    failed          \* history: an edit failed

vars == <<pager, fetched, ended, phase, page, target, queue, shown, failed>>

U8(n) == n % 256

Arrows == {"prev", "next"}
FastArrows == {"fast_prev", "fast_next"}
Reactions == Arrows \cup FastArrows \cup {"show_all"}

TypeOK ==
    /\ pager \in Pager
    /\ fetched \in Nat
    /\ ended \in BOOLEAN
    /\ phase \in {"open", "single", "first", "waiting", "render", "last", "done", "panicked"}
    /\ page \in 0..255
    /\ target \in 0..255
    /\ queue \in Seq(Reactions)
    /\ shown.page \in Nat \cup {NoPage}
    /\ shown.buttons \subseteq Reactions
    /\ failed \in BOOLEAN

-----------------------------------------------------------------------------
(* Pagers *)

CeilDiv(n, d) == (n + d - 1) \div d

PageCount == CeilDiv(pager.items, pager.perPage)

HasPageCount == pager.kind \in {"sliced", "indexed"}

NoLen == -1

(* len of the pager: a buffer that may have more counts one page more.     *)
Len1 ==
    IF pager.kind = "scores"
    THEN CeilDiv(fetched, pager.perPage) + (IF ended THEN 0 ELSE 1)
    ELSE PageCount

(* WithPageCount hands reactions to the closure, which has no len.         *)
HandlerLen == IF HasPageCount THEN NoLen ELSE Len1

(* default_buttons and interaction_buttons.                                *)
Buttons(len) ==
    Arrows \cup (IF len > 5 THEN FastArrows ELSE {})
           \cup (IF pager.kind = "beatmapset" THEN {"show_all"} ELSE {})

(* The items a buffer holds after it was asked for those of a page.        *)
FetchedFor(p) ==
    LET wanted == (p + 1) * pager.perPage
        asked == CeilDiv(wanted, Batch) * Batch
    IN  IF ended \/ fetched >= wanted THEN fetched
        ELSE IF asked < pager.items THEN asked ELSE pager.items

(* The list ended when the last batch was not full.                        *)
EndedFor(p) == ended \/ FetchedFor(p) < (p + 1) * pager.perPage
                     \/ (FetchedFor(p) = pager.items /\ pager.items % Batch # 0)

(* render: a page of its own shows the whole beatmapset.                   *)
Rendered(p) == p < PageCount \/ (pager.kind = "beatmapset" /\ p = PageCount)

Panics(p) == pager.kind = "indexed" /\ p >= PageCount

-----------------------------------------------------------------------------
(* handle_pagination_reaction *)

Fast(len) == U8(IF len = NoLen \/ len \div 10 < 5 THEN 5 ELSE len \div 10)

SmallerOf(a, b) == IF a < b THEN a ELSE b

(* A variant without the saturation at the last page.                      *)
FastNextUncapped(len, p) == U8(p + Fast(len))

FastNext(len, p) == SmallerOf(U8(U8(len) - 1), U8(p + Fast(len)))

(* A variant without the saturation at the first page.                     *)
FastPrevUncapped(len, p) == p - Fast(len)

FastPrev(len, p) == IF p < Fast(len) THEN 0 ELSE p - Fast(len)

(* The reactions that leave the page alone at once.                        *)
Ignored(len, p, r) ==
    \/ r \in {"prev", "fast_prev"} /\ p = 0
    \/ r = "next" /\ len # NoLen /\ p + 1 >= len
    \/ r = "show_all" /\ pager.kind # "beatmapset"

NewPage(len, p, r) ==
    CASE r = "prev" -> p - 1
      [] r = "fast_prev" -> FastPrev(len, p)
      [] r = "next" -> U8(p + 1)
      [] r = "fast_next" -> FastNext(len, p)
      [] r = "show_all" -> U8(pager.items)

-----------------------------------------------------------------------------

(* A score list is shown only when its buffer holds something.             *)
Init ==
    /\ pager \in Pagers
    /\ fetched = IF pager.kind = "scores" THEN SmallerOf(Batch, pager.items) ELSE 0
    /\ ended = (pager.kind # "scores" \/ pager.items < Batch)
    /\ phase = "open"
    /\ page = 0
    /\ target = 0
    /\ queue = <<>>
    /\ shown = [page |-> NoPage, buttons |-> {}]
    /\ failed = FALSE

(* A single page gets no buttons and no collector.                         *)
Open ==
    /\ phase = "open"
    /\ phase' = IF Len1 = 1 THEN "single" ELSE "first"
    /\ UNCHANGED <<pager, fetched, ended, page, target, queue, shown, failed>>

(* The user presses a button of the message while the collector lives.     *)
Press(r) ==
    /\ phase \in {"first", "waiting", "render", "last"}
    /\ r \in shown.buttons
    /\ Len(queue) < MaxQueue
    /\ queue' = Append(queue, r)
    /\ UNCHANGED <<pager, fetched, ended, phase, page, target, shown, failed>>

(* The next reaction is handled: the page stays, the handler panics on the *)
(* len that is not there, or a new page is rendered.                       *)
Take ==
    LET r == Head(queue)
    IN  /\ phase = "waiting"
        /\ queue # <<>>
        /\ queue' = Tail(queue)
        /\ IF Ignored(HandlerLen, page, r) THEN UNCHANGED <<phase, target>>
           ELSE IF r = "fast_next" /\ HandlerLen = NoLen
           THEN phase' = "panicked" /\ UNCHANGED target
           ELSE phase' = "render" /\ target' = NewPage(HandlerLen, page, r)
        /\ UNCHANGED <<pager, fetched, ended, page, shown, failed>>

(* No reaction came in time.                                               *)
Timeout ==
    /\ phase = "waiting"
    /\ queue = <<>>
    /\ phase' = "last"
    /\ target' = page
    /\ UNCHANGED <<pager, fetched, ended, page, queue, shown, failed>>

Fetch(p) ==
    IF pager.kind = "scores"
    THEN fetched' = FetchedFor(p) /\ ended' = EndedFor(p)
    ELSE UNCHANGED <<fetched, ended>>

(* The first and the last page go through the outer pager, whose len is    *)
(* known; the others go through the one that handled the reaction.  The    *)
(* buttons follow the len before the page is rendered.                     *)
ButtonsOf ==
    CASE phase = "first" -> Buttons(Len1)
      [] phase = "render" -> Buttons(HandlerLen)
      [] OTHER -> {}

After == IF phase \in {"first", "render"} THEN "waiting" ELSE "done"

(* The page exists and the message is edited.                              *)
Show ==
    /\ phase \in {"single", "first", "render", "last"}
    /\ Rendered(target)
    /\ Fetch(target)
    /\ shown' = [page |-> target, buttons |-> ButtonsOf]
    /\ page' = target
    /\ phase' = After
    /\ UNCHANGED <<pager, target, queue, failed>>

(* A variant that turns to the page although it does not exist.            *)
NoSuchPageTurned ==
    /\ phase \in {"first", "render", "last"}
    /\ ~Rendered(target)
    /\ ~(phase = "render" /\ Panics(target))
    /\ Fetch(target)
    /\ page' = target
    /\ phase' = After
    /\ UNCHANGED <<pager, target, queue, shown, failed>>

(* The page does not exist: the message stays as it is.                    *)
NoSuchPage ==
    /\ phase \in {"first", "render", "last"}
    /\ ~Rendered(target)
    /\ ~(phase = "render" /\ Panics(target))
    /\ Fetch(target)
    /\ phase' = After
    /\ UNCHANGED <<pager, page, target, queue, shown, failed>>

(* The indexed closure is asked for a page that does not exist.            *)
Panic ==
    /\ phase = "render"
    /\ Panics(target)
    /\ phase' = "panicked"
    /\ UNCHANGED <<pager, fetched, ended, page, target, queue, shown, failed>>

(* The message cannot be edited, or more of the list was needed, whether   *)
(* there is such a page or not, and could not be fetched.                  *)
Fails ==
    \/ Rendered(target) /\ Fetch(target)
    \/ pager.kind = "scores" /\ ~ended /\ fetched < (target + 1) * pager.perPage
       /\ UNCHANGED <<fetched, ended>>

(* A variant that leaves the loop without the last rendering.              *)
ShowFailsAtOnce ==
    /\ "edit" \in Faults
    /\ phase \in {"single", "first", "render", "last"}
    /\ Fails
    /\ phase' = "done"
    /\ failed' = (failed \/ phase # "render")
    /\ UNCHANGED <<pager, page, target, queue, shown>>

(* Rendering or editing fails.  In the loop this ends it, and the page     *)
(* that was there is rendered a last time without its buttons.             *)
ShowFails ==
    /\ "edit" \in Faults
    /\ phase \in {"single", "first", "render", "last"}
    /\ Fails
    /\ IF phase = "render"
       THEN phase' = "last" /\ target' = page /\ UNCHANGED failed
       ELSE phase' = "done" /\ UNCHANGED target /\ failed' = TRUE
    /\ UNCHANGED <<pager, page, queue, shown>>

Next ==
    \/ Open
    \/ \E r \in Reactions : Press(r)
    \/ Take
    \/ Timeout
    \/ Show
    \/ NoSuchPage
    \/ Panic
    \/ ShowFails

Spec == Init /\ [][Next]_vars

-----------------------------------------------------------------------------
(* Properties *)

(* While a reaction is awaited the message shows the page from which it    *)
(* will be counted, however many were ignored, did not exist or wrapped    *)
(* (paginate_with_first_message's page).                                   *)
PageIsShown == phase = "waiting" /\ shown.page # NoPage => shown.page = page

(* When the pagination is over the message has no arrows, unless an edit   *)
(* outside of the loop failed (the last do_render_with_btns).              *)
ButtonsAreRemoved == phase = "done" /\ ~failed => shown.buttons = {}

(* ">>" goes forward from every page but the last, and not past the last,  *)
(* as long as the sum of the pages and the step fits a byte                *)
(* (handle_pagination_reaction).                                           *)
FastNextMovesOn ==
    [][Take /\ phase' = "render" /\ Head(queue) = "fast_next"
            /\ page < HandlerLen - 1 /\ HandlerLen + Fast(HandlerLen) <= 256
       => page < target' /\ target' < HandlerLen]_vars

(* What makes the first two inductive: until something is shown there are  *)
(* no buttons, what is shown can be rendered again, and the page stays the *)
(* one shown until the next rendering.                                     *)
ShownFits ==
    /\ phase \in {"open", "single", "first"} => shown.page = NoPage
    /\ shown.page = NoPage => shown.buttons = {}
    /\ shown.page # NoPage => Rendered(shown.page)
    /\ phase \in {"waiting", "render", "last"} /\ shown.page # NoPage => shown.page = page
    /\ phase = "last" => target = page

IInv == TypeOK /\ ShownFits /\ ButtonsAreRemoved
=============================================================================
