--------------------------- MODULE CommandsProofs ---------------------------
(***************************************************************************)
(* Theorems about the osu! commands of a channel, for every value of the   *)
(* constants: their types, that a command answers, that the last map is    *)
(* the one shown, and that leaderboards and rankings are fair.  All of     *)
(* them rest on what the steps are that a request has left, the last one   *)
(* on what sorting, keeping the best plays and adding up compute, too.     *)
(***************************************************************************)
EXTENDS OsuCommands, FoldLemmas, FiniteSetTheorems, FunctionTheorems

(* The steps a request for a command may have left.                        *)
Picking == {"score", "linked", "mentioned", "prompt"}
Opened == {"grid", "few", "set"}
Showing == {"score", "linked", "simulated", "map", "prompt", "page", "setpage", "all", "profile", "text",
            "table"}
Doing == {"ack", "who", "ask", "load", "input", "plays", "scores", "show", "say", "save", "list",
          "members", "links", "files", "confirm", "modal", "collect", "arrive", "turn", "report"}
Hows == Picking \cup Opened \cup Showing \cup Doing \cup {"", "any", "file", "channel"}
OfMap == {x \in Embed : x.kind = "map"}
OfSet == {x \in Embed : x.kind = "set"}

LoadedBy ==
    {<<"prefix", "last">>, <<"prefix", "check">>, <<"prefix", "leaderboard">>, <<"button", "check">>,
     <<"button", "last">>, <<"button", "mapset">>, <<"button", "lb">>, <<"button", "simulate">>}
InputOf == {<<"slash", "beatmap">>, <<"slash", "check">>, <<"slash", "leaderboard">>}

StepGood(c, s) ==
    /\ s.do = "load" => <<c.on, c.name>> \in LoadedBy
    /\ s.do = "load" /\ c.name = "simulate" => s.how = "map"
    /\ s.do = "input" => <<c.on, c.name>> \in InputOf
    /\ s.do = "plays" => s.how \in Picking
    /\ s.do = "say" => s.e \in Embed \cup {Nothing}
    /\ s.do = "list" => s.how \in Opened \cup {"table", "file"} /\ (s.how = "set" => s.e \in OfSet)
    /\ s.do = "turn" => s.how \in Opened /\ (s.how = "set" => s.e \in OfSet)
    /\ s.do = "show" =>
          /\ s.how \in Showing
          /\ s.how = "all" => s.e \in OfSet
          /\ s.how \in {"score", "linked", "simulated", "map", "prompt", "page", "setpage"} => s.e \in OfMap
    /\ s.do = "save" => s.how \in {""} \cup Opened /\ s.e \in OfMap
    /\ s.do = "modal" => c.on = "button" /\ s.e \in OfMap
    /\ s.do \in {"collect", "arrive"} => s.e \in Embed /\ c.on # "message" /\ c.name # "ranks"
    /\ s.do = "members" => c.name = "ranks"
    /\ s.do \in {"links", "files"} => c.on = "message"

StepsOf(c) == {s \in [do : Doing, how : Hows, e : Embed \cup {Nothing}] : StepGood(c, s)}

(* A map that is shown is saved next, and a page of a list shows what was  *)
(* just saved; a page is turned after it was shown.  While the plays of a  *)
(* leaderboard arrive, nothing else is left to do.                         *)
Opens(s) == \/ s.do = "show" /\ s.how \in {"score", "map"}
            \/ s.do = "save" /\ s.how # ""
Closes(s) == \/ s.do = "show" /\ s.how \in {"page", "setpage"}
             \/ s.do = "save" /\ s.how = ""
ShowsPage(s) == s.do = "show" /\ s.how \in {"page", "setpage", "all"}

Linked(a, b) ==
    /\ Opens(a) <=> Closes(b)
    /\ Opens(a) => a.do # b.do /\ Played(a.e) = Played(b.e)
    /\ b.do = "turn" => ShowsPage(a)
    /\ a.do # "arrive" /\ b.do # "arrive"

Chained(s) ==
    /\ \A i \in 1..(Len(s) - 1) : Linked(s[i], s[i + 1])
    /\ s # <<>> => ~ Opens(s[Len(s)])

Begins(s) == s # <<>> => ~ Closes(s[1]) /\ s[1].do \notin {"turn", "arrive"}

(* Steps after which something was said, or else is reported.              *)
Telling == {"load", "input", "plays", "show", "say", "list", "collect", "arrive",
            "members", "confirm", "report"}
Tells(s) == \E i \in 1..Len(s) : s[i].do \in Telling

-----------------------------------------------------------------------------
(* The requests *)

RunFields == {"at", "c", "todo", "msg", "told", "unheard", "turns", "page", "said", "prompt", "pending", "board"}

MessageGood(m) == m.links \in Seq(SUBSET Embed) /\ m.buttons \subseteq Button

(* A request with some steps left, or none.                                *)
RunTyped(q) ==
    /\ DOMAIN q = RunFields
    /\ q.at \in {"running", "panicked"}
    /\ q.c \in Command
    /\ q.todo \in Seq(StepsOf(q.c))
    /\ q.at = "panicked" => q.todo = <<>>
    /\ q.msg = Nothing \/ MessageGood(q.msg)
    /\ q.told \in BOOLEAN /\ q.unheard \in BOOLEAN
    /\ q.turns \in 0..MaxTurns
    /\ q.page \in Embed \cup {Nothing}
    /\ q.said \subseteq Embed
    /\ q.c.on = "message" => q.pending \subseteq Embed

Owes(q) ==
    q.c.on \in {"prefix", "slash"} /\ q.at = "running" =>
        q.told \/ q.unheard \/ Tells(q.todo)

TurnsBack(q) == q.todo # <<>> /\ q.todo[1].do = "turn" => q.page # Nothing

(* What is expected of a leaderboard or a ranking that was made.           *)
FairBoard(b) ==
    IF "rows" \in DOMAIN b
    THEN /\ RepresentsAll(b.rows, b.of, b.all)
         /\ FollowsOrder(IF b.reversed THEN Reverse(b.rows) ELSE b.rows, b.order)
         /\ PagesCover(b.rows, RowsPerPage)
    ELSE RanksFollow(b)

(* A board that was made is said or shown next, unless that failed.  A     *)
(* ranking may also stay.                                                  *)
Answered(q) ==
    q.c.name # "ranks" =>
        q.c.on # "message" /\ ~ TurnsLater(q) /\ q.todo[1].do \in {"say", "show", "report"}

Arriving(q) == q.todo # <<>> /\ q.todo[1].do = "arrive"

(* The plays that came so far, or the board that was made of them, if any. *)
BoardGood(q) ==
    /\ Arriving(q) => q.pending \subseteq Members \X BoardMaps /\ q.board \in Seq(Ranking)
    /\ q.todo # <<>> /\ ~ Arriving(q) /\ q.board # <<>> => FairBoard(q.board) /\ Answered(q)

RunGood(q) == RunTyped(q) /\ Chained(q.todo) /\ TurnsBack(q) /\ Owes(q) /\ BoardGood(q)

EndGood(q) ==
    /\ q.at \in {"idle", "ended", "panicked"}
    /\ q.at = "ended" /\ q.on \in {"prefix", "slash"} => q.told \/ q.unheard

RequestsGood ==
    /\ DOMAIN request = Requests
    /\ \A r \in Requests :
          IF Running(r) THEN RunGood(request[r]) /\ request[r].todo # <<>>
          ELSE EndGood(request[r])

-----------------------------------------------------------------------------
(* The last map *)

Agree(l, shown) == IF shown = Nothing THEN l = Nothing ELSE l # Nothing /\ Played(l) = shown

(* In between the two steps of a map, they agree once it is saved, or      *)
(* shown.                                                                  *)
Between(s, l, shown) ==
    IF ~ Closes(s) THEN Agree(l, shown)
    ELSE IF s.do = "save" THEN shown = Played(s.e)
    ELSE l # Nothing /\ Played(l) = Played(s.e)

LastGood ==
    ~ clash =>
        /\ \A r \in Requests, o \in Requests : Running(r) /\ Running(o) => r = o
        /\ Quiet => Agree(last, kept)
        /\ \A r \in Requests : Running(r) => Between(request[r].todo[1], last, kept)

Kept ==
    /\ last \in OfMap \cup {Nothing}
    /\ kept # Nothing => kept \in Embed /\ kept.mode # NoMode
    /\ newest.map # Nothing => newest.map \in Embed /\ newest.map.mode # NoMode
    /\ newest.saves \in BOOLEAN /\ (newest.saves => newest.map = kept)
    /\ \A m \in messages : MessageGood(m)
    /\ faults \in 0..MaxFaults
    /\ clash \in BOOLEAN

CommandsInv == Kept /\ RequestsGood /\ LastGood

-----------------------------------------------------------------------------
(* Lists of steps *)

LEMMA ConcatChained ==
    ASSUME NEW S, NEW s \in Seq(S), NEW t \in Seq(S), Chained(s), Chained(t),
           s # <<>> /\ t # <<>> => Linked(s[Len(s)], t[1])
    PROVE  Chained(s \o t)
  <1>1. CASE s = <<>>
    <2>1. s \o t = t
      BY <1>1
    <2> QED BY <2>1
  <1>2. CASE t = <<>>
    <2>1. s \o t = s
      BY <1>2
    <2> QED BY <2>1
  <1>3. CASE s # <<>> /\ t # <<>>
    <2> DEFINE w == s \o t
    <2>1. /\ w \in Seq(S) /\ Len(w) = Len(s) + Len(t) /\ Len(s) \in Nat \ {0} /\ Len(t) \in Nat \ {0}
          /\ \A i \in 1..Len(s) : w[i] = s[i]
          /\ \A i \in 1..Len(t) : w[Len(s) + i] = t[i]
      BY <1>3
    <2>2. ASSUME NEW i \in 1..(Len(w) - 1)
          PROVE  Linked(w[i], w[i + 1])
      <3>1. CASE i < Len(s)
        <4>1. w[i] = s[i] /\ w[i + 1] = s[i + 1] /\ i \in 1..(Len(s) - 1)
          BY <3>1, <2>1
        <4> QED BY <4>1 DEF Chained
      <3>2. CASE i = Len(s)
        <4>1. w[i] = s[Len(s)] /\ w[i + 1] = t[1]
          BY <3>2, <2>1
        <4> QED BY <4>1, <1>3
      <3>3. CASE i > Len(s)
        <4>1. PICK k \in 1..(Len(t) - 1) : i = Len(s) + k
          <5>1. i - Len(s) \in 1..(Len(t) - 1) /\ i = Len(s) + (i - Len(s))
            BY <3>3, <2>1
          <5> QED BY <5>1
        <4>2. w[i] = t[k] /\ w[i + 1] = t[k + 1]
          <5>1. k + 1 \in 1..Len(t) /\ k \in 1..Len(t) /\ i + 1 = Len(s) + (k + 1)
            BY <4>1, <2>1
          <5> QED BY <5>1, <4>1, <2>1
        <4> QED BY <4>2 DEF Chained
      <3> QED BY <3>1, <3>2, <3>3, <2>1
    <2>3. w[Len(w)] = t[Len(t)]
      BY <2>1
    <2> HIDE DEF w
    <2> QED BY <2>2, <2>3, <1>3 DEF Chained, w
  <1> QED BY <1>1, <1>2, <1>3

LEMMA ConcatOthers ==
    ASSUME NEW S, NEW s \in Seq(S), NEW t \in Seq(S)
    PROVE  /\ Begins(s) /\ (s = <<>> => Begins(t)) => Begins(s \o t)
           /\ Tells(s) \/ Tells(t) => Tells(s \o t)
  <1> DEFINE w == s \o t
  <1>1. /\ w \in Seq(S) /\ Len(w) = Len(s) + Len(t) /\ Len(s) \in Nat /\ Len(t) \in Nat
        /\ \A i \in 1..Len(s) : w[i] = s[i]
        /\ \A i \in 1..Len(t) : w[Len(s) + i] = t[i]
    OBVIOUS
  <1>2. CASE s = <<>>
    <2>1. w = t
      BY <1>2
    <2> QED BY <2>1, <1>2 DEF Begins, Tells
  <1>3. CASE s # <<>>
    <2>1. w # <<>> /\ w[1] = s[1]
      BY <1>3, <1>1
    <2>2. \A i \in 1..Len(s) : i \in 1..Len(w)
      BY <1>1
    <2>3. \A i \in 1..Len(t) : Len(s) + i \in 1..Len(w)
      BY <1>1
    <2>4. Tells(s) => Tells(w)
      BY <1>1, <2>2 DEF Tells
    <2>5. Tells(t) => Tells(w)
      BY <1>1, <2>3 DEF Tells
    <2>6. Begins(s) => Begins(w)
      BY <2>1, <1>3 DEF Begins
    <2> QED BY <2>4, <2>5, <2>6
  <1> QED BY <1>2, <1>3

(* The end of a list of steps.                                             *)
LEMMA SuffixChained ==
    ASSUME NEW S, NEW s \in Seq(S), Chained(s), NEW i \in 1..(Len(s) + 1)
    PROVE  /\ SubSeq(s, i, Len(s)) \in Seq(S)
           /\ Chained(SubSeq(s, i, Len(s)))
           /\ i <= Len(s) => SubSeq(s, i, Len(s)) # <<>> /\ SubSeq(s, i, Len(s))[1] = s[i]
           /\ i = Len(s) + 1 => SubSeq(s, i, Len(s)) = <<>>
  <1> DEFINE w == SubSeq(s, i, Len(s))
  <1>1. /\ w \in Seq(S) /\ Len(w) = Len(s) - i + 1 /\ Len(s) \in Nat
        /\ \A k \in 1..Len(w) : w[k] = s[i + k - 1]
    OBVIOUS
  <1>2. ASSUME NEW k \in 1..(Len(w) - 1)
        PROVE  Linked(w[k], w[k + 1])
    <2>1. k \in 1..Len(w) /\ k + 1 \in 1..Len(w) /\ i + k - 1 \in 1..(Len(s) - 1)
          /\ i + (k + 1) - 1 = (i + k - 1) + 1
      BY <1>1
    <2>2. w[k] = s[i + k - 1] /\ w[k + 1] = s[(i + k - 1) + 1]
      BY <2>1, <1>1
    <2> QED BY <2>1, <2>2 DEF Chained
  <1>3. CASE i = Len(s) + 1
    <2>1. w = <<>>
      BY <1>1, <1>3
    <2> QED BY <1>3, <2>1, <1>2, <1>1 DEF Chained
  <1>4. CASE i <= Len(s)
    <2>0. 1 \in 1..Len(w) /\ Len(w) \in 1..Len(w) /\ i + 1 - 1 = i /\ i + Len(w) - 1 = Len(s)
      BY <1>1, <1>4
    <2> HIDE DEF w
    <2>1. w # <<>> /\ w[1] = s[i] /\ w[Len(w)] = s[Len(s)] /\ s # <<>>
      BY <1>1, <2>0
    <2>2. Chained(w)
      BY <2>1, <1>2 DEF Chained
    <2> QED BY <2>1, <2>2, <1>1, <1>4 DEF w
  <1> QED BY <1>3, <1>4, <1>1

LEMMA TailChained ==
    ASSUME NEW S, NEW s \in Seq(S), Chained(s), s # <<>>
    PROVE  /\ Tail(s) \in Seq(S) /\ Chained(Tail(s)) /\ Head(s) = s[1]
           /\ Tail(s) # <<>> => Linked(s[1], Tail(s)[1])
           /\ ~ Opens(s[1]) /\ ~ ShowsPage(s[1]) => Begins(Tail(s))
           /\ Tells(s) /\ s[1].do \notin Telling => Tells(Tail(s))
  <1> DEFINE w == Tail(s)
  <1>1. /\ w \in Seq(S) /\ Len(w) = Len(s) - 1 /\ Len(s) \in Nat \ {0} /\ Head(s) = s[1]
        /\ \A k \in 1..Len(w) : w[k] = s[k + 1]
    OBVIOUS
  <1>2. ASSUME NEW k \in 1..(Len(w) - 1)
        PROVE  Linked(w[k], w[k + 1])
    <2>1. w[k] = s[k + 1] /\ w[k + 1] = s[(k + 1) + 1] /\ k + 1 \in 1..(Len(s) - 1)
      BY <1>1
    <2> QED BY <2>1 DEF Chained
  <1>3. w # <<>> => w[Len(w)] = s[Len(s)] /\ w[1] = s[1 + 1] /\ 1 \in 1..(Len(s) - 1)
    BY <1>1
  <1>4. ASSUME Tells(s), s[1].do \notin Telling
        PROVE  Tells(w)
    <2>1. PICK i \in 1..Len(s) : s[i].do \in Telling
      BY <1>4 DEF Tells
    <2>2. i # 1
      BY <2>1, <1>4
    <2>3. i - 1 \in 1..Len(w) /\ w[i - 1] = s[i]
      BY <2>2, <1>1
    <2> QED BY <2>1, <2>3 DEF Tells
  <1> HIDE DEF w
  <1>5. Chained(w)
    BY <1>2, <1>3 DEF Chained
  <1>6. w # <<>> => Linked(s[1], w[1])
    BY <1>3 DEF Chained
  <1>7. ~ Opens(s[1]) /\ ~ ShowsPage(s[1]) => Begins(w)
    BY <1>6 DEF Linked, Begins
  <1> QED BY <1>1, <1>4, <1>5, <1>6, <1>7 DEF w

-----------------------------------------------------------------------------
(* Steps that neither show a map nor save it nor turn a page.              *)
Plain(s) ==
    /\ s.do \notin {"save", "turn", "arrive"}
    /\ s.do = "show" => s.how \notin {"score", "map", "page", "setpage"}

PlainOf(c) == {s \in StepsOf(c) : Plain(s)}

LEMMA ShortSteps ==
    ASSUME NEW S, NEW a \in S, NEW b \in S
    PROVE  <<>> \in Seq(S) /\ <<a>> \in Seq(S) /\ <<a, b>> \in Seq(S)
  OBVIOUS

LEMMA ShortRest ==
    ASSUME NEW S, NEW s \in Seq(S), s # <<>>, Tail(s) = <<>>
    PROVE  Len(s) = 1
  <1> DEFINE w == Tail(s)
  <1>1. Len(w) = Len(s) - 1 /\ Len(s) \in Nat
    OBVIOUS
  <1>2. w = <<>>
    OBVIOUS
  <1> HIDE DEF w
  <1>3. Len(w) = 0
    BY <1>2
  <1> QED BY <1>1, <1>3

LEMMA PlainChained ==
    ASSUME NEW c, NEW s \in Seq(PlainOf(c))
    PROVE  s \in Seq(StepsOf(c)) /\ Chained(s) /\ Begins(s)
  <1>1. PlainOf(c) \subseteq StepsOf(c)
    BY DEF PlainOf
  <1>2. s \in Seq(StepsOf(c))
    BY <1>1
  <1>3. /\ Len(s) \in Nat
        /\ \A i \in 1..Len(s) : Plain(s[i])
        /\ s # <<>> => Len(s) \in 1..Len(s) /\ 1 \in 1..Len(s)
    BY DEF PlainOf
  <1>4. ASSUME NEW a, NEW b, Plain(a), Plain(b)
        PROVE  Linked(a, b)
    BY <1>4 DEF Plain, Linked, Opens, Closes
  <1>5. ASSUME NEW a, Plain(a)
        PROVE  ~ Opens(a) /\ ~ Closes(a) /\ a.do \notin {"turn", "arrive"}
    BY <1>5 DEF Plain, Opens, Closes
  <1>6. ASSUME NEW i \in 1..(Len(s) - 1)
        PROVE  Linked(s[i], s[i + 1])
    <2>1. i \in 1..Len(s) /\ i + 1 \in 1..Len(s)
      BY <1>3
    <2> QED BY <2>1, <1>3, <1>4
  <1>7. Chained(s)
    BY <1>3, <1>5, <1>6 DEF Chained
  <1>8. Begins(s)
    BY <1>3, <1>5 DEF Begins
  <1> QED BY <1>2, <1>7, <1>8

(* The steps of which the scripts are made.                                *)
LEMMA StepKinds ==
    ASSUME NEW c, NEW e \in Embed \cup {Nothing}
    PROVE  /\ Ack \in PlainOf(c) /\ Who \in PlainOf(c) /\ Ask \in PlainOf(c) /\ AskChannel \in PlainOf(c)
           /\ \A failed \in Doing : Report(failed) \in PlainOf(c)
           /\ \A t \in Picking : Plays(t) \in PlainOf(c)
           /\ Scores(e) \in PlainOf(c) /\ Say(e) \in PlainOf(c)
           /\ \A how \in {"profile", "text", "table"} : Show(how, Nothing) \in PlainOf(c)
           /\ \A how \in {"grid", "few", "table", "file"} : List(how, Nothing) \in PlainOf(c)
           /\ e \in OfSet => List("set", e) \in PlainOf(c)
           /\ c.name = "ranks" => Step("members", "", Nothing) \in PlainOf(c)
           /\ e \in OfMap => Show("linked", e) \in PlainOf(c) /\ Show("simulated", e) \in PlainOf(c)
                          /\ Show("prompt", e) \in PlainOf(c)
           /\ Step("confirm", "", e) \in PlainOf(c)
  <1>1. Nothing \in Embed \cup {Nothing}
    OBVIOUS
  <1>10. ASSUME NEW failed \in Doing
         PROVE  Report(failed) \in PlainOf(c)
    <2>1. failed \in Hows
      BY <1>10 DEF Hows
    <2> QED BY <2>1, <1>1 DEF Report, Step, PlainOf, StepsOf, StepGood, Plain, Doing
  <1>2. Ack \in PlainOf(c) /\ Who \in PlainOf(c) /\ Ask \in PlainOf(c) /\ AskChannel \in PlainOf(c)
    BY <1>1 DEF Ack, Who, Ask, AskChannel, Step, PlainOf, StepsOf, StepGood, Plain, Doing, Hows, Picking, Opened, Showing
  <1>3. ASSUME NEW t \in Picking
        PROVE  Plays(t) \in PlainOf(c)
    <2>1. t \in Hows
      BY <1>3 DEF Hows
    <2> QED BY <2>1, <1>1 DEF Plays, Step, PlainOf, StepsOf, StepGood, Plain, Doing, Hows, Picking, Opened, Showing
  <1>4. Scores(e) \in PlainOf(c) /\ Say(e) \in PlainOf(c)
    BY <1>1 DEF Scores, Say, Step, PlainOf, StepsOf, StepGood, Plain, Doing, Hows, Picking, Opened, Showing
  <1>5. ASSUME NEW how \in {"profile", "text", "table"}
        PROVE  Show(how, Nothing) \in PlainOf(c)
    BY <1>1 DEF Show, Step, PlainOf, StepsOf, StepGood, Plain, Doing, Hows, Picking, Opened, Showing
  <1>6. ASSUME NEW how \in {"grid", "few", "table", "file"}
        PROVE  List(how, Nothing) \in PlainOf(c)
    BY <1>1 DEF List, Step, PlainOf, StepsOf, StepGood, Plain, Doing, Hows, Picking, Opened, Showing
  <1>7. e \in OfSet => List("set", e) \in PlainOf(c)
    BY <1>1 DEF List, Step, PlainOf, StepsOf, StepGood, Plain, Doing, Hows, Picking, Opened, Showing
  <1>8. /\ c.name = "ranks" => Step("members", "", Nothing) \in PlainOf(c)
        /\ Step("confirm", "", e) \in PlainOf(c)
    BY <1>1 DEF Step, PlainOf, StepsOf, StepGood, Plain, Doing, Hows, Picking, Opened, Showing
  <1>9. e \in OfMap => Show("linked", e) \in PlainOf(c) /\ Show("simulated", e) \in PlainOf(c)
                       /\ Show("prompt", e) \in PlainOf(c)
    BY <1>1 DEF Show, Step, PlainOf, StepsOf, StepGood, Plain, Doing, Hows, Picking, Opened, Showing
  <1> QED BY <1>2, <1>3, <1>4, <1>5, <1>6, <1>7, <1>8, <1>9, <1>10

LEMMA StepKindsOfCommand ==
    ASSUME NEW c, NEW kind \in {"any", "set", "map"}
    PROVE  /\ <<c.on, c.name>> \in LoadedBy /\ (c.name = "simulate" => kind = "map")
                 => Load(kind) \in PlainOf(c)
           /\ <<c.on, c.name>> \in InputOf => Input \in PlainOf(c)
           /\ c.on = "message" => EachLink \in PlainOf(c) /\ Step("files", "", Nothing) \in PlainOf(c)
  BY DEF Load, Input, EachLink, Step, PlainOf, StepsOf, StepGood, Plain, Doing, Hows, Picking, Opened, Showing

(* A list tells something when one of its steps does.                      *)
LEMMA ListingKinds ==
    ASSUME NEW c \in Command, NEW style \in {"grid", "few", "table", "file"}
    PROVE  Listing(c, style) \in Seq(PlainOf(c)) /\ Tells(Listing(c, style))
  <1>1. StyleOr(c, style) \in {"grid", "few", "table", "file"}
    BY DEF StyleOr, Command
  <1>2. /\ Plays("score") \in PlainOf(c) /\ Say(Nothing) \in PlainOf(c)
        /\ List(StyleOr(c, style), Nothing) \in PlainOf(c)
    BY <1>1, StepKinds DEF Picking
  <1>3. Plays("score").do \in Telling /\ Say(Nothing).do \in Telling
    BY DEF Plays, Say, Step, Telling
  <1>4. CASE c.nth
    <2>1. Listing(c, style) = <<Plays("score")>>
      BY <1>4 DEF Listing
    <2> QED BY <2>1, <1>2, <1>3 DEF Tells
  <1>5. CASE ~ c.nth
    <2>1. Listing(c, style) = <<Say(Nothing), List(StyleOr(c, style), Nothing)>>
      BY <1>5 DEF Listing
    <2> QED BY <2>1, <1>2, <1>3 DEF Tells
  <1> QED BY <1>4, <1>5

-----------------------------------------------------------------------------
(* The scripts *)

(* What a command does tells its user something.                           *)
Answering(c) == {s \in Seq(PlainOf(c)) : s # <<>> /\ Tells(s)}

LEMMA AnsweringConcat ==
    ASSUME NEW c, NEW s \in Seq(PlainOf(c)), NEW t \in Seq(PlainOf(c)),
           s \in Answering(c) \/ t \in Answering(c)
    PROVE  s \o t \in Answering(c)
  <1>1. s \o t \in Seq(PlainOf(c)) /\ (s # <<>> \/ t # <<>> => s \o t # <<>>)
    OBVIOUS
  <1>2. Tells(s \o t)
    BY ConcatOthers DEF Answering
  <1> QED BY <1>1, <1>2 DEF Answering

(* Short lists whose last step tells something.                            *)
LEMMA AnsweringShort ==
    ASSUME NEW c, NEW x \in PlainOf(c), x.do \in Telling, NEW a \in PlainOf(c), NEW b \in PlainOf(c)
    PROVE  /\ <<x>> \in Answering(c)
           /\ <<a, x>> \in Answering(c) /\ <<x, a>> \in Answering(c)
           /\ <<a, b, x>> \in Answering(c)
  <1>1. <<x>> \in Seq(PlainOf(c)) /\ Len(<<x>>) = 1 /\ <<x>>[1] = x
    OBVIOUS
  <1>2. <<a, x>> \in Seq(PlainOf(c)) /\ Len(<<a, x>>) = 2 /\ <<a, x>>[2] = x
    OBVIOUS
  <1>3. <<a, b, x>> \in Seq(PlainOf(c)) /\ Len(<<a, b, x>>) = 3 /\ <<a, b, x>>[3] = x
    OBVIOUS
  <1>4. 1 \in 1..1 /\ 2 \in 1..2 /\ 3 \in 1..3
    OBVIOUS
  <1>6. <<x, a>> \in Seq(PlainOf(c)) /\ Len(<<x, a>>) = 2 /\ <<x, a>>[1] = x /\ 1 \in 1..2
    OBVIOUS
  <1>5. Tells(<<x>>) /\ Tells(<<a, x>>) /\ Tells(<<x, a>>) /\ Tells(<<a, b, x>>)
    BY <1>1, <1>2, <1>3, <1>4, <1>6 DEF Tells
  <1> QED BY <1>1, <1>2, <1>3, <1>5, <1>6 DEF Answering

LEMMA TellingSteps ==
    /\ \A t : Plays(t).do \in Telling /\ Load(t).do \in Telling
    /\ \A e : Say(e).do \in Telling
    /\ \A how, e : Show(how, e).do \in Telling /\ List(how, e).do \in Telling
    /\ Input.do \in Telling /\ Step("members", "", Nothing).do \in Telling
    /\ \A e : Step("confirm", "", e).do \in Telling
  BY DEF Plays, Load, Scores, Say, Show, List, Input, Step, Telling

(* The parts that several scripts have in common.                          *)
LEMMA SharedScripts ==
    ASSUME NEW c \in Command
    PROVE  /\ \A style \in {"grid", "few", "table", "file"} : Listing(c, style) \in Answering(c)
           /\ SaveRequirements \in Answering(c)
           /\ UserExtras \in Seq(PlainOf(c))
           /\ UserExtras \o <<Show("profile", Nothing)>> \in Answering(c)
           /\ c.name = "ranks" => RankMembers \in Answering(c)
           /\ CleanCache \in Answering(c)
  <1>1. ASSUME NEW style \in {"grid", "few", "table", "file"}
        PROVE  Listing(c, style) \in Answering(c)
    <2>1. Listing(c, style) # <<>>
      BY DEF Listing
    <2> QED BY <2>1, ListingKinds DEF Answering
  <1>2. SaveRequirements \in Answering(c)
    BY StepKinds, TellingSteps, AnsweringShort DEF SaveRequirements, Picking
  <1>3. UserExtras \in Seq(PlainOf(c))
    <2>1. Ask \in PlainOf(c)
      BY StepKinds
    <2> QED BY <2>1 DEF UserExtras
  <1>4. UserExtras \o <<Show("profile", Nothing)>> \in Answering(c)
    <2>1. <<Show("profile", Nothing)>> \in Answering(c)
      BY StepKinds, TellingSteps, AnsweringShort
    <2>2. <<Show("profile", Nothing)>> \in Seq(PlainOf(c))
      BY <2>1 DEF Answering
    <2> QED BY <2>1, <2>2, <1>3, AnsweringConcat
  <1>5. c.name = "ranks" => RankMembers \in Answering(c)
    BY StepKinds, TellingSteps, AnsweringShort DEF RankMembers
  <1>6. CleanCache \in Answering(c)
    BY StepKinds, TellingSteps, AnsweringShort DEF CleanCache
  <1> QED BY <1>1, <1>2, <1>3, <1>4, <1>5, <1>6

(* A first step, or a few, before a list that tells something.             *)
LEMMA AnsweringAfter ==
    ASSUME NEW c, NEW s \in Answering(c),
           NEW x \in PlainOf(c), NEW y \in PlainOf(c), NEW z \in PlainOf(c)
    PROVE  /\ <<x>> \o s \in Answering(c)
           /\ <<x, y>> \o s \in Answering(c)
           /\ <<x, y, z>> \o s \in Answering(c)
  <1>1. <<x>> \in Seq(PlainOf(c)) /\ <<x, y>> \in Seq(PlainOf(c)) /\ <<x, y, z>> \in Seq(PlainOf(c))
    OBVIOUS
  <1>2. s \in Seq(PlainOf(c))
    BY DEF Answering
  <1> QED BY <1>1, <1>2, AnsweringConcat

LEMMA NamesOf ==
    ASSUME NEW c \in Command
    PROVE  /\ c.on \in Surface
           /\ c.on = "prefix" =>
                c.name \in {"recent", "pins", "top", "user", "save", "forcesave", "last", "check",
                           "clean", "ranks", "leaderboard"}
           /\ c.on = "slash" =>
                c.name \in {"recent", "pins", "top", "user", "save", "forcesave", "beatmap", "check",
                           "ranks", "leaderboard", "clean", "score"}
           /\ c.on = "button" => c.name \in {"check", "last", "mapset", "simulate", "lb"}
           /\ c.on = "message" => c.name \in {"hook", "score_hook", "dot_osu_hook"}
  <1>1. c.on \in Surface /\ c.name \in Handlers[c.on]
    BY DEF Command
  <1>2. /\ Handlers["prefix"] =
             {"recent", "pins", "top", "user", "save", "forcesave", "last", "check", "clean",
              "ranks", "leaderboard"}
        /\ Handlers["slash"] =
             {"recent", "pins", "top", "user", "save", "forcesave", "beatmap", "check", "ranks",
              "leaderboard", "clean", "score"}
        /\ Handlers["button"] = {"check", "last", "mapset", "simulate", "lb"}
        /\ Handlers["message"] = {"hook", "score_hook", "dot_osu_hook"}
    BY DEF Handlers
  <1> QED BY <1>1, <1>2

LEMMA PrefixScripts ==
    ASSUME NEW c \in Command, c.on = "prefix"
    PROVE  Script(c) \in Answering(c)
  <1> DEFINE profile == UserExtras \o <<Show("profile", Nothing)>>
  <1>0. Ack \in PlainOf(c) /\ Who \in PlainOf(c) /\ Ask \in PlainOf(c) /\ Scores(Nothing) \in PlainOf(c)
    BY StepKinds
  <1>1. c.name \in {"recent", "pins", "top", "user", "save", "forcesave", "last", "check", "clean",
                    "ranks", "leaderboard"}
    BY NamesOf
  <1>2. CASE c.name = "recent"
    <2>1. Recent(c) \in Answering(c)
      BY <1>0, SharedScripts, AnsweringAfter DEF Recent
    <2> QED BY <1>2, <2>1 DEF Script
  <1>3. CASE c.name = "pins"
    <2>1. Pins(c) \in Answering(c)
      BY <1>0, SharedScripts, AnsweringAfter DEF Pins
    <2> QED BY <1>3, <2>1 DEF Script
  <1>4. CASE c.name = "top"
    <2>1. Top(c) \in Answering(c)
      BY <1>0, SharedScripts, AnsweringAfter DEF Top
    <2> QED BY <1>4, <2>1 DEF Script
  <1>5. CASE c.name = "user"
    <2>1. GetUser = <<Who, Scores(Nothing)>> \o profile
      BY DEF GetUser, UserExtras
    <2>2. GetUser \in Answering(c)
      BY <2>1, <1>0, SharedScripts, AnsweringAfter
    <2> QED BY <1>5, <2>2 DEF Script
  <1>6. CASE c.name = "save"
    <2>1. PrefixSave \in Answering(c)
      BY SharedScripts DEF PrefixSave
    <2> QED BY <1>6, <2>1 DEF Script
  <1>7. CASE c.name = "forcesave"
    <2>1. PrefixForcesave = <<Scores(Nothing), Ask>> \o profile
      BY DEF PrefixForcesave, UserExtras
    <2>2. PrefixForcesave \in Answering(c)
      BY <2>1, <1>0, SharedScripts, AnsweringAfter
    <2> QED BY <1>7, <2>2 DEF Script
  <1>8. CASE c.name = "last"
    <2>1. Load(IF c.set THEN "set" ELSE "any") \in PlainOf(c)
      BY <1>8, StepKindsOfCommand DEF LoadedBy
    <2>2. LastCommand(c) \in Answering(c)
      BY <1>0, <2>1, TellingSteps, AnsweringShort DEF LastCommand
    <2> QED BY <1>8, <2>2 DEF Script
  <1>9. CASE c.name = "check"
    <2>1. Load("any") \in PlainOf(c)
      BY <1>9, StepKindsOfCommand DEF LoadedBy
    <2>2. PrefixCheck \in Answering(c)
      BY <1>0, <2>1, TellingSteps, AnsweringShort DEF PrefixCheck
    <2> QED BY <1>9, <2>2 DEF Script
  <1>10. CASE c.name = "clean"
    BY <1>10, SharedScripts DEF Script
  <1>11. CASE c.name = "ranks"
    <2>1. ServerRank \in Answering(c)
      BY <1>11, SharedScripts DEF ServerRank
    <2> QED BY <1>11, <2>1 DEF Script
  <1>12. CASE c.name = "leaderboard"
    <2>1. Load("any") \in PlainOf(c)
      BY <1>12, StepKindsOfCommand DEF LoadedBy
    <2>2. ShowLeaderboard \in Answering(c)
      BY <1>0, <2>1, TellingSteps, AnsweringShort DEF ShowLeaderboard
    <2> QED BY <1>12, <2>2 DEF Script
  <1> QED BY <1>1, <1>2, <1>3, <1>4, <1>5, <1>6, <1>7, <1>8, <1>9, <1>10, <1>11, <1>12

LEMMA SlashScripts ==
    ASSUME NEW c \in Command, c.on = "slash"
    PROVE  Script(c) \in Answering(c)
  <1> DEFINE profile == UserExtras \o <<Show("profile", Nothing)>>
  <1>0. Ack \in PlainOf(c) /\ Who \in PlainOf(c) /\ Ask \in PlainOf(c) /\ Scores(Nothing) \in PlainOf(c)
    BY StepKinds
  <1>1. c.name \in {"recent", "pins", "top", "user", "save", "forcesave", "beatmap", "check", "ranks",
                    "leaderboard", "clean", "score"}
    BY NamesOf
  <1>2. CASE c.name = "recent"
    <2>1. SlashRecent(c) \in Answering(c)
      BY <1>0, SharedScripts, AnsweringAfter DEF SlashRecent
    <2> QED BY <1>2, <2>1 DEF Script
  <1>3. CASE c.name = "pins"
    <2>1. SlashPinned(c) \in Answering(c)
      BY <1>0, SharedScripts, AnsweringAfter DEF SlashPinned
    <2> QED BY <1>3, <2>1 DEF Script
  <1>4. CASE c.name = "top"
    <2>1. SlashTop(c) \in Answering(c)
      BY <1>0, SharedScripts, AnsweringAfter DEF SlashTop
    <2> QED BY <1>4, <2>1 DEF Script
  <1>5. CASE c.name = "user"
    <2>1. Profile = <<Who, Ack, Scores(Nothing)>> \o profile
      BY DEF Profile, UserExtras
    <2>2. Profile \in Answering(c)
      BY <2>1, <1>0, SharedScripts, AnsweringAfter
    <2> QED BY <1>5, <2>2 DEF Script
  <1>6. CASE c.name = "save"
    <2>1. SlashSave \in Answering(c)
      BY <1>0, SharedScripts, AnsweringAfter DEF SlashSave
    <2> QED BY <1>6, <2>1 DEF Script
  <1>7. CASE c.name = "forcesave"
    <2>1. Show("text", Nothing) \in PlainOf(c)
      BY StepKinds
    <2>2. <<Ack, Ask, Show("text", Nothing)>> \in Answering(c)
      BY <1>0, <2>1, TellingSteps, AnsweringShort
    <2>3. <<Ack, Ask, Ask>> \o UserExtras \o <<Show("profile", Nothing)>> = <<Ack, Ask, Ask>> \o profile
      BY DEF UserExtras
    <2>4. <<Ack, Ask, Ask>> \o profile \in Answering(c)
      BY <1>0, SharedScripts, AnsweringAfter
    <2>5. SlashForcesave(c) \in Answering(c)
      BY <2>2, <2>3, <2>4 DEF SlashForcesave
    <2> QED BY <1>7, <2>5 DEF Script
  <1>8. CASE c.name \in {"beatmap", "check", "leaderboard"}
    <2>1. Input \in PlainOf(c)
      BY <1>8, StepKindsOfCommand DEF InputOf
    <2>2. BeatmapCommand \in Answering(c) /\ SlashCheck \in Answering(c) /\ SlashLeaderboard \in Answering(c)
      BY <1>0, <2>1, TellingSteps, AnsweringShort DEF BeatmapCommand, SlashCheck, SlashLeaderboard
    <2> QED BY <1>8, <2>2 DEF Script
  <1>9. CASE c.name = "ranks"
    <2>1. Ranks \in Answering(c)
      BY <1>0, <1>9, SharedScripts, AnsweringAfter DEF Ranks
    <2> QED BY <1>9, <2>1 DEF Script
  <1>10. CASE c.name = "clean"
    <2>1. ClearCache \in Answering(c)
      BY <1>0, SharedScripts, AnsweringAfter DEF ClearCache
    <2> QED BY <1>10, <2>1 DEF Script
  <1>11. CASE c.name = "score"
    <2>1. Plays("linked") \in PlainOf(c)
      BY StepKinds DEF Picking
    <2>2. ScoreCommand \in Answering(c)
      BY <1>0, <2>1, TellingSteps, AnsweringShort DEF ScoreCommand
    <2> QED BY <1>11, <2>2 DEF Script
  <1> QED BY <1>1, <1>2, <1>3, <1>4, <1>5, <1>6, <1>7, <1>8, <1>9, <1>10, <1>11

LEMMA OtherScripts ==
    ASSUME NEW c \in Command, c.on \in {"button", "message"}
    PROVE  Script(c) \in Seq(PlainOf(c)) /\ Script(c) # <<>>
  <1>0. Ack \in PlainOf(c) /\ Ask \in PlainOf(c) /\ Plays("mentioned") \in PlainOf(c)
    BY StepKinds DEF Picking
  <1>1. CASE c.on = "button"
    <2>1. c.name \in {"check", "last", "mapset", "simulate", "lb"}
      BY <1>1, NamesOf
    <2>2. /\ c.name # "simulate" => Load("any") \in PlainOf(c) /\ Load("set") \in PlainOf(c)
          /\ Load("map") \in PlainOf(c)
      BY <1>1, <2>1, StepKindsOfCommand DEF LoadedBy
    <2>3. c.name # "simulate" =>
             CheckButton \in Seq(PlainOf(c)) /\ LastButton \in Seq(PlainOf(c))
             /\ LastSetButton \in Seq(PlainOf(c)) /\ LbButton \in Seq(PlainOf(c))
      BY <1>0, <2>2 DEF CheckButton, LastButton, LastSetButton, LbButton
    <2>4. SimulateButton \in Seq(PlainOf(c))
      BY <2>2 DEF SimulateButton
    <2>5. /\ CheckButton # <<>> /\ LastButton # <<>> /\ LastSetButton # <<>> /\ LbButton # <<>>
          /\ SimulateButton # <<>>
      BY DEF CheckButton, LastButton, LastSetButton, LbButton, SimulateButton
    <2> QED BY <1>1, <2>1, <2>3, <2>4, <2>5 DEF Script
  <1>2. CASE c.on = "message"
    <2>1. c.name \in {"hook", "score_hook", "dot_osu_hook"}
      BY <1>2, NamesOf
    <2> DEFINE files == Step("files", "", Nothing)
    <2>2. EachLink \in PlainOf(c)
      BY <1>2, StepKindsOfCommand
    <2>5. files \in PlainOf(c) /\ DotOsuHook = <<files>>
      BY <1>2, StepKindsOfCommand DEF DotOsuHook
    <2> HIDE DEF files
    <2>3. LinkHook \in Seq(PlainOf(c)) /\ ScoreHook \in Seq(PlainOf(c)) /\ DotOsuHook \in Seq(PlainOf(c))
      <3>1. LinkHook \in Seq(PlainOf(c))
        <4>1. AskChannel \in PlainOf(c)
          BY StepKinds
        <4> QED BY <4>1, <2>2 DEF LinkHook
      <3>2. ScoreHook \in Seq(PlainOf(c))
        BY <1>0 DEF ScoreHook
      <3>3. DotOsuHook \in Seq(PlainOf(c))
        BY <2>5
      <3> QED BY <3>1, <3>2, <3>3
    <2>4. LinkHook # <<>> /\ ScoreHook # <<>> /\ DotOsuHook # <<>>
      BY DEF LinkHook, ScoreHook, DotOsuHook
    <2> QED BY <1>2, <2>1, <2>3, <2>4 DEF Script
  <1> QED BY <1>1, <1>2

(* Every request begins with a script of steps that show no map yet.       *)
LEMMA Scripts ==
    ASSUME NEW c \in Command
    PROVE  /\ Script(c) \in Seq(PlainOf(c)) /\ Script(c) # <<>>
           /\ c.on \in {"prefix", "slash"} => Tells(Script(c))
  <1>1. c.on \in {"prefix", "slash", "button", "message"}
    BY NamesOf DEF Surface
  <1> QED BY <1>1, PrefixScripts, SlashScripts, OtherScripts DEF Answering

-----------------------------------------------------------------------------
(* Links, and the modes of maps *)

LEMMA EmbedKinds ==
    /\ Embed = OfMap \cup OfSet /\ Nothing \notin Embed
    /\ \A m \in BoardMaps : \A mode \in Modes \cup {NoMode} :
          MapEmbed(m, mode) \in OfMap /\ SetEmbed(SetOf[m], mode) \in OfSet
    /\ \A e \in OfMap : e.of \in BoardMaps /\ e.mode \in Modes \cup {NoMode} /\ e.kind = "map"
    /\ \A e \in OfSet : e.mode \in Modes \cup {NoMode} /\ e.kind = "set"
    /\ \A e \in OfSet : \A mode \in Modes \cup {NoMode} : SetEmbed(e.of, mode) \in OfSet
  BY CommandsAssumption DEF Embed, OfMap, OfSet, MapEmbed, SetEmbed

(* A map is played in a mode that it has, and a map in the mode it is      *)
(* played in is played in that mode.                                       *)
LEMMA PlayedModes ==
    ASSUME NEW m \in BoardMaps, NEW mode \in Modes \cup {NoMode}
    PROVE  /\ WithOverride(Native[m], mode) \in Modes
           /\ WithOverride(Native[m], mode) # NoMode
           /\ Played(MapEmbed(m, mode)) = MapEmbed(m, WithOverride(Native[m], mode))
           /\ Played(MapEmbed(m, WithOverride(Native[m], mode))) = Played(MapEmbed(m, mode))
  <1>1. Native[m] \in Modes /\ NoMode \notin Modes
    BY CommandsAssumption
  <1>2. WithOverride(Native[m], mode) \in Modes
    BY <1>1 DEF WithOverride
  <1>3. WithOverride(Native[m], WithOverride(Native[m], mode)) = WithOverride(Native[m], mode)
    BY <1>1 DEF WithOverride
  <1>4. \A x : Played(MapEmbed(m, x)) = MapEmbed(m, WithOverride(Native[m], x))
    BY DEF Played, MapEmbed
  <1> QED BY <1>1, <1>2, <1>3, <1>4

LEMMA PlayedKinds ==
    ASSUME NEW e \in OfMap
    PROVE  /\ Played(e) \in OfMap /\ Played(e).mode # NoMode
           /\ ShortLink(e) \in OfMap
           /\ \A mode \in Modes \cup {NoMode} : AsSet(e, mode) \in OfSet
  <1>1. e.of \in BoardMaps /\ e.mode \in Modes \cup {NoMode}
    BY EmbedKinds
  <1>2. Played(e) = MapEmbed(e.of, WithOverride(Native[e.of], e.mode))
    BY DEF Played
  <1>3. WithOverride(Native[e.of], e.mode) \in Modes \cup {NoMode} /\ WithOverride(Native[e.of], e.mode) # NoMode
    BY <1>1, PlayedModes
  <1>4. Played(e) \in OfMap
    BY <1>1, <1>2, <1>3, EmbedKinds
  <1>5. Played(e).mode # NoMode
    BY <1>2, <1>3 DEF MapEmbed
  <1>6. ShortLink(e) \in OfMap
    BY <1>1, EmbedKinds DEF ShortLink
  <1>7. ASSUME NEW mode \in Modes \cup {NoMode}
        PROVE  AsSet(e, mode) \in OfSet
    BY <1>1, EmbedKinds DEF AsSet
  <1> QED BY <1>4, <1>5, <1>6, <1>7

-----------------------------------------------------------------------------
(* What follows a step *)

GoodSteps(c, s) == s \in Seq(StepsOf(c)) /\ Chained(s) /\ Begins(s)

LEMMA PlainGood ==
    ASSUME NEW c, NEW s \in Seq(PlainOf(c))
    PROVE  GoodSteps(c, s)
  BY PlainChained DEF GoodSteps

LEMMA GoodConcat ==
    ASSUME NEW c, NEW s, NEW t, GoodSteps(c, s), GoodSteps(c, t)
    PROVE  GoodSteps(c, s \o t)
  <1>0. ASSUME s # <<>>
        PROVE  s[Len(s)].do # "arrive"
    <2> DEFINE n == Len(s)
    <2>1. n \in Nat \ {0}
      BY <1>0 DEF GoodSteps
    <2>2. CASE n = 1
      BY <1>0, <2>2 DEF GoodSteps, Begins
    <2>3. CASE n # 1
      <3> DEFINE k == n - 1
      <3>1. k \in 1..(n - 1) /\ k + 1 = n
        <4> HIDE DEF n
        <4> QED BY <2>1, <2>3
      <3> HIDE DEF k
      <3>2. Linked(s[k], s[k + 1])
        BY <3>1 DEF GoodSteps, Chained
      <3> QED BY <3>1, <3>2 DEF Linked
    <2> QED BY <2>2, <2>3
  <1>1. s # <<>> /\ t # <<>> => Linked(s[Len(s)], t[1])
    BY <1>0 DEF GoodSteps, Chained, Begins, Linked
  <1>2. s \o t \in Seq(StepsOf(c))
    BY DEF GoodSteps
  <1>3. Chained(s \o t)
    BY <1>1, ConcatChained DEF GoodSteps
  <1>4. Begins(s \o t)
    BY ConcatOthers DEF GoodSteps
  <1> QED BY <1>2, <1>3, <1>4 DEF GoodSteps

(* A map is shown and saved.                                               *)
LEMMA ShowThenSave ==
    ASSUME NEW c, NEW how \in {"map", "score"}, NEW e \in OfMap, NEW f \in OfMap, Played(e) = Played(f)
    PROVE  /\ GoodSteps(c, <<Show(how, e), Save(f)>>) /\ Tells(<<Show(how, e), Save(f)>>)
           /\ GoodSteps(c, <<Ask, Show(how, e), Save(f)>>) /\ Tells(<<Ask, Show(how, e), Save(f)>>)
           /\ <<Show(how, e), Save(f)>> # <<>> /\ <<Ask, Show(how, e), Save(f)>> # <<>>
  <1> DEFINE a == Show(how, e)
             b == Save(f)
             s == <<a, b>>
             t == <<Ask, a, b>>
  <1>1. Ask \in StepsOf(c) /\ Plain(Ask)
    BY StepKinds DEF PlainOf
  <1>2. a \in StepsOf(c) /\ b \in StepsOf(c)
    BY DEF Show, Save, Step, StepsOf, StepGood, Doing, Hows, Picking, Opened, Showing, OfMap
  <1>3. a.do = "show" /\ a.do \in Telling /\ Opens(a) /\ a.e = e
    BY DEF Show, Step, Opens, Telling
  <1>9. b.do = "save" /\ b.how = "" /\ b.e = f
    BY DEF Save, Step
  <1>4. /\ Linked(a, b) /\ Linked(Ask, a) /\ ~ Opens(b) /\ ~ Closes(a) /\ ~ Closes(Ask)
        /\ Ask.do \notin {"turn", "arrive"}
    <2>1. ~ Closes(a)
      BY DEF Show, Step, Closes
    <2> HIDE DEF a, b
    <2> QED BY <1>1, <1>3, <1>9, <2>1 DEF Linked, Opens, Closes, Plain
  <1> HIDE DEF a, b
  <1>5. /\ s \in Seq(StepsOf(c)) /\ Len(s) = 2 /\ s[1] = a /\ s[2] = b
        /\ t \in Seq(StepsOf(c)) /\ Len(t) = 3 /\ t[1] = Ask /\ t[2] = a /\ t[3] = b
        /\ s # <<>> /\ t # <<>>
    BY <1>1, <1>2
  <1> HIDE DEF s, t
  <1>6. Chained(s) /\ Begins(s)
    BY <1>3, <1>4, <1>5 DEF Chained, Begins
  <1>7. Chained(t) /\ Begins(t)
    <2>1. \A i \in 1..(Len(t) - 1) : i = 1 \/ i = 2
      BY <1>5
    <2> QED BY <2>1, <1>3, <1>4, <1>5 DEF Chained, Begins
  <1>8. Tells(s) /\ Tells(t)
    <2>1. 1 \in 1..Len(s) /\ 2 \in 1..Len(t)
      BY <1>5
    <2> QED BY <2>1, <1>3, <1>5 DEF Tells
  <1> QED BY <1>5, <1>6, <1>7, <1>8 DEF GoodSteps, s, t, a, b

LEMMA AnsweringGood ==
    ASSUME NEW c, NEW s \in Answering(c)
    PROVE  GoodSteps(c, s) /\ Tells(s) /\ s # <<>>
  BY PlainGood DEF Answering

LEMMA FoundGood ==
    ASSUME NEW c \in Command, <<c.on, c.name>> \in LoadedBy \cup InputOf, NEW e \in Embed,
           c.name = "simulate" => e \in OfMap
    PROVE  /\ GoodSteps(c, Found(c, e)) /\ Found(c, e) # <<>>
           /\ c.on \in {"prefix", "slash"} => Tells(Found(c, e))
  <1> DEFINE say == Say(e)
             scores == Scores(e)
  <1>0. /\ Ack \in PlainOf(c) /\ Who \in PlainOf(c) /\ Ask \in PlainOf(c)
        /\ say \in PlainOf(c) /\ scores \in PlainOf(c) /\ say.do \in Telling
    BY StepKinds, TellingSteps
  <1>1. e \in OfMap => e.kind = "map" /\ e.of \in BoardMaps
    BY EmbedKinds
  <1>2. e \notin OfMap => e \in OfSet /\ e.kind # "map"
    BY EmbedKinds
  <1>3. ASSUME NEW x \in PlainOf(c), NEW y \in PlainOf(c), x.do \in Telling
        PROVE  <<x, y>> \in Answering(c)
    BY <1>3, AnsweringShort
  <1>4. ShowLast(e) # <<>> /\ GoodSteps(c, ShowLast(e)) /\ Tells(ShowLast(e))
    <2>1. CASE e \in OfMap
      <3>1. ShowLast(e) = <<Ask, Show("map", e), Save(e)>>
        BY <1>1, <2>1 DEF ShowLast
      <3> QED BY <3>1, <2>1, ShowThenSave
    <2>2. CASE e \notin OfMap
      <3> DEFINE list == List("set", e)
      <3>1. ShowLast(e) = <<say, list>> /\ list \in PlainOf(c)
        BY <1>2, <2>2, StepKinds DEF ShowLast
      <3> HIDE DEF list, say
      <3> QED BY <3>1, <1>0, <1>3, AnsweringGood
    <2> QED BY <2>1, <2>2
  <1>5. ASSUME <<c.on, c.name>> = <<"slash", "beatmap">>
        PROVE  ShowBeatmap(c, e) # <<>> /\ GoodSteps(c, ShowBeatmap(c, e)) /\ Tells(ShowBeatmap(c, e))
    <2>0. c.mode \in Modes \cup {NoMode}
      BY DEF Command
    <2>1. CASE e \in OfMap
      <3> DEFINE f == MapEmbed(e.of, c.mode)
                 g == MapEmbed(e.of, WithOverride(Native[e.of], c.mode))
      <3>1. ShowBeatmap(c, e) = <<Ask, Show("map", f), Save(g)>>
        BY <1>1, <2>1 DEF ShowBeatmap
      <3>2. f \in OfMap /\ g \in OfMap /\ Played(f) = Played(g)
        BY <1>1, <2>0, <2>1, EmbedKinds, PlayedModes
      <3> HIDE DEF f, g
      <3> QED BY <3>1, <3>2, ShowThenSave
    <2>2. CASE e \notin OfMap
      <3> DEFINE f == SetEmbed(e.of, c.mode)
                 list == List("set", f)
      <3>1. f \in OfSet /\ f \in Embed
        BY <1>2, <2>0, <2>2, EmbedKinds
      <3>2. ShowBeatmap(c, e) = <<say, list>>
        BY <1>2, <2>2 DEF ShowBeatmap
      <3> HIDE DEF f
      <3>3. list \in PlainOf(c)
        BY <3>1, StepKinds
      <3> HIDE DEF list, say
      <3> QED BY <3>2, <3>3, <1>0, <1>3, AnsweringGood
    <2> QED BY <2>1, <2>2
  <1>6. ASSUME NEW style \in {"few", "grid", "table", "file"}
        PROVE  ShowScores(style, e) \in Answering(c)
    <2> DEFINE list == List(style, Nothing)
    <2>1. list \in PlainOf(c)
      BY StepKinds, TellingSteps
    <2>2. ShowScores(style, e) = <<scores>> \o <<say, list>>
      BY DEF ShowScores
    <2>3. <<say, list>> \in Answering(c)
      BY <1>0, <1>3, <2>1
    <2> HIDE DEF list, say, scores
    <2> QED BY <2>2, <2>3, <1>0, AnsweringAfter
  <1>7. ASSUME c.on # "message"
        PROVE  Board(e) \in Answering(c)
    <2>0. c.name # "ranks"
      BY DEF LoadedBy, InputOf
    <2> DEFINE collect == Step("collect", "", e)
    <2>1. collect \in PlainOf(c) /\ collect.do \in Telling
      BY <1>7, <2>0 DEF Step, PlainOf, StepsOf, StepGood, Plain, Doing, Hows, Telling
    <2>2. Board(e) = <<Ask, collect>>
      BY DEF Board
    <2> HIDE DEF collect
    <2> QED BY <1>0, <2>1, <2>2, AnsweringShort
  <1>8. CASE c.name \in {"last", "mapset"}
    <2>1. Found(c, e) = ShowLast(e)
      BY <1>8 DEF Found
    <2> QED BY <2>1, <1>4
  <1>9. CASE c.name = "beatmap"
    <2>1. Found(c, e) = ShowBeatmap(c, e) /\ <<c.on, c.name>> = <<"slash", "beatmap">>
      BY <1>9 DEF Found, LoadedBy, InputOf
    <2> QED BY <2>1, <1>5
  <1>10. CASE c.name = "check"
    <2>1. StyleOr(c, "few") \in {"few", "grid", "table", "file"}
          /\ StyleOr(c, "grid") \in {"few", "grid", "table", "file"}
      BY DEF StyleOr, Command
    <2>2. c.on \in {"slash", "prefix", "button"}
      BY DEF LoadedBy, InputOf
    <2>3. CASE c.on = "slash"
      <3>1. Found(c, e) = ShowScores(StyleOr(c, "few"), e)
        BY <1>10, <2>3 DEF Found
      <3>2. Found(c, e) \in Answering(c)
        BY <3>1, <2>1, <1>6
      <3> QED BY <3>2, AnsweringGood
    <2>4. CASE c.on = "prefix"
      <3>1. Found(c, e) = <<Who>> \o ShowScores(StyleOr(c, "grid"), e)
        BY <1>10, <2>4 DEF Found
      <3>2. ShowScores(StyleOr(c, "grid"), e) \in Answering(c)
        BY <2>1, <1>6
      <3>3. Found(c, e) \in Answering(c)
        BY <3>1, <3>2, <1>0, AnsweringAfter
      <3> QED BY <3>3, AnsweringGood
    <2>5. CASE c.on = "button"
      <3>1. Found(c, e) = <<Who>> \o ShowScores("grid", e)
        BY <1>10, <2>5 DEF Found
      <3>2. ShowScores("grid", e) \in Answering(c)
        BY <1>6
      <3>3. Found(c, e) \in Answering(c)
        BY <3>1, <3>2, <1>0, AnsweringAfter
      <3> QED BY <3>3, AnsweringGood
    <2> QED BY <2>2, <2>3, <2>4, <2>5
  <1>11. CASE c.name \in {"leaderboard", "lb"} /\ c.on # "slash"
    <2>1. Found(c, e) = Board(e) /\ c.on # "message"
      BY <1>11 DEF Found, LoadedBy, InputOf
    <2> QED BY <2>1, <1>7, AnsweringGood
  <1>12. CASE c.name = "leaderboard" /\ c.on = "slash"
    <2>1. Found(c, e) = <<Ack>> \o Board(e) /\ c.on # "message"
      BY <1>12 DEF Found
    <2>2. Found(c, e) \in Answering(c)
      BY <2>1, <1>0, <1>7, AnsweringAfter
    <2> QED BY <2>2, AnsweringGood
  <1>13. CASE c.name = "simulate"
    <2> DEFINE modal == Step("modal", "", e)
    <2>1. c.on = "button"
      BY <1>13 DEF LoadedBy, InputOf
    <2>2. modal \in PlainOf(c)
      BY <1>13, <2>1 DEF Step, PlainOf, StepsOf, StepGood, Plain, Doing, Hows
    <2>3. Found(c, e) = <<Ask, modal>>
      BY <1>13, <2>1 DEF Found
    <2> HIDE DEF modal
    <2>4. Found(c, e) \in Seq(PlainOf(c)) /\ Found(c, e) # <<>>
      BY <2>2, <2>3, <1>0
    <2> QED BY <2>1, <2>4, PlainGood
  <1> QED BY <1>8, <1>9, <1>10, <1>11, <1>12, <1>13 DEF LoadedBy, InputOf

LEMMA OfLinkGood ==
    ASSUME NEW c \in Command, NEW e \in Embed
    PROVE  GoodSteps(c, OfLink(e)) /\ OfLink(e) # <<>>
  <1>1. CASE e \in OfMap
    <2>1. OfLink(e) = <<Show("map", e), Save(e)>>
      BY <1>1, EmbedKinds DEF OfLink
    <2> QED BY <2>1, <1>1, ShowThenSave
  <1>2. CASE e \notin OfMap
    <2> DEFINE say == Say(e)
               list == List("set", e)
    <2>1. e \in OfSet /\ OfLink(e) = <<say, list>>
      BY <1>2, EmbedKinds DEF OfLink
    <2>2. say \in PlainOf(c) /\ list \in PlainOf(c) /\ say.do \in Telling
      BY <2>1, StepKinds, TellingSteps
    <2> HIDE DEF say, list
    <2> QED BY <2>1, <2>2, AnsweringShort, AnsweringGood
  <1> QED BY <1>1, <1>2

LEMMA OfPlayGood ==
    ASSUME NEW c \in Command, NEW then \in Picking, NEW e \in OfMap
    PROVE  GoodSteps(c, OfPlay(then, e)) /\ OfPlay(then, e) # <<>> /\ Tells(OfPlay(then, e))
  <1>0. Ask \in PlainOf(c) /\ e \in Embed
    BY StepKinds, EmbedKinds
  <1>1. CASE then \in {"score", "mentioned"}
    <2>1. OfPlay(then, e) = <<Ask, Show("score", e), Save(e)>>
      BY <1>1 DEF OfPlay
    <2> QED BY <2>1, ShowThenSave
  <1>2. CASE then = "linked"
    <2> DEFINE show == Show("linked", e)
    <2>1. OfPlay(then, e) = <<Ask, show>>
      BY <1>2 DEF OfPlay
    <2>2. show \in PlainOf(c) /\ show.do \in Telling
      BY <1>0, StepKinds, TellingSteps
    <2> HIDE DEF show
    <2> QED BY <2>1, <2>2, <1>0, AnsweringShort, AnsweringGood
  <1>3. CASE then = "prompt"
    <2> DEFINE show == Show("prompt", e)
               confirm == Step("confirm", "", e)
    <2>1. OfPlay(then, e) = <<Ask, show, confirm>>
      BY <1>3 DEF OfPlay
    <2>2. show \in PlainOf(c) /\ confirm \in PlainOf(c) /\ confirm.do \in Telling
      BY <1>0, StepKinds, TellingSteps
    <2> HIDE DEF show, confirm
    <2> QED BY <2>1, <2>2, <1>0, AnsweringShort, AnsweringGood
  <1> QED BY <1>1, <1>2, <1>3 DEF Picking

(* A page is saved and shown, or the whole set shown.                      *)
LEMMA PageStepsGood ==
    ASSUME NEW c, NEW how \in Opened, NEW e \in Embed
    PROVE  /\ GoodSteps(c, PageSteps(how, e)) /\ PageSteps(how, e) # <<>>
           /\ Tells(PageSteps(how, e))
           /\ ShowsPage(PageSteps(how, e)[Len(PageSteps(how, e))])
  <1> DEFINE s == PageSteps(how, e)
  <1>1. Ask \in StepsOf(c) /\ Plain(Ask)
    BY StepKinds DEF PlainOf
  <1>2. CASE e.kind = "set"
    <2> DEFINE all == Show("all", e)
    <2>1. s = <<all>> /\ e \in OfSet
      BY <1>2, EmbedKinds DEF PageSteps
    <2>2. all \in PlainOf(c) /\ ShowsPage(all) /\ all.do \in Telling
      BY <2>1 DEF Show, Step, PlainOf, StepsOf, StepGood, Plain, Doing, Hows, Showing, ShowsPage, Telling
    <2> HIDE DEF all
    <2>3. s \in Answering(c) /\ s[Len(s)] = all
      <3>1. <<all>> \in Answering(c) /\ Len(<<all>>) = 1 /\ <<all>>[1] = all
        BY <2>2, AnsweringShort
      <3> QED BY <3>1, <2>1
    <2> HIDE DEF s
    <2>4. GoodSteps(c, s) /\ s # <<>> /\ Tells(s) /\ ShowsPage(s[Len(s)])
      BY <2>2, <2>3, AnsweringGood
    <2> QED BY <2>4 DEF s
  <1>3. CASE e.kind # "set"
    <2> DEFINE a == Step("save", how, e)
               b == Show(IF how = "set" THEN "setpage" ELSE "page", e)
    <2>1. e \in OfMap
      BY <1>3, EmbedKinds
    <2>2. s = <<Ask, a, b>>
      BY <1>3 DEF PageSteps
    <2>3. a \in StepsOf(c)
      BY <2>1 DEF Step, StepsOf, StepGood, Doing, Hows, Opened
    <2>4. b \in StepsOf(c)
      BY <2>1 DEF Show, Step, StepsOf, StepGood, Doing, Hows, Showing
    <2>5. a.do = "save" /\ a.e = e /\ Opens(a) /\ ~ Closes(a)
      BY DEF Step, Opens, Closes, Opened
    <2>6. b.do = "show" /\ b.e = e /\ ~ Opens(b) /\ Closes(b) /\ ShowsPage(b) /\ b.do \in Telling
      BY DEF Show, Step, Opens, Closes, ShowsPage, Telling
    <2>7. ~ Closes(Ask) /\ ~ Opens(Ask) /\ Ask.do \notin {"turn", "arrive"}
      BY <1>1 DEF Plain, Opens, Closes
    <2> HIDE DEF a, b, s
    <2>8. Linked(a, b) /\ Linked(Ask, a)
      BY <2>5, <2>6, <2>7 DEF Linked
    <2>9. /\ s \in Seq(StepsOf(c)) /\ Len(s) = 3 /\ s[1] = Ask /\ s[2] = a /\ s[3] = b /\ s # <<>>
      BY <2>2, <2>3, <2>4, <1>1
    <2>10. \A i \in 1..(Len(s) - 1) : i = 1 \/ i = 2
      BY <2>9
    <2>11. Chained(s) /\ Begins(s)
      BY <2>6, <2>7, <2>8, <2>9, <2>10 DEF Chained, Begins
    <2>12. Tells(s)
      BY <2>6, <2>9 DEF Tells
    <2> QED BY <2>6, <2>9, <2>11, <2>12 DEF GoodSteps, s
  <1> QED BY <1>2, <1>3

(* A page that can be turned.                                              *)
LEMMA PageThenTurn ==
    ASSUME NEW c, NEW how \in Opened, NEW e \in Embed, NEW turn \in StepsOf(c), turn.do = "turn"
    PROVE  LET s == PageSteps(how, e) \o <<turn>>
           IN  GoodSteps(c, s) /\ s # <<>> /\ Tells(s)
  <1> DEFINE p == PageSteps(how, e)
             t == <<turn>>
             s == p \o t
  <1>1. GoodSteps(c, p) /\ p # <<>> /\ Tells(p) /\ ShowsPage(p[Len(p)])
    BY PageStepsGood
  <1> HIDE DEF p
  <1>2. t \in Seq(StepsOf(c)) /\ Len(t) = 1 /\ t[1] = turn /\ t # <<>>
    OBVIOUS
  <1> HIDE DEF t
  <1>3. ~ Opens(turn) /\ ~ Closes(turn)
    BY DEF Opens, Closes
  <1>4. Chained(t)
    BY <1>2, <1>3 DEF Chained
  <1>5. ~ Opens(p[Len(p)])
    BY <1>1 DEF GoodSteps, Chained
  <1>6. Linked(p[Len(p)], t[1])
    BY <1>1, <1>2, <1>3, <1>5 DEF Linked, ShowsPage
  <1>7. s \in Seq(StepsOf(c)) /\ s # <<>>
    BY <1>1, <1>2 DEF GoodSteps
  <1>8. Chained(s)
    BY <1>1, <1>2, <1>4, <1>6, ConcatChained DEF GoodSteps
  <1>9. Begins(s) /\ Tells(s)
    BY <1>1, <1>2, ConcatOthers DEF GoodSteps
  <1>10. GoodSteps(c, s) /\ s # <<>> /\ Tells(s)
    BY <1>7, <1>8, <1>9 DEF GoodSteps
  <1> QED BY <1>10 DEF s, p, t

-----------------------------------------------------------------------------
(* How a request goes on *)

(* What is left of a request after its first step.                         *)
LEMMA RunRest ==
    ASSUME NEW q, RunGood(q), q.todo # <<>>
    PROVE  /\ q.at = "running" /\ q.todo \in Seq(StepsOf(q.c))
           /\ q.todo[1] \in StepsOf(q.c) /\ Head(q.todo) = q.todo[1]
           /\ Tail(q.todo) \in Seq(StepsOf(q.c)) /\ Chained(Tail(q.todo))
           /\ Tail(q.todo) # <<>> => Linked(q.todo[1], Tail(q.todo)[1])
           /\ ~ Opens(q.todo[1]) /\ ~ ShowsPage(q.todo[1]) => Begins(Tail(q.todo))
           /\ Tells(q.todo) /\ q.todo[1].do \notin Telling => Tells(Tail(q.todo))
  <1>1. q.at = "running" /\ q.todo \in Seq(StepsOf(q.c)) /\ Chained(q.todo)
    BY DEF RunGood, RunTyped
  <1>2. q.todo[1] \in StepsOf(q.c)
    BY <1>1
  <1>3. Head(q.todo) = q.todo[1]
    BY <1>1
  <1> QED BY <1>1, <1>2, <1>3, TailChained

LEMMA GoesFields ==
    ASSUME NEW q, DOMAIN q = RunFields, NEW steps
    PROVE  LET p == Goes(q, steps)
           IN  /\ DOMAIN p = RunFields /\ p.at = q.at /\ p.c = q.c /\ p.msg = q.msg /\ p.told = q.told
               /\ p.turns = q.turns /\ p.page = q.page /\ p.said = q.said /\ p.unheard = q.unheard /\ p.prompt = q.prompt
               /\ p.pending = q.pending /\ p.board = q.board
               /\ p.todo = steps \o Tail(q.todo)
  BY DEF Goes, RunFields

(* What is left of a board where none is said or shown is a ranking.       *)
LEMMA BoardKept ==
    ASSUME NEW q, BoardGood(q), q.todo # <<>>, NEW w, w.c = q.c, w.board = q.board, ~ Arriving(w),
           q.board = <<>> \/ ~ Arriving(q),
           \/ q.board = <<>> \/ q.c.on = "message" \/ TurnsLater(q)
           \/ q.todo[1].do \notin {"say", "show", "report"}
    PROVE  BoardGood(w)
  BY DEF BoardGood, Answered

LEMMA GoesGood ==
    ASSUME NEW q, RunGood(q), q.todo # <<>>, NEW steps, GoodSteps(q.c, steps),
           ~ Opens(q.todo[1]), ~ ShowsPage(q.todo[1]),
           q.board = <<>> \/ q.todo[1].do \notin {"say", "show", "arrive", "report"},
           q.c.on \in {"prefix", "slash"} /\ q.todo[1].do \in Telling => q.told \/ Tells(steps)
    PROVE  RunGood(Goes(q, steps)) /\ Begins(Goes(q, steps).todo)
  <1> DEFINE p == Goes(q, steps)
             rest == Tail(q.todo)
  <1>0. RunTyped(q) /\ Owes(q)
    BY DEF RunGood
  <1>1. /\ DOMAIN p = RunFields /\ p.at = q.at /\ p.c = q.c /\ p.msg = q.msg /\ p.told = q.told
        /\ p.turns = q.turns /\ p.page = q.page /\ p.said = q.said /\ p.unheard = q.unheard /\ p.pending = q.pending
        /\ p.board = q.board /\ p.todo = steps \o rest
    BY <1>0, GoesFields DEF RunTyped
  <1>2. /\ q.at = "running" /\ rest \in Seq(StepsOf(q.c)) /\ Chained(rest) /\ Begins(rest)
        /\ Tells(q.todo) /\ q.todo[1].do \notin Telling => Tells(rest)
    BY RunRest
  <1> HIDE DEF p, rest
  <1>3. GoodSteps(q.c, rest)
    BY <1>2 DEF GoodSteps
  <1>4. GoodSteps(q.c, p.todo)
    BY <1>1, <1>3, GoodConcat
  <1>5. Tells(steps) \/ Tells(rest) => Tells(p.todo)
    BY <1>1, <1>2, ConcatOthers DEF GoodSteps
  <1>6. RunTyped(p)
    BY <1>0, <1>1, <1>2, <1>4 DEF RunTyped, GoodSteps
  <1>7. Owes(p)
    BY <1>0, <1>1, <1>2, <1>5 DEF Owes
  <1>8. Chained(p.todo) /\ Begins(p.todo) /\ TurnsBack(p)
    BY <1>4 DEF GoodSteps, Begins, TurnsBack
  <1>9. BoardGood(q) /\ p.c = q.c /\ p.board = q.board /\ ~ Arriving(p)
    BY <1>1, <1>8 DEF RunGood, Begins, Arriving
  <1>10. BoardGood(p)
    <2>1. q.board = <<>> \/ ~ Arriving(q)
      BY DEF Arriving
    <2> QED BY <1>9, <2>1, BoardKept
  <1> QED BY <1>6, <1>7, <1>8, <1>10 DEF RunGood, p

LEMMA EmptyGood == \A c : GoodSteps(c, <<>>) /\ Chained(<<>>) /\ Begins(<<>>)
  BY PlainGood DEF GoodSteps, Chained, Begins

LEMMA EndsGood ==
    ASSUME NEW q, RunGood(q), NEW told \in BOOLEAN,
           q.c.on \in {"prefix", "slash"} => told \/ q.told
    PROVE  RunGood(Ends(q, told)) /\ Ends(q, told).todo = <<>>
  <1> DEFINE p == Ends(q, told)
  <1>0. RunTyped(q)
    BY DEF RunGood
  <1>1. /\ DOMAIN p = RunFields /\ p.at = q.at /\ p.c = q.c /\ p.msg = q.msg
        /\ p.turns = q.turns /\ p.page = q.page /\ p.said = q.said /\ p.unheard = q.unheard /\ p.pending = q.pending
        /\ p.todo = <<>>
    BY <1>0 DEF RunTyped, RunFields, Ends
  <1>2. p.told \in BOOLEAN /\ (told \/ q.told => p.told)
    BY <1>0 DEF RunTyped, RunFields, Ends
  <1> HIDE DEF p
  <1>3. RunTyped(p)
    <2>1. p.todo \in Seq(StepsOf(q.c))
      BY <1>1
    <2> QED BY <1>0, <1>1, <1>2, <2>1 DEF RunTyped
  <1>4. Owes(p) /\ Chained(p.todo) /\ TurnsBack(p) /\ BoardGood(p)
    BY <1>1, <1>2, EmptyGood DEF Owes, TurnsBack, BoardGood, Arriving
  <1> QED BY <1>1, <1>3, <1>4 DEF RunGood, p

LEMMA PanicsGood ==
    ASSUME NEW q, RunGood(q)
    PROVE  RunGood(Panics(q)) /\ Panics(q).todo = <<>>
  <1> DEFINE p == Panics(q)
  <1>0. RunTyped(q)
    BY DEF RunGood
  <1>1. /\ DOMAIN p = RunFields /\ p.at = "panicked" /\ p.c = q.c /\ p.msg = q.msg /\ p.told = q.told
        /\ p.turns = q.turns /\ p.page = q.page /\ p.said = q.said /\ p.unheard = q.unheard /\ p.pending = q.pending
        /\ p.todo = <<>>
    BY <1>0 DEF RunTyped, RunFields, Panics
  <1> HIDE DEF p
  <1>2. RunTyped(p)
    <2>1. p.todo \in Seq(StepsOf(q.c))
      BY <1>1
    <2> QED BY <1>0, <1>1, <2>1 DEF RunTyped
  <1>3. Owes(p) /\ Chained(p.todo) /\ TurnsBack(p) /\ BoardGood(p)
    BY <1>1, EmptyGood DEF Owes, TurnsBack, BoardGood, Arriving
  <1> QED BY <1>1, <1>2, <1>3 DEF RunGood, p

(* A request that takes up other steps than those it had.                  *)
LEMMA OtherSteps ==
    ASSUME NEW q, RunGood(q), q.todo # <<>>, NEW s, s \in Seq(StepsOf(q.c)), Chained(s),
           s # <<>> => s[1].do # "turn",
           BoardGood([q EXCEPT !.todo = s]),
           q.c.on \in {"prefix", "slash"} => Tells(s)
    PROVE  RunGood([q EXCEPT !.todo = s]) /\ [q EXCEPT !.todo = s].todo = s
  <1> DEFINE p == [q EXCEPT !.todo = s]
  <1>0. RunTyped(q) /\ q.at = "running"
    BY RunRest DEF RunGood
  <1>1. /\ DOMAIN p = RunFields /\ p.at = q.at /\ p.c = q.c /\ p.msg = q.msg /\ p.told = q.told
        /\ p.turns = q.turns /\ p.page = q.page /\ p.said = q.said /\ p.unheard = q.unheard /\ p.pending = q.pending
        /\ p.todo = s
    BY <1>0 DEF RunTyped, RunFields
  <1> HIDE DEF p
  <1>2. RunTyped(p)
    BY <1>0, <1>1 DEF RunTyped
  <1>3. Owes(p) /\ Chained(p.todo) /\ TurnsBack(p) /\ BoardGood(p)
    BY <1>1 DEF Owes, TurnsBack, p
  <1> QED BY <1>1, <1>2, <1>3 DEF RunGood, p

(* A request that only has a message left, with or without its board.      *)
LEMMA AnswersGood ==
    ASSUME NEW q, RunGood(q), q.todo # <<>>
    PROVE  RunGood(Answers(q)) /\ Begins(Answers(q).todo)
  <1> DEFINE text == Show("text", Nothing)
             s == <<text>>
             p == [q EXCEPT !.board = <<>>]
             w == [q EXCEPT !.todo = s, !.board = <<>>]
  <1>0. RunTyped(q) /\ q.at = "running"
    BY RunRest DEF RunGood
  <1>1. Answers(q) = w
    BY DEF Answers
  <1>2. text \in PlainOf(q.c) /\ text.do \in Telling
    BY StepKinds, TellingSteps
  <1> HIDE DEF text
  <1>3. s \in Seq(PlainOf(q.c)) /\ s[1] = text /\ Len(s) = 1
    BY <1>2
  <1> HIDE DEF s
  <1>4. GoodSteps(q.c, s) /\ Tells(s)
    BY <1>2, <1>3, PlainGood DEF Tells
  <1>5. /\ DOMAIN w = RunFields /\ w.at = q.at /\ w.c = q.c /\ w.msg = q.msg /\ w.told = q.told
        /\ w.turns = q.turns /\ w.page = q.page /\ w.said = q.said /\ w.unheard = q.unheard
        /\ w.pending = q.pending /\ w.todo = s /\ w.board = <<>>
    BY <1>0 DEF RunTyped, RunFields
  <1> HIDE DEF w
  <1>6. RunTyped(w)
    BY <1>0, <1>4, <1>5 DEF RunTyped, GoodSteps
  <1>7. Owes(w) /\ Chained(w.todo) /\ Begins(w.todo) /\ TurnsBack(w) /\ BoardGood(w)
    BY <1>4, <1>5 DEF Owes, GoodSteps, Begins, TurnsBack, BoardGood, Arriving
  <1> QED BY <1>1, <1>6, <1>7 DEF RunGood

(* A command of which something failed still reports it.                   *)
LEMMA ReportGood ==
    ASSUME NEW q, RunGood(q), q.todo # <<>>, ~ Arriving(q), NEW failed \in Doing
    PROVE  /\ RunGood([q EXCEPT !.todo = <<Report(failed)>>])
           /\ Begins([q EXCEPT !.todo = <<Report(failed)>>].todo)
  <1> DEFINE report == Report(failed)
             s == <<report>>
             w == [q EXCEPT !.todo = s]
  <1>1. report \in PlainOf(q.c) /\ report.do = "report"
    BY StepKinds DEF Report, Step
  <1> HIDE DEF report
  <1>2. s \in Seq(PlainOf(q.c)) /\ s # <<>> /\ s[1] = report /\ Len(s) = 1
    BY <1>1
  <1> HIDE DEF s
  <1>3. GoodSteps(q.c, s) /\ Tells(s)
    BY <1>1, <1>2, PlainGood DEF Tells, Telling
  <1>4. w.todo = s /\ w.c = q.c /\ w.board = q.board
    BY DEF RunGood, RunTyped, RunFields
  <1>5. BoardGood(w)
    <2> HIDE DEF w
    <2>1. ~ Arriving(w)
      BY <1>1, <1>2, <1>4 DEF Arriving
    <2>2. Answered(q) => Answered(w)
      <3>1. ~ TurnsLater(w)
        <4>1. Len(w.todo) = 1
          BY <1>2, <1>4
        <4>2. 2..Len(w.todo) = {}
          BY <4>1
        <4> QED BY <4>2, Zenon DEF TurnsLater
      <3>2. w.todo[1].do = "report"
        BY <1>1, <1>2, <1>4
      <3> QED BY <1>4, <3>1, <3>2 DEF Answered
    <2> QED BY <1>4, <2>1, <2>2 DEF RunGood, BoardGood
  <1>6. RunGood(w) /\ w.todo = s
    <2>1. s \in Seq(StepsOf(q.c)) /\ Chained(s) /\ s[1].do # "turn"
      BY <1>1, <1>2, <1>3 DEF GoodSteps
    <2> QED BY <1>3, <1>5, <2>1, OtherSteps
  <1> QED BY <1>3, <1>6 DEF GoodSteps, s, report

(* A report that is lost.                                                  *)
LEMMA UnheardGood ==
    ASSUME NEW q, RunGood(q)
    PROVE  /\ RunGood([Ends(q, FALSE) EXCEPT !.unheard = TRUE])
           /\ [Ends(q, FALSE) EXCEPT !.unheard = TRUE].todo = <<>>
  <1> DEFINE w == [Ends(q, FALSE) EXCEPT !.unheard = TRUE]
  <1>0. RunTyped(q)
    BY DEF RunGood
  <1>1. /\ DOMAIN w = RunFields /\ w.at = q.at /\ w.c = q.c /\ w.msg = q.msg
        /\ w.turns = q.turns /\ w.page = q.page /\ w.said = q.said /\ w.pending = q.pending
        /\ w.todo = <<>> /\ w.unheard = TRUE /\ w.told \in BOOLEAN
    BY <1>0 DEF RunTyped, RunFields, Ends
  <1> HIDE DEF w
  <1>2. RunTyped(w)
    <2>1. w.todo \in Seq(StepsOf(q.c))
      BY <1>1
    <2> QED BY <1>0, <1>1, <2>1 DEF RunTyped
  <1>3. Owes(w) /\ Chained(w.todo) /\ TurnsBack(w) /\ BoardGood(w)
    BY <1>1, EmptyGood DEF Owes, TurnsBack, BoardGood, Arriving
  <1> QED BY <1>1, <1>2, <1>3 DEF RunGood, w

(* Of the places in a set of naturals, there is a first.                   *)
LEMMA FirstExists ==
    ASSUME NEW S \in SUBSET Nat, S # {}
    PROVE  LET i == CHOOSE i \in S : \A j \in S : i <= j
           IN  i \in S /\ \A j \in S : i <= j
  <1>1. \E i \in S : \A j \in S : i <= j
    BY LeastExists
  <1> QED BY <1>1

(* A hook goes on with a link or a play of its own, or has ended.          *)
LEMMA NextOfHookGood ==
    ASSUME NEW q, RunGood(q), q.todo # <<>>, q.c.on = "message"
    PROVE  /\ RunGood(NextOfHook(q))
           /\ q.todo[1].do \notin {"show", "save"} => Begins(NextOfHook(q).todo)
  <1> DEFINE next == {i \in 2..Len(q.todo) : q.todo[i].do \in {"links", "plays"}}
             first == CHOOSE i \in next : \A j \in next : i <= j
             rest == SubSeq(q.todo, first, Len(q.todo))
             p == NextOfHook(q)
  <1>0. /\ q.todo \in Seq(StepsOf(q.c)) /\ Chained(q.todo) /\ Head(q.todo) = q.todo[1]
        /\ RunTyped(q) /\ TurnsBack(q) /\ BoardGood(q)
    BY RunRest DEF RunGood
  <1>9. ~ Arriving(q)
    <2>1. q.todo[1] \in StepsOf(q.c)
      BY RunRest
    <2> QED BY <2>1 DEF Arriving, StepsOf, StepGood
  <1>1. CASE Head(q.todo).how \in {"", "map", "score"} /\ Head(q.todo).do \in {"show", "save"}
    <2>1. p = Goes(q, <<>>) /\ q.todo[1].do \in {"show", "save"} /\ q.todo[1].how \in {"", "map", "score"}
      BY <1>0, <1>1 DEF NextOfHook
    <2> DEFINE g == Goes(q, <<>>)
    <2>2. /\ DOMAIN g = RunFields /\ g.at = q.at /\ g.c = q.c /\ g.msg = q.msg /\ g.told = q.told
          /\ g.turns = q.turns /\ g.page = q.page /\ g.said = q.said /\ g.unheard = q.unheard /\ g.pending = q.pending
          /\ g.board = q.board /\ g.todo = <<>> \o Tail(q.todo)
      BY <1>0, GoesFields DEF RunTyped
    <2> HIDE DEF g
    <2>3. g.todo = Tail(q.todo) /\ g.todo \in Seq(StepsOf(q.c)) /\ Chained(g.todo) /\ q.at = "running"
      BY <2>2, RunRest
    <2>4. RunTyped(g)
      BY <1>0, <2>2, <2>3 DEF RunTyped
    <2>5. g.todo # <<>> => g.todo[1].do \notin {"turn", "arrive"}
      <3>1. g.todo # <<>> => Linked(q.todo[1], g.todo[1])
        BY <2>3, RunRest
      <3>2. ~ ShowsPage(q.todo[1])
        BY <2>1 DEF ShowsPage
      <3> QED BY <3>1, <3>2 DEF Linked
    <2>6. TurnsBack(g) /\ Owes(g) /\ ~ Arriving(g)
      BY <2>2, <2>5 DEF TurnsBack, Owes, Arriving
    <2>8. BoardGood(g)
      BY <1>0, <1>9, <2>2, <2>6, BoardKept
    <2>7. RunGood(g)
      BY <2>3, <2>4, <2>6, <2>8 DEF RunGood
    <2> QED BY <2>1, <2>7 DEF g
  <1>2. CASE ~ (Head(q.todo).how \in {"", "map", "score"} /\ Head(q.todo).do \in {"show", "save"})
             /\ (next = {} \/ Head(q.todo) = AskChannel)
    <2>1. p = Ends(q, FALSE)
      BY <1>2 DEF NextOfHook
    <2> QED BY <2>1, EndsGood, EmptyGood
  <1>3. CASE ~ (Head(q.todo).how \in {"", "map", "score"} /\ Head(q.todo).do \in {"show", "save"})
             /\ next # {} /\ Head(q.todo) # AskChannel
    <2>1. p = [q EXCEPT !.todo = rest]
      BY <1>0, <1>3 DEF NextOfHook, RunTyped, RunFields
    <2>2. first \in next
      <3>1. next \in SUBSET Nat
        BY <1>0
      <3> HIDE DEF next
      <3> QED BY <1>3, <3>1, FirstExists
    <2>3. first \in 2..Len(q.todo) /\ q.todo[first].do \in {"links", "plays"}
      BY <2>2
    <2> HIDE DEF first, next
    <2>4. first \in 1..(Len(q.todo) + 1) /\ first <= Len(q.todo)
      BY <1>0, <2>3
    <2>5. rest \in Seq(StepsOf(q.c)) /\ Chained(rest) /\ rest # <<>> /\ rest[1] = q.todo[first]
      BY <1>0, <2>4, SuffixChained
    <2>6. ~ Closes(rest[1]) /\ rest[1].do \notin {"turn", "arrive"}
      BY <2>3, <2>5 DEF Closes
    <2>8. p.c = q.c /\ p.board = q.board /\ p.todo = rest
      BY <1>0, <2>1 DEF RunTyped, RunFields
    <2> HIDE DEF rest, p
    <2>9. BoardGood(p)
      <3>1. ~ Arriving(p)
        BY <2>6, <2>8 DEF Arriving
      <3> QED BY <1>0, <1>9, <2>8, <3>1, BoardKept
    <2>7. RunGood(p) /\ p.todo = rest
      BY <2>1, <2>5, <2>6, <2>9, OtherSteps
    <2> QED BY <2>6, <2>7 DEF Begins, p
  <1> QED BY <1>1, <1>2, <1>3

(* An error leaves a request with other steps, or none.                    *)
LEMMA ErrsGood ==
    ASSUME NEW q, RunGood(q), q.todo # <<>>, ~ Arriving(q)
    PROVE  /\ RunGood(Errs(q))
           /\ q.todo[1].do \notin {"show", "save"} => Begins(Errs(q).todo)
  <1> DEFINE turn == CHOOSE i \in 2..Len(q.todo) : q.todo[i].do = "turn"
             rest == SubSeq(q.todo, turn + 1, Len(q.todo))
             page == PageSteps(q.todo[turn].how, q.page)
             s == page \o rest
             p == Errs(q)
  <1>0. /\ q.todo \in Seq(StepsOf(q.c)) /\ Chained(q.todo) /\ RunTyped(q) /\ q.c.on \in Surface
        /\ BoardGood(q)
    BY RunRest DEF RunGood, RunTyped, Command
  <1>1. CASE TurnsLater(q) /\ q.page # Nothing
    <2>1. p = [q EXCEPT !.todo = s]
      BY <1>0, <1>1 DEF Errs, RunTyped, RunFields
    <2>2. turn \in 2..Len(q.todo) /\ q.todo[turn].do = "turn"
      BY <1>1 DEF TurnsLater
    <2> HIDE DEF turn
    <2>3. q.todo[turn] \in StepsOf(q.c) /\ turn + 1 \in 1..(Len(q.todo) + 1)
      BY <1>0, <2>2
    <2>4. q.todo[turn].how \in Opened
      BY <2>2, <2>3 DEF StepsOf, StepGood
    <2>5. q.page \in Embed
      BY <1>0, <1>1 DEF RunTyped
    <2>6. GoodSteps(q.c, page) /\ page # <<>> /\ Tells(page)
      BY <2>4, <2>5, PageStepsGood
    <2>7. rest \in Seq(StepsOf(q.c)) /\ Chained(rest)
      BY <1>0, <2>3, SuffixChained
    <2>8. Begins(rest)
      <3>1. CASE turn + 1 <= Len(q.todo)
        <4>1. rest[1] = q.todo[turn + 1] /\ turn \in 1..(Len(q.todo) - 1)
          BY <1>0, <2>2, <2>3, <3>1, SuffixChained
        <4>2. Linked(q.todo[turn], q.todo[turn + 1])
          BY <1>0, <4>1 DEF Chained
        <4>3. ~ Opens(q.todo[turn]) /\ ~ ShowsPage(q.todo[turn])
          BY <2>2 DEF Opens, ShowsPage
        <4> QED BY <4>1, <4>2, <4>3 DEF Linked, Begins
      <3>2. CASE ~ (turn + 1 <= Len(q.todo))
        <4>1. turn + 1 = Len(q.todo) + 1
          BY <1>0, <2>2, <3>2
        <4>2. rest = <<>>
          BY <1>0, <2>3, <4>1, SuffixChained
        <4> QED BY <4>2 DEF Begins
      <3> QED BY <3>1, <3>2
    <2> HIDE DEF rest, page
    <2>9. GoodSteps(q.c, rest)
      BY <2>7, <2>8 DEF GoodSteps
    <2>10. GoodSteps(q.c, s)
      BY <2>6, <2>9, GoodConcat
    <2>11. Tells(s)
      BY <2>6, <2>7, ConcatOthers DEF GoodSteps
    <2> HIDE DEF s
    <2>12. s \in Seq(StepsOf(q.c)) /\ Chained(s) /\ (s # <<>> => s[1].do # "turn") /\ Begins(s)
      BY <2>10 DEF GoodSteps, Begins
    <2>14. p.c = q.c /\ p.board = q.board /\ p.todo = s
      BY <1>0, <2>1 DEF RunTyped, RunFields
    <2> HIDE DEF p
    <2>15. ~ Arriving(q)
      <3>1. 1 \in 1..(Len(q.todo) - 1)
        BY <1>0, <2>2
      <3> QED BY <1>0, <3>1 DEF Chained, Linked, Arriving
    <2>16. ~ Arriving(p)
      BY <2>12, <2>14 DEF Begins, Arriving
    <2>17. BoardGood(p)
      BY <1>0, <1>1, <2>14, <2>15, <2>16, BoardKept
    <2>13. RunGood(p) /\ p.todo = s
      BY <2>1, <2>11, <2>12, <2>17, OtherSteps
    <2> QED BY <2>12, <2>13 DEF p
  <1>2. CASE ~ (TurnsLater(q) /\ q.page # Nothing) /\ q.c.on = "message"
    <2>1. p = NextOfHook(q)
      BY <1>2 DEF Errs
    <2> QED BY <1>2, <2>1, NextOfHookGood
  <1>3. CASE ~ (TurnsLater(q) /\ q.page # Nothing) /\ q.c.on = "button"
    <2>1. p = Ends(q, FALSE)
      BY <1>3 DEF Errs
    <2>2. RunGood(Ends(q, FALSE)) /\ Ends(q, FALSE).todo = <<>>
      BY <1>3, EndsGood
    <2> QED BY <2>1, <2>2, EmptyGood
  <1>4. CASE ~ (TurnsLater(q) /\ q.page # Nothing) /\ q.c.on \notin {"message", "button"}
    <2>1. p = [q EXCEPT !.todo = <<Report(q.todo[1].do)>>]
      BY <1>0, <1>4, RunRest DEF Errs, RunTyped, RunFields
    <2>2. q.todo[1].do \in Doing
      BY RunRest DEF StepsOf
    <2> QED BY <2>1, <2>2, ReportGood
  <1> QED BY <1>1, <1>2, <1>3, <1>4

-----------------------------------------------------------------------------
(* The requests after a step *)

LEMMA BecomesGood ==
    ASSUME RequestsGood, NEW r \in Requests, Running(r), NEW q, RunGood(q), Becomes(r, q)
    PROVE  /\ RequestsGood'
           /\ \A o \in Requests \ {r} : request'[o] = request[o]
           /\ Running(r)' <=> q.todo # <<>>
           /\ q.todo # <<>> => request'[r] = q
  <1> DEFINE new == IF q.todo # <<>> THEN q
                    ELSE [at |-> IF q.at = "panicked" THEN q.at ELSE "ended", on |-> q.c.on,
                          told |-> q.told, unheard |-> q.unheard]
  <1>1. request' = [request EXCEPT ![r] = new] /\ DOMAIN request = Requests
    BY DEF Becomes, RequestsGood
  <1>2. q.todo # <<>> => new = q /\ q.at = "running"
    BY DEF RunGood, RunTyped
  <1>3. q.todo = <<>> => new.at \in {"panicked", "ended"} /\ EndGood(new)
    <2> SUFFICES ASSUME q.todo = <<>>
                 PROVE  new.at \in {"panicked", "ended"} /\ EndGood(new)
      OBVIOUS
    <2>1. new.at \in {"panicked", "ended"} /\ new.on = q.c.on /\ new.told = q.told
          /\ new.unheard = q.unheard
          /\ (new.at = "ended" => q.at # "panicked")
      OBVIOUS
    <2>2. ~ Tells(q.todo)
      BY DEF Tells
    <2>3. q.at # "panicked" /\ q.c.on \in {"prefix", "slash"} => q.told \/ q.unheard
      BY <2>2 DEF RunGood, RunTyped, Owes
    <2> HIDE DEF new
    <2> QED BY <2>1, <2>3 DEF EndGood
  <1> HIDE DEF new
  <1>4. /\ DOMAIN request' = Requests /\ request'[r] = new
        /\ \A o \in Requests \ {r} : request'[o] = request[o]
    BY <1>1
  <1>5. Running(r)' <=> q.todo # <<>>
    BY <1>2, <1>3, <1>4 DEF Running
  <1>6. ASSUME NEW o \in Requests
        PROVE  IF Running(o)' THEN RunGood(request'[o]) /\ request'[o].todo # <<>>
               ELSE EndGood(request'[o])
    <2>1. CASE o = r
      BY <2>1, <1>2, <1>3, <1>4, <1>5
    <2>2. CASE o # r
      <3>1. request'[o] = request[o]
        BY <2>2, <1>4
      <3>2. IF Running(o) THEN RunGood(request[o]) /\ request[o].todo # <<>> ELSE EndGood(request[o])
        BY DEF RequestsGood
      <3> QED BY <3>1, <3>2 DEF Running
    <2> QED BY <2>1, <2>2
  <1>7. RequestsGood'
    BY <1>4, <1>6 DEF RequestsGood
  <1> QED BY <1>2, <1>4, <1>5, <1>7

(* The last map after a step, when nothing overlaps or fails.              *)
LEMMA LastOfStep ==
    ASSUME RequestsGood, LastGood, NEW r \in Requests, Running(r), NEW q, RunGood(q), Becomes(r, q),
           ~ clash' =>
              /\ ~ clash
              /\ q.todo = <<>> => Agree(last', kept')
              /\ q.todo # <<>> => Between(q.todo[1], last', kept')
    PROVE  LastGood'
  <1>1. /\ \A o \in Requests \ {r} : request'[o] = request[o]
        /\ Running(r)' <=> q.todo # <<>>
        /\ q.todo # <<>> => request'[r] = q
    BY BecomesGood
  <1> SUFFICES ASSUME ~ clash'
               PROVE  /\ \A a \in Requests, b \in Requests : Running(a)' /\ Running(b)' => a = b
                      /\ Quiet' => Agree(last', kept')
                      /\ \A a \in Requests : Running(a)' => Between(request'[a].todo[1], last', kept')
    BY DEF LastGood
  <1>2. \A o \in Requests : Running(o) => o = r
    BY DEF LastGood
  <1>3. \A o \in Requests : Running(o)' => o = r
    <2>1. ASSUME NEW o \in Requests, o # r
          PROVE  ~ Running(o)'
      <3>1. ~ Running(o)
        BY <1>2, <2>1
      <3> QED BY <3>1, <1>1, <2>1 DEF Running
    <2> QED BY <2>1
  <1>4. Quiet' => Agree(last', kept')
    BY <1>1 DEF Quiet
  <1>5. ASSUME NEW a \in Requests, Running(a)'
        PROVE  Between(request'[a].todo[1], last', kept')
    <2>1. a = r
      BY <1>3, <1>5
    <2> QED BY <1>1, <1>5, <2>1
  <1> QED BY <1>3, <1>4, <1>5

(* A step that shows and saves no map.                                     *)
LEMMA QuietStep ==
    ASSUME RequestsGood, LastGood, NEW r \in Requests, Running(r), NEW q, RunGood(q), Becomes(r, q),
           ~ Closes(request[r].todo[1]), q.todo # <<>> => ~ Closes(q.todo[1]),
           last' = last, kept' = kept /\ newest' = newest, clash' = clash
    PROVE  RequestsGood' /\ LastGood'
  <1>1. ~ clash => Agree(last, kept)
    BY DEF LastGood, Between
  <1>3. ~ clash' => /\ ~ clash
                    /\ q.todo = <<>> => Agree(last', kept')
                    /\ q.todo # <<>> => Between(q.todo[1], last', kept')
    BY <1>1 DEF Between
  <1> QED BY <1>3, BecomesGood, LastOfStep

(* A step that fails as a message or a row is lost.                        *)
LEMMA LostStep ==
    ASSUME RequestsGood, LastGood, NEW r \in Requests, Running(r), NEW q, RunGood(q), Becomes(r, q), Lost
    PROVE  RequestsGood' /\ LastGood'
  BY BecomesGood, LastOfStep DEF Lost

-----------------------------------------------------------------------------
(* The invariant after a step of each kind *)

LEMMA NowGood ==
    ASSUME CommandsInv, NEW r \in Requests, Running(r)
    PROVE  /\ RunGood(request[r]) /\ RunTyped(request[r]) /\ request[r].todo # <<>>
           /\ NextStep(r) = request[r].todo[1]
           /\ NextStep(r) \in StepsOf(request[r].c)
           /\ request[r].c \in Command
  <1>1. RunGood(request[r]) /\ request[r].todo # <<>>
    BY DEF CommandsInv, RequestsGood
  <1>2. Head(request[r].todo) = request[r].todo[1] /\ request[r].todo[1] \in StepsOf(request[r].c)
    BY <1>1, RunRest
  <1> QED BY <1>1, <1>2 DEF NextStep, RunGood, RunTyped

LEMMA OtherHeads ==
    ASSUME NEW s, s.do \notin {"show", "save"}
    PROVE  ~ Opens(s) /\ ~ Closes(s) /\ ~ ShowsPage(s)
  BY DEF Opens, Closes, ShowsPage

LEMMA KeptSame ==
    ASSUME Kept, last' = last, kept' = kept /\ newest' = newest, messages' \subseteq messages,
           (clash' = clash /\ faults' = faults) \/ Lost
    PROVE  Kept'
  <1>1. clash' \in BOOLEAN
    BY DEF Kept, Lost
  <1>2. faults' \in 0..MaxFaults
    <2>1. faults \in 0..MaxFaults /\ MaxFaults \in Nat
      BY CommandsAssumption DEF Kept
    <2>2. CASE faults' = faults
      BY <2>1, <2>2
    <2>3. CASE Lost
      BY <2>1, <2>3 DEF Lost
    <2> QED BY <2>2, <2>3
  <1> QED BY <1>1, <1>2 DEF Kept

LEMMA StepsTo ==
    ASSUME CommandsInv, NEW r \in Requests, Running(r), NEW q, RunGood(q), Becomes(r, q),
           q.todo # <<>> => ~ Closes(q.todo[1]), NextStep(r).do \notin {"show", "save"},
           UNCHANGED <<last, faults, newest, kept, clash>>, messages' \subseteq messages
    PROVE  CommandsInv'
  <1>1. last' = last /\ kept' = kept /\ newest' = newest /\ clash' = clash /\ faults' = faults
    OBVIOUS
  <1>2. Kept'
    BY <1>1, KeptSame DEF CommandsInv
  <1>3. ~ Closes(request[r].todo[1])
    BY NowGood, OtherHeads
  <1>4. RequestsGood' /\ LastGood'
    BY <1>1, <1>3, QuietStep DEF CommandsInv
  <1> QED BY <1>2, <1>4 DEF CommandsInv

LEMMA StepsBy ==
    ASSUME CommandsInv, NEW r \in Requests, Running(r), NEW q, RunGood(q), Becomes(r, q),
           Begins(q.todo), NextStep(r).do \notin {"show", "save"},
           UNCHANGED <<last, faults, newest, kept, clash>>, messages' \subseteq messages
    PROVE  CommandsInv'
  <1>1. q.todo # <<>> => ~ Closes(q.todo[1])
    BY DEF Begins
  <1> QED BY <1>1, StepsTo

LEMMA LosesBy ==
    ASSUME CommandsInv, NEW r \in Requests, Running(r), NEW q, RunGood(q), Becomes(r, q), Lost,
           last' = last, kept' = kept /\ newest' = newest, messages' \subseteq messages
    PROVE  CommandsInv'
  BY KeptSame, LostStep DEF CommandsInv

LEMMA FailsQuiet ==
    ASSUME CommandsInv, NEW r \in Requests, Running(r), Fails(r),
           NextStep(r).do \notin {"show", "save", "arrive"}, UNCHANGED <<last, faults, newest, kept, clash>>
    PROVE  CommandsInv'
  <1> DEFINE q == Errs(request[r])
  <1>1. RunGood(q) /\ Begins(q.todo)
    BY NowGood, ErrsGood DEF Arriving
  <1>2. Becomes(r, q) /\ messages' \subseteq messages
    BY DEF Fails
  <1> HIDE DEF q
  <1> QED BY <1>1, <1>2, StepsBy

LEMMA FailsLost ==
    ASSUME CommandsInv, NEW r \in Requests, Running(r), Fails(r), Lost,
           NextStep(r).do # "arrive", last' = last, kept' = kept, newest' = newest
    PROVE  CommandsInv'
  <1> DEFINE q == Errs(request[r])
  <1>1. RunGood(q)
    BY NowGood, ErrsGood DEF Arriving
  <1>2. Becomes(r, q) /\ messages' \subseteq messages
    BY DEF Fails
  <1> HIDE DEF q
  <1> QED BY <1>1, <1>2, LosesBy

LEMMA GoesOn ==
    ASSUME CommandsInv, NEW r \in Requests, Running(r),
           NextStep(r).do \notin {"show", "save", "say", "arrive", "report"},
           NEW steps, GoodSteps(request[r].c, steps), Becomes(r, Goes(request[r], steps)),
           request[r].c.on \in {"prefix", "slash"} /\ NextStep(r).do \in Telling => Tells(steps),
           UNCHANGED <<last, messages, faults, newest, kept, clash>>
    PROVE  CommandsInv'
  <1> DEFINE q == Goes(request[r], steps)
  <1>1. RunGood(q) /\ Begins(q.todo)
    BY NowGood, OtherHeads, GoesGood
  <1>2. Becomes(r, q) /\ messages' \subseteq messages
    OBVIOUS
  <1> HIDE DEF q
  <1> QED BY <1>1, <1>2, StepsBy

LEMMA EndsHere ==
    ASSUME CommandsInv, NEW r \in Requests, Running(r), NextStep(r).do \notin {"show", "save"},
           NEW told \in BOOLEAN, Becomes(r, Ends(request[r], told)),
           request[r].c.on \in {"prefix", "slash"} => told,
           UNCHANGED <<last, messages, faults, newest, kept, clash>>
    PROVE  CommandsInv'
  <1> DEFINE q == Ends(request[r], told)
  <1>1. RunGood(q) /\ Begins(q.todo)
    BY NowGood, EndsGood, EmptyGood
  <1>2. Becomes(r, q) /\ messages' \subseteq messages
    OBVIOUS
  <1> HIDE DEF q
  <1> QED BY <1>1, <1>2, StepsBy

LEMMA AnswersHere ==
    ASSUME CommandsInv, NEW r \in Requests, Running(r), NextStep(r).do \notin {"show", "save"},
           Becomes(r, Answers(request[r])), UNCHANGED <<last, messages, faults, newest, kept, clash>>
    PROVE  CommandsInv'
  <1> DEFINE q == Answers(request[r])
  <1>1. RunGood(q) /\ Begins(q.todo)
    BY NowGood, AnswersGood
  <1>2. Becomes(r, q) /\ messages' \subseteq messages
    OBVIOUS
  <1> HIDE DEF q
  <1> QED BY <1>1, <1>2, StepsBy

LEMMA PanicsHere ==
    ASSUME CommandsInv, NEW r \in Requests, Running(r), NextStep(r).do \notin {"show", "save"},
           Becomes(r, Panics(request[r])), UNCHANGED <<last, messages, faults, newest, kept, clash>>
    PROVE  CommandsInv'
  <1> DEFINE q == Panics(request[r])
  <1>1. RunGood(q) /\ Begins(q.todo)
    BY NowGood, PanicsGood, EmptyGood
  <1>2. Becomes(r, q) /\ messages' \subseteq messages
    OBVIOUS
  <1> HIDE DEF q
  <1> QED BY <1>1, <1>2, StepsBy

(* A request of which only what does not matter here has changed.          *)
SameRun(w, q) ==
    /\ DOMAIN w = RunFields /\ w.at = q.at /\ w.c = q.c /\ w.todo = q.todo /\ w.msg = q.msg
    /\ w.told \in BOOLEAN /\ (q.told => w.told) /\ w.unheard = q.unheard
    /\ w.turns \in 0..MaxTurns
    /\ w.page \in Embed \cup {Nothing} /\ (q.page # Nothing => w.page # Nothing)
    /\ w.said \subseteq Embed
    /\ w.c.on = "message" => w.pending \subseteq Embed
    /\ BoardGood(w)

LEMMA SameRunGood ==
    ASSUME NEW q, RunGood(q), NEW w, SameRun(w, q)
    PROVE  RunGood(w) /\ w.todo = q.todo
  <1>1. RunTyped(w)
    BY DEF RunGood, RunTyped, SameRun
  <1>2. Chained(w.todo) /\ TurnsBack(w) /\ Owes(w) /\ BoardGood(w)
    BY DEF RunGood, SameRun, TurnsBack, Owes
  <1> QED BY <1>1, <1>2 DEF RunGood, SameRun

-----------------------------------------------------------------------------
(* Steps that ask *)

LEMMA DoesGood ==
    ASSUME CommandsInv, NEW r \in Requests, NEW step, Does(r, step)
    PROVE  Running(r) /\ NextStep(r).do = step /\ request[r].todo[1].do = step
  BY NowGood DEF Does, NextStep

LEMMA AcknowledgeGood ==
    ASSUME CommandsInv, NEW r \in Requests, Acknowledge(r)
    PROVE  CommandsInv'
  <1>1. Running(r) /\ NextStep(r).do = "ack"
    BY DoesGood DEF Acknowledge
  <1>2. CASE Becomes(r, Goes(request[r], <<>>)) /\ UNCHANGED <<messages, faults, clash>>
    BY <1>1, <1>2, EmptyGood, GoesOn DEF Acknowledge, Telling
  <1>3. CASE Fails(r) /\ Lost
    BY <1>1, <1>3, FailsLost DEF Acknowledge
  <1> QED BY <1>2, <1>3 DEF Acknowledge

LEMMA ReportsGood ==
    ASSUME CommandsInv, NEW r \in Requests, Reports(r)
    PROVE  CommandsInv'
  <1> DEFINE unheard == [Ends(request[r], FALSE) EXCEPT !.unheard = TRUE]
  <1>1. Running(r) /\ NextStep(r).do = "report"
    BY DoesGood DEF Reports
  <1>2. last' = last /\ messages' = messages /\ newest' = newest /\ kept' = kept
    BY DEF Reports
  <1>3. CASE Becomes(r, Ends(request[r], TRUE)) /\ UNCHANGED <<faults, clash>>
    BY <1>1, <1>2, <1>3, EndsHere
  <1>4. RunGood(unheard) /\ Begins(unheard.todo)
    <2>1. RunGood(unheard) /\ unheard.todo = <<>>
      BY <1>1, NowGood, UnheardGood
    <2> HIDE DEF unheard
    <2> QED BY <2>1, EmptyGood
  <1>5. CASE Becomes(r, unheard) /\ Lost
    <2> HIDE DEF unheard
    <2> QED BY <1>1, <1>2, <1>4, <1>5, LosesBy
  <1>6. CASE Becomes(r, unheard) /\ UNCHANGED <<faults, clash>>
    <2> HIDE DEF unheard
    <2> QED BY <1>1, <1>2, <1>4, <1>6, StepsBy
  <1> QED BY <1>3, <1>5, <1>6 DEF Reports

LEMMA LookUpUserGood ==
    ASSUME CommandsInv, NEW r \in Requests, LookUpUser(r)
    PROVE  CommandsInv'
  <1>1. Running(r) /\ NextStep(r).do = "who"
    BY DoesGood DEF LookUpUser
  <1>2. CASE Becomes(r, Goes(request[r], <<>>)) /\ UNCHANGED messages
    BY <1>1, <1>2, EmptyGood, GoesOn DEF LookUpUser, Telling
  <1>3. CASE Fails(r)
    BY <1>1, <1>3, FailsQuiet DEF LookUpUser
  <1>4. CASE Becomes(r, Answers(request[r])) /\ UNCHANGED messages
    BY <1>1, <1>4, AnswersHere DEF LookUpUser
  <1> QED BY <1>2, <1>3, <1>4 DEF LookUpUser

LEMMA AsksGood ==
    ASSUME CommandsInv, NEW r \in Requests, Asks(r)
    PROVE  CommandsInv'
  <1>1. Running(r) /\ NextStep(r).do = "ask"
    BY DoesGood DEF Asks
  <1>2. CASE Becomes(r, Goes(request[r], <<>>)) /\ UNCHANGED messages
    BY <1>1, <1>2, EmptyGood, GoesOn DEF Asks, Telling
  <1>3. CASE Fails(r)
    BY <1>1, <1>3, FailsQuiet DEF Asks
  <1> QED BY <1>2, <1>3 DEF Asks

LEMMA FindsScoresGood ==
    ASSUME CommandsInv, NEW r \in Requests, FindsScores(r)
    PROVE  CommandsInv'
  <1>1. Running(r) /\ NextStep(r).do = "scores"
    BY DoesGood DEF FindsScores
  <1>2. CASE Becomes(r, Goes(request[r], <<>>)) /\ UNCHANGED messages
    BY <1>1, <1>2, EmptyGood, GoesOn DEF FindsScores, Telling
  <1>3. CASE Fails(r)
    BY <1>1, <1>3, FailsQuiet DEF FindsScores
  <1>4. CASE Becomes(r, Answers(request[r])) /\ UNCHANGED messages
    BY <1>1, <1>4, AnswersHere DEF FindsScores
  <1> QED BY <1>2, <1>3, <1>4 DEF FindsScores

(* The maps that a message leads to, or the channel.                       *)
LEMMA ReferencedGood ==
    ASSUME NEW kind, NEW msg, NEW e \in Referenced(kind, msg)
    PROVE  e \in Embed /\ (kind = "map" => e \in OfMap)
  <1> DEFINE first(es) == {x \in es : \E i \in DOMAIN msg.links :
                              x \in msg.links[i] /\ \A j \in 1..(i - 1) : msg.links[j] \cap es = {}}
             hits == first({x \in Embed : kind \in {"any", x.kind}})
             maps == first({x \in Embed : x.kind = "map"})
  <1>1. \A es : first(es) \subseteq es
    OBVIOUS
  <1>2. Referenced(kind, msg) = IF hits # {} \/ kind # "set" THEN hits ELSE {AsSet(x, x.mode) : x \in maps}
    BY DEF Referenced
  <1>3. hits \subseteq {x \in Embed : kind \in {"any", x.kind}} /\ maps \subseteq {x \in Embed : x.kind = "map"}
    BY <1>1
  <1> HIDE DEF hits, maps
  <1>4. CASE hits # {} \/ kind # "set"
    <2>1. e \in Embed /\ kind \in {"any", e.kind}
      BY <1>2, <1>3, <1>4
    <2> QED BY <2>1 DEF OfMap
  <1>5. CASE ~ (hits # {} \/ kind # "set")
    <2>1. PICK x \in maps : e = AsSet(x, x.mode)
      BY <1>2, <1>5
    <2>2. x \in OfMap
      BY <1>3 DEF OfMap
    <2>3. e \in OfSet
      BY <2>1, <2>2, EmbedKinds, PlayedKinds
    <2> QED BY <2>3, <1>5, EmbedKinds
  <1> QED BY <1>4, <1>5

LEMMA LoadsGood ==
    ASSUME CommandsInv, NEW r \in Requests, Loads(r)
    PROVE  CommandsInv'
  <1> DEFINE q == request[r]
             there == IF q.msg = Nothing THEN FromChannel ELSE Referenced(NextStep(r).how, q.msg)
  <1>1. Running(r) /\ NextStep(r).do = "load"
    BY DoesGood DEF Loads
  <1>2. NextStep(r) \in StepsOf(q.c) /\ q.c \in Command
    BY <1>1, NowGood
  <1>3. /\ <<q.c.on, q.c.name>> \in LoadedBy
        /\ q.c.name = "simulate" => NextStep(r).how = "map"
    BY <1>1, <1>2 DEF StepsOf, StepGood
  <1>4. ASSUME NEW e \in there
        PROVE  e \in Embed /\ (q.c.name = "simulate" => e \in OfMap)
    <2>1. CASE q.msg = Nothing
      <3>1. e \in OfMap
        BY <1>4, <2>1 DEF FromChannel, CommandsInv, Kept
      <3> QED BY <3>1, EmbedKinds
    <2>2. CASE q.msg # Nothing
      BY <1>3, <1>4, <2>2, ReferencedGood
    <2> QED BY <2>1, <2>2
  <1>5. ASSUME NEW e \in there, Becomes(r, Goes(q, Found(q.c, e)))
        PROVE  CommandsInv'
    <2> DEFINE steps == Found(q.c, e)
    <2>1. GoodSteps(q.c, steps) /\ (q.c.on \in {"prefix", "slash"} => Tells(steps))
      BY <1>2, <1>3, <1>4, FoundGood
    <2>2. Becomes(r, Goes(request[r], steps))
      BY <1>5
    <2> HIDE DEF steps
    <2> QED BY <1>1, <2>1, <2>2, GoesOn DEF Loads
  <1>6. CASE Becomes(r, Panics(q))
    BY <1>1, <1>6, PanicsHere DEF Loads
  <1>7. CASE Becomes(r, Answers(q))
    BY <1>1, <1>7, AnswersHere DEF Loads
  <1> QED BY <1>5, <1>6, <1>7 DEF Loads

LEMMA ReadsInputGood ==
    ASSUME CommandsInv, NEW r \in Requests, ReadsInput(r)
    PROVE  CommandsInv'
  <1> DEFINE q == request[r]
             given == IF q.c.input = Nothing THEN FromChannel ELSE {q.c.input}
             wanted(e) == IF q.c.set /\ e.kind = "map" THEN AsSet(e, q.c.mode) ELSE e
  <1>1. Running(r) /\ NextStep(r).do = "input"
    BY DoesGood DEF ReadsInput
  <1>2. NextStep(r) \in StepsOf(q.c) /\ q.c \in Command
    BY <1>1, NowGood
  <1>3. <<q.c.on, q.c.name>> \in InputOf /\ q.c.name # "simulate"
    BY <1>1, <1>2 DEF StepsOf, StepGood, InputOf
  <1>4. ASSUME NEW e \in given
        PROVE  wanted(e) \in Embed
    <2>1. e \in Embed
      <3>1. CASE q.c.input = Nothing
        BY <1>4, <3>1, EmbedKinds DEF FromChannel, CommandsInv, Kept
      <3>2. CASE q.c.input # Nothing
        BY <1>2, <1>4, <3>2 DEF Command
      <3> QED BY <3>1, <3>2
    <2>2. CASE q.c.set /\ e.kind = "map"
      <3>1. e \in OfMap /\ q.c.mode \in Modes \cup {NoMode}
        BY <1>2, <2>1, <2>2 DEF OfMap, Command
      <3> QED BY <2>2, <3>1, PlayedKinds, EmbedKinds
    <2>3. CASE ~ (q.c.set /\ e.kind = "map")
      BY <2>1, <2>3
    <2> QED BY <2>2, <2>3
  <1>5. ASSUME NEW e \in given, Becomes(r, Goes(q, Found(q.c, wanted(e)))), UNCHANGED messages
        PROVE  CommandsInv'
    <2> DEFINE w == wanted(e)
               steps == Found(q.c, w)
    <2>1. w \in Embed
      BY <1>4
    <2>2. Becomes(r, Goes(request[r], steps))
      BY <1>5
    <2> HIDE DEF w
    <2>3. GoodSteps(q.c, steps) /\ (q.c.on \in {"prefix", "slash"} => Tells(steps))
      BY <1>2, <1>3, <2>1, FoundGood
    <2> HIDE DEF steps
    <2> QED BY <1>1, <1>5, <2>2, <2>3, GoesOn DEF ReadsInput
  <1>6. CASE Fails(r)
    BY <1>1, <1>6, FailsQuiet DEF ReadsInput
  <1> QED BY <1>5, <1>6 DEF ReadsInput

-----------------------------------------------------------------------------
(* Steps that keep count, too *)

LEMMA SameRunOf ==
    ASSUME NEW p, RunGood(p)
    PROVE  /\ \A n \in 0..MaxTurns : SameRun([p EXCEPT !.turns = n], p)
           /\ \A b : BoardGood([p EXCEPT !.board = b]) => SameRun([p EXCEPT !.board = b], p)
           /\ \A x : (p.c.on = "message" => x \subseteq Embed) /\ (Arriving(p) => x \subseteq p.pending)
                       => SameRun([p EXCEPT !.pending = x], p)
           /\ \A x, b : Arriving(p) /\ x \subseteq p.pending /\ b \in Seq(Ranking)
                         => SameRun([p EXCEPT !.pending = x, !.board = b], p)
           /\ SameRun([p EXCEPT !.told = TRUE], p)
  <1>0. RunTyped(p) /\ BoardGood(p)
    BY DEF RunGood
  <1>6. ASSUME NEW w, w.todo = p.todo, w.c = p.c, w.board = p.board,
               Arriving(p) => w.pending \subseteq p.pending
        PROVE  BoardGood(w)
    BY <1>0, <1>6 DEF BoardGood, Arriving, Answered, TurnsLater
  <1>1. ASSUME NEW n \in 0..MaxTurns
        PROVE  SameRun([p EXCEPT !.turns = n], p)
    <2> DEFINE w == [p EXCEPT !.turns = n]
    <2>1. w.todo = p.todo /\ w.c = p.c /\ w.board = p.board /\ w.pending = p.pending
      BY <1>0 DEF RunTyped, RunFields
    <2>2. BoardGood(w)
      <3> HIDE DEF w
      <3> QED BY <1>6, <2>1
    <2> QED BY <1>0, <2>2 DEF RunTyped, RunFields, SameRun
  <1>2. ASSUME NEW b, BoardGood([p EXCEPT !.board = b])
        PROVE  SameRun([p EXCEPT !.board = b], p)
    BY <1>0, <1>2 DEF RunTyped, RunFields, SameRun
  <1>3. ASSUME NEW x, p.c.on = "message" => x \subseteq Embed, Arriving(p) => x \subseteq p.pending
        PROVE  SameRun([p EXCEPT !.pending = x], p)
    <2> DEFINE w == [p EXCEPT !.pending = x]
    <2>1. w.todo = p.todo /\ w.c = p.c /\ w.board = p.board /\ w.pending = x
      BY <1>0 DEF RunTyped, RunFields
    <2>2. BoardGood(w)
      <3> HIDE DEF w
      <3> QED BY <1>3, <1>6, <2>1
    <2> QED BY <1>0, <1>3, <2>2 DEF RunTyped, RunFields, SameRun
  <1>4. ASSUME NEW x, NEW b, Arriving(p), x \subseteq p.pending, b \in Seq(Ranking)
        PROVE  SameRun([p EXCEPT !.pending = x, !.board = b], p)
    <2> DEFINE w == [p EXCEPT !.pending = x, !.board = b]
    <2>1. w.todo = p.todo /\ w.c = p.c /\ w.board = b /\ w.pending = x
      BY <1>0 DEF RunTyped, RunFields
    <2>2. BoardGood(w)
      <3> HIDE DEF w
      <3> QED BY <1>0, <1>4, <2>1 DEF BoardGood, Arriving
    <2>3. p.c.on # "message"
      <3>1. p.todo[1] \in StepsOf(p.c)
        BY <1>4, RunRest DEF Arriving
      <3> QED BY <1>4, <3>1 DEF Arriving, StepsOf, StepGood
    <2> QED BY <1>0, <2>2, <2>3 DEF RunTyped, RunFields, SameRun
  <1>5. SameRun([p EXCEPT !.told = TRUE], p)
    <2> DEFINE w == [p EXCEPT !.told = TRUE]
    <2>1. w.todo = p.todo /\ w.c = p.c /\ w.board = p.board /\ w.pending = p.pending
      BY <1>0 DEF RunTyped, RunFields
    <2>2. BoardGood(w)
      <3> HIDE DEF w
      <3> QED BY <1>6, <2>1
    <2> QED BY <1>0, <2>2 DEF RunTyped, RunFields, SameRun
  <1> QED BY <1>1, <1>2, <1>3, <1>4, <1>5

LEMMA GoesAlso ==
    ASSUME CommandsInv, NEW r \in Requests, Running(r),
           NextStep(r).do \notin {"show", "save", "say", "arrive", "report"},
           NEW steps, GoodSteps(request[r].c, steps),
           request[r].c.on \in {"prefix", "slash"} /\ NextStep(r).do \in Telling => Tells(steps),
           NEW w, SameRun(w, Goes(request[r], steps)), Becomes(r, w),
           UNCHANGED <<last, messages, faults, newest, kept, clash>>
    PROVE  CommandsInv'
  <1> DEFINE q == Goes(request[r], steps)
  <1>1. RunGood(q) /\ Begins(q.todo)
    BY NowGood, OtherHeads, GoesGood
  <1>2. SameRun(w, q) /\ messages' \subseteq messages
    OBVIOUS
  <1> HIDE DEF q
  <1>3. RunGood(w) /\ w.todo = q.todo
    BY <1>1, <1>2, SameRunGood
  <1> QED BY <1>1, <1>2, <1>3, StepsBy

(* The steps go on as they were.                                           *)
LEMMA StaysOn ==
    ASSUME CommandsInv, NEW r \in Requests, Running(r),
           NextStep(r).do \notin {"show", "save", "turn"},
           NEW w, SameRun(w, request[r]), Becomes(r, w),
           UNCHANGED <<last, messages, faults, newest, kept, clash>>
    PROVE  CommandsInv'
  <1>1. RunGood(request[r]) /\ request[r].todo[1] = NextStep(r)
    BY NowGood
  <1>2. RunGood(w) /\ w.todo = request[r].todo
    BY <1>1, SameRunGood
  <1>3. ~ Closes(w.todo[1])
    BY <1>1, <1>2, OtherHeads
  <1>4. messages' \subseteq messages
    OBVIOUS
  <1> QED BY <1>2, <1>3, <1>4, StepsTo

LEMMA GoesGoodNow ==
    ASSUME CommandsInv, NEW r \in Requests, Running(r),
           NextStep(r).do \notin {"show", "save", "say", "arrive", "report"},
           NEW steps, GoodSteps(request[r].c, steps),
           request[r].c.on \in {"prefix", "slash"} /\ NextStep(r).do \in Telling => Tells(steps)
    PROVE  RunGood(Goes(request[r], steps)) /\ Goes(request[r], steps).turns = request[r].turns
  <1>1. RunGood(Goes(request[r], steps))
    BY NowGood, OtherHeads, GoesGood
  <1>2. DOMAIN request[r] = RunFields
    BY NowGood DEF RunTyped
  <1> QED BY <1>1, <1>2, GoesFields

LEMMA PicksPlayGood ==
    ASSUME CommandsInv, NEW r \in Requests, PicksPlay(r)
    PROVE  CommandsInv'
  <1> DEFINE q == request[r]
             then == NextStep(r).how
             more == IF then = "mentioned" /\ q.turns < MaxTurns THEN <<Plays(then)>> ELSE <<>>
  <1>1. Running(r) /\ NextStep(r).do = "plays"
    BY DoesGood DEF PicksPlay
  <1>2. NextStep(r) \in StepsOf(q.c) /\ q.c \in Command /\ RunTyped(q)
    BY <1>1, NowGood
  <1>3. then \in Picking
    BY <1>1, <1>2 DEF StepsOf, StepGood
  <1>4. more \in Seq(PlainOf(q.c))
    <2> DEFINE plays == Plays(then)
    <2>1. plays \in PlainOf(q.c)
      BY <1>3, StepKinds
    <2>2. more = <<plays>> \/ more = <<>>
      OBVIOUS
    <2> HIDE DEF plays, more
    <2> QED BY <2>1, <2>2, ShortSteps
  <1>5. ASSUME NEW e \in Playable,
               Becomes(r, [Goes(q, OfPlay(then, e) \o more)
                             EXCEPT !.turns = IF more = <<>> THEN @ ELSE @ + 1]),
               UNCHANGED messages
        PROVE  CommandsInv'
    <2> DEFINE s == OfPlay(then, e)
               steps == s \o more
               p == Goes(q, steps)
               n == IF more = <<>> THEN p.turns ELSE p.turns + 1
    <2>1. e \in OfMap
      BY DEF Playable, OfMap
    <2>2. GoodSteps(q.c, s) /\ Tells(s)
      BY <1>2, <1>3, <2>1, OfPlayGood
    <2>3. Becomes(r, [p EXCEPT !.turns = n])
      BY <1>5
    <2>4. more # <<>> => q.turns < MaxTurns
      OBVIOUS
    <2>5. GoodSteps(q.c, more)
      BY <1>4, PlainGood
    <2> HIDE DEF s, more
    <2>6. GoodSteps(q.c, steps) /\ Tells(steps)
      BY <2>2, <2>5, GoodConcat, ConcatOthers DEF GoodSteps
    <2> HIDE DEF steps
    <2>7. RunGood(p) /\ p.turns = q.turns
      BY <1>1, <2>6, GoesGoodNow
    <2> HIDE DEF p
    <2>8. n \in 0..MaxTurns
      BY <1>2, <2>4, <2>7, CommandsAssumption DEF RunTyped
    <2> HIDE DEF n
    <2>9. SameRun([p EXCEPT !.turns = n], p)
      BY <2>7, <2>8, SameRunOf
    <2> QED BY <1>1, <1>5, <2>3, <2>6, <2>9, GoesAlso DEF p, PicksPlay
  <1>6. CASE Fails(r)
    BY <1>1, <1>6, FailsQuiet DEF PicksPlay
  <1> QED BY <1>5, <1>6 DEF PicksPlay

-----------------------------------------------------------------------------
(* Lists *)

LEMMA PageOfGood ==
    ASSUME NEW how \in Opened, NEW x, how = "set" => x \in OfSet, NEW e \in PageOf(how, x)
    PROVE  e \in Embed
  <1>1. CASE how = "set"
    <2>1. PICK m \in MapsOfSet(x.of) : e = MapEmbed(m, x.mode)
      BY <1>1 DEF PageOf
    <2>2. m \in BoardMaps /\ x.mode \in Modes \cup {NoMode}
      BY <1>1, <2>1, EmbedKinds DEF MapsOfSet
    <2> QED BY <2>1, <2>2, EmbedKinds
  <1>2. CASE how # "set"
    <2>1. PICK y \in Playable : e = ShortLink(y)
      BY <1>2 DEF PageOf
    <2>2. y \in OfMap
      BY DEF Playable, OfMap
    <2> QED BY <2>1, <2>2, PlayedKinds, EmbedKinds
  <1> QED BY <1>1, <1>2

LEMMA TurnKinds ==
    ASSUME NEW c, NEW how \in Opened, NEW x \in Embed \cup {Nothing}, how = "set" => x \in OfSet
    PROVE  Step("turn", how, x) \in StepsOf(c) /\ Step("turn", how, x).do = "turn"
  BY DEF Step, StepsOf, StepGood, Doing, Hows

LEMMA OpensListGood ==
    ASSUME CommandsInv, NEW r \in Requests, OpensList(r)
    PROVE  CommandsInv'
  <1> DEFINE q == request[r]
             step == NextStep(r)
             turn == Step("turn", step.how, step.e)
  <1>1. Running(r) /\ NextStep(r).do = "list"
    BY DoesGood DEF OpensList
  <1>2. NextStep(r) \in StepsOf(q.c) /\ q.c \in Command
    BY <1>1, NowGood
  <1>3. step.e \in Embed \cup {Nothing} /\ (step.how = "set" => step.e \in OfSet)
    BY <1>1, <1>2 DEF StepsOf, StepGood
  <1>4. CASE Becomes(r, Goes(q, <<Ask, Show("table", Nothing)>>))
    <2> DEFINE show == Show("table", Nothing)
    <2>1. Ask \in PlainOf(q.c) /\ show \in PlainOf(q.c) /\ show.do \in Telling
      BY StepKinds, TellingSteps
    <2>2. Becomes(r, Goes(request[r], <<Ask, show>>))
      BY <1>4
    <2> HIDE DEF show
    <2>3. GoodSteps(q.c, <<Ask, show>>) /\ Tells(<<Ask, show>>)
      BY <2>1, AnsweringShort, AnsweringGood
    <2> QED BY <1>1, <2>2, <2>3, GoesOn DEF OpensList
  <1>5. ASSUME step.how \in Opened, NEW e \in PageOf(step.how, step.e), NEW single \in BOOLEAN,
               Becomes(r, Goes(q, PageSteps(step.how, e) \o (IF single THEN <<>> ELSE <<turn>>)))
        PROVE  CommandsInv'
    <2> DEFINE page == PageSteps(step.how, e)
               steps == page \o (IF single THEN <<>> ELSE <<turn>>)
    <2>1. e \in Embed
      BY <1>3, <1>5, PageOfGood
    <2>2. turn \in StepsOf(q.c) /\ turn.do = "turn"
      BY <1>3, <1>5, TurnKinds
    <2>3. GoodSteps(q.c, page) /\ Tells(page)
      BY <1>5, <2>1, PageStepsGood
    <2>4. Becomes(r, Goes(request[r], steps))
      BY <1>5
    <2> HIDE DEF turn
    <2>5. GoodSteps(q.c, page \o <<turn>>) /\ Tells(page \o <<turn>>)
      BY <1>5, <2>1, <2>2, PageThenTurn
    <2> HIDE DEF page
    <2>6. page \o <<>> = page
      BY <2>3 DEF GoodSteps
    <2>7. GoodSteps(q.c, steps) /\ Tells(steps)
      BY <2>3, <2>5, <2>6
    <2> HIDE DEF steps
    <2> QED BY <1>1, <2>4, <2>7, GoesOn DEF OpensList
  <1> QED BY <1>4, <1>5 DEF OpensList, Opened

LEMMA TurnsGood ==
    ASSUME CommandsInv, NEW r \in Requests, Turns(r)
    PROVE  CommandsInv'
  <1> DEFINE q == request[r]
             step == NextStep(r)
             turn == Step("turn", step.how, step.e)
  <1>1. Running(r) /\ NextStep(r).do = "turn"
    BY DoesGood DEF Turns
  <1>2. NextStep(r) \in StepsOf(q.c) /\ RunGood(q) /\ RunTyped(q) /\ q.todo # <<>> /\ q.todo[1] = step
    BY <1>1, NowGood
  <1>3. step.e \in Embed \cup {Nothing} /\ (step.how = "set" => step.e \in OfSet) /\ step.how \in Opened
    BY <1>1, <1>2 DEF StepsOf, StepGood
  <1>4. turn \in StepsOf(q.c) /\ turn.do = "turn"
    BY <1>3, TurnKinds
  <1>5. ASSUME q.turns < MaxTurns,
               NEW e \in PageOf(step.how, step.e) \cup (IF step.how = "set" THEN {step.e} ELSE {}),
               Becomes(r, [Goes(q, PageSteps(step.how, e) \o <<turn>>) EXCEPT !.turns = @ + 1])
        PROVE  CommandsInv'
    <2> DEFINE steps == PageSteps(step.how, e) \o <<turn>>
               p == Goes(q, steps)
               n == p.turns + 1
    <2>1. e \in Embed
      BY <1>3, <1>5, PageOfGood, EmbedKinds
    <2> HIDE DEF turn
    <2>2. GoodSteps(q.c, steps) /\ Tells(steps)
      BY <1>3, <1>4, <2>1, PageThenTurn
    <2>3. Becomes(r, [p EXCEPT !.turns = n])
      BY <1>5
    <2> HIDE DEF steps
    <2>4. RunGood(p) /\ p.turns = q.turns
      BY <1>1, <2>2, GoesGoodNow
    <2> HIDE DEF p
    <2>5. n \in 0..MaxTurns
      BY <1>2, <1>5, <2>4, CommandsAssumption DEF RunTyped
    <2> HIDE DEF n
    <2>6. SameRun([p EXCEPT !.turns = n], p)
      BY <2>4, <2>5, SameRunOf
    <2> QED BY <1>1, <2>2, <2>3, <2>6, GoesAlso DEF p, Turns
  <1>6. CASE Becomes(r, Goes(q, PageSteps(step.how, q.page)))
    <2> DEFINE steps == PageSteps(step.how, q.page)
    <2>1. q.page \in Embed
      BY <1>1, <1>2 DEF RunGood, RunTyped, TurnsBack
    <2>2. GoodSteps(q.c, steps) /\ Tells(steps)
      BY <1>3, <2>1, PageStepsGood
    <2>3. Becomes(r, Goes(request[r], steps))
      BY <1>6
    <2> HIDE DEF steps
    <2> QED BY <1>1, <2>2, <2>3, GoesOn DEF Turns
  <1> QED BY <1>5, <1>6 DEF Turns

-----------------------------------------------------------------------------
(* Sorting *)

(* An order that tells who comes first, and has equals.                    *)
Ordering(order, S) ==
    /\ \A a \in S, b \in S : <<a, b>> \in order => <<b, a>> \notin order
    /\ \A a \in S, b \in S, c \in S :
          <<a, b>> \notin order /\ <<b, c>> \notin order => <<a, c>> \notin order

(* No element of a list comes before one that is in front of it.           *)
Ordered(order, t) ==
    \A i \in 1..Len(t), j \in 1..Len(t) : i < j => <<t[j], t[i]>> \notin order

(* An element is placed behind the last that it does not come before.      *)
PlacedAt(order, t, x, p) ==
    /\ Insertion(PlaceIn(order, t, x), t, p + 1, x)
    /\ \A i \in (p + 1)..Len(t) : <<x, t[i]>> \in order
    /\ p # 0 => <<x, t[p]>> \notin order

LEMMA Placed ==
    ASSUME NEW S, NEW order, NEW t \in Seq(S), NEW x \in S
    PROVE  PlaceIn(order, t, x) \in Seq(S) /\ \E p \in 0..Len(t) : PlacedAt(order, t, x, p)
  <1> DEFINE places == {p \in 0..Len(t) : \A i \in (p + 1)..Len(t) : <<x, t[i]>> \in order}
             p == Min(places)
             w == PlaceIn(order, t, x)
  <1>0. Len(t) \in Nat
    OBVIOUS
  <1>1. places \in SUBSET Nat /\ Len(t) \in places
    BY <1>0
  <1>2. p \in places /\ \A n \in places : p <= n
    <2> HIDE DEF places
    <2>1. \E m \in places : \A n \in places : m <= n
      BY <1>1, LeastExists
    <2> QED BY <2>1 DEF Min
  <1>3. p \in 0..Len(t) /\ \A i \in (p + 1)..Len(t) : <<x, t[i]>> \in order
    BY <1>2
  <1>4. p # 0 => <<x, t[p]>> \notin order
    <2> SUFFICES ASSUME p # 0, <<x, t[p]>> \in order
                 PROVE  FALSE
      OBVIOUS
    <2> DEFINE before == p - 1
    <2>1. before \in 0..Len(t) /\ ~ (p <= before)
      <3> HIDE DEF p, places
      <3> QED BY <1>0, <1>3
    <2>2. \A i \in (before + 1)..Len(t) : i = p \/ i \in (p + 1)..Len(t)
      <3> HIDE DEF p, places
      <3> QED BY <1>0, <1>3
    <2>3. before \in places
      <3> HIDE DEF p, before
      <3> QED BY <1>3, <2>1, <2>2
    <2> HIDE DEF p, before, places
    <2> QED BY <1>2, <2>1, <2>3
  <1>5. w = InsertAt(t, 1 + p, x)
    BY DEF PlaceIn
  <1> HIDE DEF p, places
  <1> DEFINE k == p + 1
  <1>6. k \in 1..(Len(t) + 1) /\ 1 + p = k
    BY <1>0, <1>3
  <1>7. w = SubSeq(t, 1, k - 1) \o <<x>> \o SubSeq(t, k, Len(t))
    BY <1>5, <1>6 DEF InsertAt
  <1> HIDE DEF k, w
  <1>8. w \in Seq(S) /\ Insertion(w, t, k, x)
    BY <1>6, <1>7, Inserted
  <1>9. PlacedAt(order, t, x, p)
    BY <1>3, <1>4, <1>8 DEF PlacedAt, k, w
  <1> QED BY <1>3, <1>8, <1>9 DEF w

LEMMA PlacedInOrder ==
    ASSUME NEW S, NEW order, Ordering(order, S), NEW t \in Seq(S), NEW x \in S, Ordered(order, t)
    PROVE  Ordered(order, PlaceIn(order, t, x))
  <1> DEFINE w == PlaceIn(order, t, x)
  <1>1. PICK p \in 0..Len(t) : PlacedAt(order, t, x, p)
    BY Placed
  <1> DEFINE k == p + 1
  <1>2. /\ Len(t) \in Nat /\ Len(w) = Len(t) + 1
        /\ \A i \in 1..Len(w) : w[i] = IF i < k THEN t[i] ELSE IF i = k THEN x ELSE t[i - 1]
        /\ \A i \in 1..Len(t) : t[i] \in S
    BY <1>1 DEF PlacedAt, Insertion
  <1>3. \A i \in k..Len(t) : <<t[i], x>> \notin order
    <2> TAKE i \in k..Len(t)
    <2>1. i \in (p + 1)..Len(t) /\ i \in 1..Len(t)
      BY <1>1, <1>2
    <2>2. <<x, t[i]>> \in order /\ t[i] \in S
      BY <1>1, <1>2, <2>1 DEF PlacedAt
    <2> QED BY <2>2 DEF Ordering
  <1>4. \A i \in 1..p : <<x, t[i]>> \notin order
    <2> TAKE i \in 1..p
    <2>1. p # 0 /\ p \in 1..Len(t) /\ i \in 1..Len(t)
      BY <1>1, <1>2
    <2>2. <<x, t[p]>> \notin order
      BY <1>1, <2>1 DEF PlacedAt
    <2>3. i # p => <<t[p], t[i]>> \notin order
      <3>1. i # p => i < p
        BY <2>1
      <3> QED BY <2>1, <3>1 DEF Ordered
    <2>4. t[i] \in S /\ t[p] \in S
      BY <1>2, <2>1
    <2> QED BY <2>2, <2>3, <2>4 DEF Ordering
  <1>5. ASSUME NEW i \in 1..Len(w), NEW j \in 1..Len(w), i < j
        PROVE  <<w[j], w[i]>> \notin order
    <2> HIDE DEF w
    <2>1. CASE j < k
      <3>1. i \in 1..Len(t) /\ j \in 1..Len(t) /\ i < k
        BY <1>1, <1>2, <1>5, <2>1
      <3>2. w[i] = t[i] /\ w[j] = t[j]
        BY <1>2, <2>1, <3>1
      <3> QED BY <1>5, <3>1, <3>2 DEF Ordered
    <2>2. CASE j = k
      <3>1. i \in 1..p /\ i < k
        BY <1>1, <1>2, <1>5, <2>2
      <3>2. w[i] = t[i] /\ w[j] = x
        BY <1>2, <2>2, <3>1
      <3> QED BY <1>4, <3>1, <3>2
    <2>3. CASE j > k /\ i < k
      <3> DEFINE l == j - 1
      <3>1. i \in 1..Len(t) /\ l \in 1..Len(t) /\ i < l /\ ~ (j < k) /\ j # k
        BY <1>1, <1>2, <1>5, <2>3
      <3>2. w[i] = t[i] /\ w[j] = t[l]
        BY <1>2, <2>3, <3>1
      <3> HIDE DEF l
      <3> QED BY <3>1, <3>2 DEF Ordered
    <2>4. CASE j > k /\ i = k
      <3> DEFINE l == j - 1
      <3>1. l \in k..Len(t) /\ ~ (j < k) /\ j # k /\ ~ (i < k)
        BY <1>1, <1>2, <1>5, <2>4
      <3>2. w[i] = x /\ w[j] = t[l]
        BY <1>2, <2>4, <3>1
      <3> HIDE DEF l
      <3> QED BY <1>3, <3>1, <3>2
    <2>5. CASE j > k /\ i > k
      <3> DEFINE l == j - 1
                 h == i - 1
      <3>1. /\ l \in 1..Len(t) /\ h \in 1..Len(t) /\ h < l
            /\ ~ (j < k) /\ j # k /\ ~ (i < k) /\ i # k
        BY <1>1, <1>2, <1>5, <2>5
      <3>2. w[i] = t[h] /\ w[j] = t[l]
        BY <1>2, <3>1
      <3> HIDE DEF l, h
      <3> QED BY <3>1, <3>2 DEF Ordered
    <2>6. j < k \/ j = k \/ (j > k /\ (i < k \/ i = k \/ i > k))
      BY <1>1, <1>2, <1>5
    <2> QED BY <2>1, <2>2, <2>3, <2>4, <2>5, <2>6
  <1> HIDE DEF w
  <1>6. Ordered(order, w)
    BY <1>5 DEF Ordered
  <1> QED BY <1>6 DEF w

(* The first elements of a list in some order, each of them once.          *)
Arranges(f, t, s, n) ==
    /\ f \in [1..n -> 1..n]
    /\ \A i \in 1..n : t[i] = s[f[i]]
    /\ \A i \in 1..n, j \in 1..n : f[i] = f[j] => i = j
    /\ \A i \in 1..n : \E j \in 1..n : f[j] = i

Rearranged(t, s, n) == Len(t) = n /\ \E f : Arranges(f, t, s, n)

LEMMA RearrangedNext ==
    ASSUME NEW n \in Nat, NEW t, NEW s, Rearranged(t, s, n), NEW w,
           NEW k \in 1..(n + 1), Insertion(w, t, k, s[n + 1])
    PROVE  Rearranged(w, s, n + 1)
  <1>1. PICK f : Arranges(f, t, s, n)
    BY DEF Rearranged
  <1> DEFINE m == n + 1
             g == [i \in 1..m |-> IF i < k THEN f[i] ELSE IF i = k THEN m ELSE f[i - 1]]
  <1>2. /\ Len(w) = m /\ m \in 1..m /\ k \in 1..m
        /\ \A i \in 1..m : w[i] = IF i < k THEN t[i] ELSE IF i = k THEN s[m] ELSE t[i - 1]
    BY DEF Insertion, Rearranged
  <1>3. \A i \in 1..n : f[i] \in 1..n /\ f[i] \in 1..m /\ f[i] # m
    BY <1>1 DEF Arranges
  <1>4. ASSUME NEW i \in 1..m
        PROVE  /\ i < k => i \in 1..n /\ g[i] = f[i] /\ w[i] = t[i]
               /\ i = k => g[i] = m /\ w[i] = s[m]
               /\ i > k => i - 1 \in 1..n /\ g[i] = f[i - 1] /\ w[i] = t[i - 1]
    <2>1. g[i] = IF i < k THEN f[i] ELSE IF i = k THEN m ELSE f[i - 1]
      OBVIOUS
    <2> HIDE DEF g
    <2> QED BY <1>2, <2>1
  <1>5. \A i \in 1..m : i < k \/ i = k \/ i > k
    OBVIOUS
  <1> HIDE DEF m
  <1>6. g \in [1..m -> 1..m]
    <2>1. \A i \in 1..m : g[i] \in 1..m
      <3> TAKE i \in 1..m
      <3> HIDE DEF g
      <3> QED BY <1>2, <1>3, <1>4, <1>5
    <2> QED BY <2>1
  <1> HIDE DEF g
  <1>7. ASSUME NEW i \in 1..m
        PROVE  w[i] = s[g[i]]
    <2>1. \A j \in 1..n : t[j] = s[f[j]]
      BY <1>1 DEF Arranges
    <2> QED BY <1>4, <1>5, <2>1
  <1>8. ASSUME NEW i \in 1..m, NEW j \in 1..m, g[i] = g[j]
        PROVE  i = j
    <2>1. \A a \in 1..n, b \in 1..n : f[a] = f[b] => a = b
      BY <1>1 DEF Arranges
    <2>2. CASE i = k \/ j = k
      BY <1>3, <1>4, <1>5, <1>8, <2>2
    <2>3. CASE i < k /\ j < k
      BY <1>4, <1>8, <2>1, <2>3
    <2>4. CASE i > k /\ j > k
      <3>1. i - 1 = j - 1
        BY <1>4, <1>8, <2>1, <2>4
      <3> QED BY <3>1
    <2>5. CASE i < k /\ j > k
      <3>1. i = j - 1
        BY <1>4, <1>8, <2>1, <2>5
      <3> QED BY <2>5, <3>1
    <2>6. CASE i > k /\ j < k
      <3>1. j = i - 1
        BY <1>4, <1>8, <2>1, <2>6
      <3> QED BY <2>6, <3>1
    <2> QED BY <1>5, <2>2, <2>3, <2>4, <2>5, <2>6
  <1>9. ASSUME NEW i \in 1..m
        PROVE  \E j \in 1..m : g[j] = i
    <2>1. CASE i = m
      BY <1>2, <1>4, <2>1
    <2>2. CASE i # m
      <3>1. i \in 1..n
        BY <2>2 DEF m
      <3>2. PICK j \in 1..n : f[j] = i
        BY <1>1, <3>1 DEF Arranges
      <3>3. CASE j < k
        <4>1. j \in 1..m
          BY DEF m
        <4> QED BY <1>4, <3>2, <3>3, <4>1
      <3>4. CASE j >= k
        <4> DEFINE l == j + 1
        <4>1. l \in 1..m /\ l > k /\ l - 1 = j
          BY <3>4 DEF m
        <4> HIDE DEF l
        <4> QED BY <1>4, <3>2, <4>1
      <3> QED BY <3>3, <3>4
    <2> QED BY <2>1, <2>2
  <1>10. Arranges(g, w, s, m)
    BY <1>6, <1>7, <1>8, <1>9 DEF Arranges
  <1> QED BY <1>2, <1>10 DEF Rearranged, m

(* Sorting rearranges a list, and puts it in order.                        *)
LEMMA SortedGood ==
    ASSUME NEW S, NEW order, NEW s \in Seq(S)
    PROVE  /\ Sorted(order, s) \in Seq(S)
           /\ Rearranged(Sorted(order, s), s, Len(s))
           /\ Ordering(order, S) => Ordered(order, Sorted(order, s))
  <1> DEFINE N == Len(s)
             X == Seq(S)
             op == [t \in X |-> [x \in S |-> PlaceIn(order, t, x)]]
             done[n \in 0..N] == IF n = 0 THEN <<>> ELSE PlaceIn(order, done[n - 1], s[n])
             Good == {n \in 0..N : /\ done[n] \in X
                                   /\ Rearranged(done[n], s, n)
                                   /\ Ordering(order, S) => Ordered(order, done[n])}
  <1>0. N \in Nat /\ \A n \in 1..N : s[n] \in S
    OBVIOUS
  <1>1. done = [n \in 0..N |-> IF n = 0 THEN <<>> ELSE PlaceIn(order, done[n - 1], s[n])]
    <2>1. op \in [X -> [S -> X]]
      BY Placed
    <2>2. <<>> \in X
      OBVIOUS
    <2>3. PICK f : IsFold(f, X, op, <<>>, s)
      <3> HIDE DEF op, X
      <3> QED BY <2>1, <2>2, FoldExists
    <2>4. \A n \in 1..N : f[n] = PlaceIn(order, f[n - 1], s[n])
      <3> TAKE n \in 1..N
      <3>1. f[n - 1] \in X /\ s[n] \in S
        <4>1. n - 1 \in 0..N /\ s[n] \in S
          BY <1>0
        <4>2. f \in [0..N -> X]
          BY <2>3 DEF IsFold
        <4> HIDE DEF X, N, op
        <4> QED BY <4>1, <4>2
      <3>2. f[n] = op[f[n - 1]][s[n]]
        BY <2>3 DEF IsFold
      <3> QED BY <3>1, <3>2
    <2>5. f = [n \in 0..N |-> IF n = 0 THEN <<>> ELSE PlaceIn(order, f[n - 1], s[n])]
      <3> HIDE DEF op, X, N
      <3> DEFINE h == [n \in 0..N |-> IF n = 0 THEN <<>> ELSE PlaceIn(order, f[n - 1], s[n])]
      <3>1. \A n \in 0..N : h[n] = f[n]
        BY <1>0, <2>3, <2>4 DEF IsFold, N
      <3>2. f \in [0..N -> X]
        BY <2>3 DEF IsFold, N
      <3> QED BY <3>1, <3>2
    <2>6. \E g : g = [n \in 0..N |-> IF n = 0 THEN <<>> ELSE PlaceIn(order, g[n - 1], s[n])]
      <3> HIDE DEF op, X, N
      <3> QED BY <2>5
    <2> QED BY <2>6, Zenon
  <1>2. Sorted(order, s) = done[N]
    BY DEF Sorted
  <1> HIDE DEF done, N
  <1>3. 0 \in Good
    <2>1. done[0] = <<>> /\ 0 \in 0..N
      BY <1>0, <1>1
    <2>2. <<>> \in X /\ Len(<<>>) = 0 /\ Ordered(order, <<>>)
      BY DEF Ordered
    <2>3. Rearranged(<<>>, s, 0)
      <3> DEFINE f == [i \in 1..0 |-> i]
      <3>1. Arranges(f, <<>>, s, 0)
        BY DEF Arranges
      <3> QED BY <2>2, <3>1 DEF Rearranged
    <2> HIDE DEF X
    <2> QED BY <2>1, <2>2, <2>3
  <1>4. ASSUME NEW n \in 0..(N - 1), n \in Good
        PROVE  n + 1 \in Good
    <2>1. n + 1 \in 1..N /\ n + 1 \in 0..N /\ (n + 1) - 1 = n /\ n + 1 # 0 /\ n \in Nat
      BY <1>0
    <2>2. done[n + 1] = PlaceIn(order, done[n], s[n + 1])
      BY <1>1, <2>1
    <2> DEFINE t == done[n]
               x == s[n + 1]
               w == done[n + 1]
    <2>3. /\ x \in S /\ t \in X /\ w = PlaceIn(order, t, x)
          /\ Rearranged(t, s, n) /\ (Ordering(order, S) => Ordered(order, t))
      BY <1>0, <1>4, <2>1, <2>2
    <2>4. /\ w \in X
          /\ Ordering(order, S) => Ordered(order, w)
      <3> HIDE DEF t, x, w
      <3> QED BY <2>3, Placed, PlacedInOrder
    <2>5. Rearranged(w, s, n + 1)
      <3>1. PICK p \in 0..Len(t) : PlacedAt(order, t, x, p)
        <4> HIDE DEF t, x, w
        <4> QED BY <2>3, Placed
      <3>2. Len(t) = n /\ p + 1 \in 1..(n + 1)
        BY <2>3 DEF Rearranged
      <3>3. Insertion(w, t, p + 1, s[n + 1])
        BY <2>3, <3>1 DEF PlacedAt
      <3> HIDE DEF t, x, w
      <3> QED BY <2>1, <2>3, <3>2, <3>3, RearrangedNext
    <2> HIDE DEF X
    <2> QED BY <2>1, <2>4, <2>5
  <1>5. N \in Good
    <2>1. \A n \in 0..(N - 1) : n \in Good => n + 1 \in Good
      BY <1>4
    <2>2. N \in 0..N
      BY <1>0
    <2> HIDE DEF Good
    <2> QED BY <1>0, <1>3, <2>1, <2>2, UpTo
  <1> QED BY <1>2, <1>5 DEF N

-----------------------------------------------------------------------------
(* The rows of a leaderboard *)

(* Each user and mods is there once, and no play is left out for a worse   *)
(* one.                                                                    *)
OneEach(rows) == \A i \in 1..Len(rows), j \in 1..Len(rows) : SamePlay(rows[i], rows[j]) => i = j

Represents(rows, play) == \E j \in 1..Len(rows) : SamePlay(rows[j], play) /\ rows[j].pp >= play.pp

LEMMA KeepBestGood ==
    ASSUME NEW rows \in Seq(Ranking), OneEach(rows), NEW r \in Ranking
    PROVE  /\ KeepBest(rows, r) \in Seq(Ranking) /\ OneEach(KeepBest(rows, r))
           /\ Represents(KeepBest(rows, r), r)
           /\ \A a \in Ranking : Represents(rows, a) => Represents(KeepBest(rows, r), a)
  <1> DEFINE w == KeepBest(rows, r)
  <1>0. /\ Len(rows) \in Nat /\ DOMAIN rows = 1..Len(rows)
        /\ \A i \in 1..Len(rows) : rows[i] \in Ranking
        /\ \A a \in Ranking : a.pp \in Nat
    <2>1. \A a \in Ranking : a.pp \in Nat
      BY DEF Ranking
    <2> QED BY <2>1
  <1>1. CASE \E i \in DOMAIN rows : SamePlay(rows[i], r)
    <2>1. w = [i \in 1..Len(rows) |->
                 IF SamePlay(rows[i], r) /\ rows[i].pp < r.pp THEN r ELSE rows[i]]
      BY <1>0, <1>1 DEF KeepBest
    <2>2. \A i \in 1..Len(rows) :
             w[i] = IF SamePlay(rows[i], r) /\ rows[i].pp < r.pp THEN r ELSE rows[i]
      BY <2>1
    <2>3. w \in [1..Len(rows) -> Ranking]
      BY <1>0, <2>1
    <2>4. w \in Seq(Ranking) /\ Len(w) = Len(rows)
      BY <1>0, <2>3
    <2> HIDE DEF w
    <2>5. ASSUME NEW i \in 1..Len(rows)
          PROVE  /\ SamePlay(w[i], rows[i]) /\ SamePlay(rows[i], w[i])
                 /\ w[i].pp >= rows[i].pp
                 /\ SamePlay(rows[i], r) => SamePlay(w[i], r) /\ w[i].pp >= r.pp
      <3>1. rows[i].pp \in Nat /\ r.pp \in Nat
        BY <1>0
      <3>2. CASE SamePlay(rows[i], r) /\ rows[i].pp < r.pp
        <4>1. w[i] = r
          BY <2>2, <3>2
        <4> QED BY <3>1, <3>2, <4>1 DEF SamePlay
      <3>3. CASE ~ (SamePlay(rows[i], r) /\ rows[i].pp < r.pp)
        <4>1. w[i] = rows[i]
          BY <2>2, <3>3
        <4> QED BY <3>1, <3>3, <4>1 DEF SamePlay
      <3> QED BY <3>2, <3>3
    <2>6. OneEach(w)
      <3> SUFFICES ASSUME NEW i \in 1..Len(rows), NEW j \in 1..Len(rows), SamePlay(w[i], w[j])
                   PROVE  i = j
        BY <2>4 DEF OneEach
      <3>1. SamePlay(rows[i], rows[j])
        BY <2>5 DEF SamePlay
      <3> QED BY <3>1 DEF OneEach
    <2>7. Represents(w, r)
      <3>1. PICK i \in 1..Len(rows) : SamePlay(rows[i], r)
        BY <1>0, <1>1
      <3> QED BY <2>4, <2>5, <3>1 DEF Represents
    <2>8. ASSUME NEW a \in Ranking, Represents(rows, a)
          PROVE  Represents(w, a)
      <3>1. PICK j \in 1..Len(rows) : SamePlay(rows[j], a) /\ rows[j].pp >= a.pp
        BY <2>8 DEF Represents
      <3>2. w[j] \in Ranking /\ rows[j] \in Ranking
        BY <1>0, <2>3
      <3>3. w[j].pp \in Nat /\ rows[j].pp \in Nat /\ a.pp \in Nat
        BY <1>0, <3>2
      <3>4. w[j].pp >= a.pp
        BY <2>5, <3>1, <3>3
      <3>5. SamePlay(w[j], a)
        BY <2>5, <3>1 DEF SamePlay
      <3> QED BY <2>4, <3>4, <3>5 DEF Represents
    <2> QED BY <2>4, <2>6, <2>7, <2>8 DEF w
  <1>2. CASE ~ \E i \in DOMAIN rows : SamePlay(rows[i], r)
    <2>1. w = PlaceIn(UserOrder, rows, r)
      BY <1>2 DEF KeepBest
    <2>2. PICK p \in 0..Len(rows) : PlacedAt(UserOrder, rows, r, p)
      BY Placed
    <2> DEFINE k == p + 1
    <2>3. w \in Seq(Ranking) /\ Insertion(w, rows, k, r)
      BY <2>1, <2>2, Placed DEF PlacedAt
    <2> HIDE DEF w
    <2>4. /\ Len(w) = Len(rows) + 1 /\ k \in 1..Len(w)
          /\ \A i \in 1..Len(w) : w[i] = IF i < k THEN rows[i] ELSE IF i = k THEN r ELSE rows[i - 1]
      BY <1>0, <2>3 DEF Insertion
    <2>5. \A i \in 1..Len(rows) : ~ SamePlay(rows[i], r) /\ ~ SamePlay(r, rows[i])
      BY <1>0, <1>2 DEF SamePlay
    <2>6. ASSUME NEW i \in 1..Len(w)
          PROVE  /\ i < k => i \in 1..Len(rows) /\ w[i] = rows[i]
                 /\ i = k => w[i] = r
                 /\ i > k => i - 1 \in 1..Len(rows) /\ w[i] = rows[i - 1]
      BY <1>0, <2>4
    <2>7. \A i \in 1..Len(w) : i < k \/ i = k \/ i > k
      BY <1>0, <2>4
    <2> HIDE DEF k
    <2>8. ASSUME NEW i \in 1..Len(w), NEW j \in 1..Len(w), SamePlay(w[i], w[j])
          PROVE  i = j
      <3>0. \A a \in 1..Len(rows), b \in 1..Len(rows) : SamePlay(rows[a], rows[b]) => a = b
        BY DEF OneEach
      <3>1. CASE i = k \/ j = k
        BY <2>5, <2>6, <2>7, <2>8, <3>1
      <3>2. CASE i < k /\ j < k
        BY <2>6, <2>8, <3>0, <3>2
      <3>3. CASE i > k /\ j > k
        <4>1. i - 1 = j - 1
          BY <2>6, <2>8, <3>0, <3>3
        <4> QED BY <4>1
      <3>4. CASE i < k /\ j > k
        <4>1. i = j - 1
          BY <2>6, <2>8, <3>0, <3>4
        <4> QED BY <2>4, <3>4, <4>1
      <3>5. CASE i > k /\ j < k
        <4>1. j = i - 1
          BY <2>6, <2>8, <3>0, <3>5
        <4> QED BY <2>4, <3>5, <4>1
      <3> QED BY <2>7, <3>1, <3>2, <3>3, <3>4, <3>5
    <2>9. OneEach(w)
      BY <2>8 DEF OneEach
    <2>10. Represents(w, r)
      <3>1. w[k] = r /\ r.pp >= r.pp
        BY <1>0, <2>4, <2>6
      <3> QED BY <2>4, <3>1 DEF Represents, SamePlay
    <2>11. ASSUME NEW a \in Ranking, Represents(rows, a)
           PROVE  Represents(w, a)
      <3>1. PICK j \in 1..Len(rows) : SamePlay(rows[j], a) /\ rows[j].pp >= a.pp
        BY <2>11 DEF Represents
      <3>2. \E l \in 1..Len(w) : w[l] = rows[j]
        <4>1. CASE j < k
          <5>1. j \in 1..Len(w)
            BY <1>0, <2>4
          <5> QED BY <2>6, <4>1, <5>1
        <4>2. CASE j >= k
          <5> DEFINE l == j + 1
          <5>1. l \in 1..Len(w) /\ l > k /\ l - 1 = j
            BY <1>0, <2>4, <4>2
          <5> HIDE DEF l
          <5> QED BY <2>6, <5>1
        <4> QED BY <1>0, <2>4, <4>1, <4>2
      <3> QED BY <3>1, <3>2 DEF Represents
    <2> QED BY <2>3, <2>9, <2>10, <2>11 DEF w
  <1> QED BY <1>1, <1>2

LEMMA RankedGood ==
    ASSUME NEW s \in Seq(Ranking)
    PROVE  /\ Ranked(s) \in Seq(Ranking) /\ OneEach(Ranked(s))
           /\ \A i \in 1..Len(s) : Represents(Ranked(s), s[i])
  <1> DEFINE N == Len(s)
             X == {t \in Seq(Ranking) : OneEach(t)}
             op == [t \in X |-> [x \in Ranking |-> KeepBest(t, x)]]
             rows[n \in 0..N] == IF n = 0 THEN <<>> ELSE KeepBest(rows[n - 1], s[n])
             Good == {n \in 0..N : rows[n] \in X /\ \A i \in 1..n : Represents(rows[n], s[i])}
  <1>0. N \in Nat /\ \A n \in 1..N : s[n] \in Ranking
    OBVIOUS
  <1>1. /\ <<>> \in X
        /\ \A t \in X, x \in Ranking :
              /\ KeepBest(t, x) \in X
              /\ Represents(KeepBest(t, x), x)
              /\ \A a \in Ranking : Represents(t, a) => Represents(KeepBest(t, x), a)
    <2>1. <<>> \in X
      BY DEF OneEach
    <2> QED BY <2>1, KeepBestGood
  <1>2. rows = [n \in 0..N |-> IF n = 0 THEN <<>> ELSE KeepBest(rows[n - 1], s[n])]
    <2>1. op \in [X -> [Ranking -> X]]
      <3> HIDE DEF X
      <3> QED BY <1>1
    <2>2. PICK f : IsFold(f, X, op, <<>>, s)
      <3> HIDE DEF op, X
      <3> QED BY <1>1, <2>1, FoldExists
    <2>3. \A n \in 1..N : f[n] = KeepBest(f[n - 1], s[n])
      <3> TAKE n \in 1..N
      <3>1. f[n - 1] \in X /\ s[n] \in Ranking
        <4>1. n - 1 \in 0..N /\ s[n] \in Ranking
          BY <1>0
        <4>2. f \in [0..N -> X]
          BY <2>2 DEF IsFold
        <4> HIDE DEF X, N, op
        <4> QED BY <4>1, <4>2
      <3>2. f[n] = op[f[n - 1]][s[n]]
        BY <2>2 DEF IsFold
      <3> HIDE DEF X
      <3> QED BY <3>1, <3>2
    <2>4. f = [n \in 0..N |-> IF n = 0 THEN <<>> ELSE KeepBest(f[n - 1], s[n])]
      <3> HIDE DEF op, X, N
      <3> DEFINE h == [n \in 0..N |-> IF n = 0 THEN <<>> ELSE KeepBest(f[n - 1], s[n])]
      <3>1. \A n \in 0..N : h[n] = f[n]
        BY <1>0, <2>2, <2>3 DEF IsFold, N
      <3>2. f \in [0..N -> X]
        BY <2>2 DEF IsFold, N
      <3> QED BY <3>1, <3>2
    <2>5. \E g : g = [n \in 0..N |-> IF n = 0 THEN <<>> ELSE KeepBest(g[n - 1], s[n])]
      <3> HIDE DEF op, X, N
      <3> QED BY <2>4
    <2> QED BY <2>5, Zenon
  <1>3. Ranked(s) = rows[N]
    BY DEF Ranked
  <1> HIDE DEF rows, N, X
  <1>4. 0 \in Good
    <2>1. rows[0] = <<>> /\ 0 \in 0..N
      BY <1>0, <1>2
    <2> QED BY <1>1, <2>1
  <1>5. ASSUME NEW n \in 0..(N - 1), n \in Good
        PROVE  n + 1 \in Good
    <2>1. n + 1 \in 1..N /\ n + 1 \in 0..N /\ (n + 1) - 1 = n /\ n + 1 # 0
      BY <1>0
    <2>2. rows[n + 1] = KeepBest(rows[n], s[n + 1])
      BY <1>2, <2>1
    <2> DEFINE t == rows[n]
               x == s[n + 1]
               w == rows[n + 1]
    <2>3. x \in Ranking /\ t \in X /\ w = KeepBest(t, x) /\ \A i \in 1..n : Represents(t, s[i])
      BY <1>0, <1>5, <2>1, <2>2
    <2>4. w \in X /\ Represents(w, x) /\ \A a \in Ranking : Represents(t, a) => Represents(w, a)
      <3> HIDE DEF t, x, w
      <3> QED BY <1>1, <2>3
    <2>5. \A i \in 1..(n + 1) : Represents(w, s[i])
      <3> TAKE i \in 1..(n + 1)
      <3>1. CASE i = n + 1
        BY <2>4, <3>1
      <3>2. CASE i # n + 1
        <4>1. i \in 1..n /\ i \in 1..N
          BY <1>0, <3>2
        <4>2. Represents(t, s[i]) /\ s[i] \in Ranking
          BY <1>0, <2>3, <4>1
        <4> HIDE DEF t, w, x
        <4> QED BY <2>4, <4>2
      <3> QED BY <3>1, <3>2
    <2> QED BY <2>1, <2>4, <2>5
  <1>6. N \in Good
    <2>1. \A n \in 0..(N - 1) : n \in Good => n + 1 \in Good
      BY <1>5
    <2>2. N \in 0..N
      BY <1>0
    <2> HIDE DEF Good
    <2> QED BY <1>0, <1>4, <2>1, <2>2, UpTo
  <1> QED BY <1>3, <1>6 DEF N, X

(* Rows in another order are the same rows.                                *)
LEMMA RearrangedSame ==
    ASSUME NEW t, NEW s, NEW n \in Nat, Len(s) = n, Rearranged(t, s, n)
    PROVE  /\ \A i \in 1..n : \E j \in 1..Len(t) : t[j] = s[i]
           /\ \A i \in 1..Len(t) : \E j \in 1..n : t[i] = s[j]
           /\ OneEach(s) => OneEach(t)
           /\ \A a : Represents(s, a) => Represents(t, a)
  <1>1. PICK f : Arranges(f, t, s, n)
    BY DEF Rearranged
  <1>2. /\ Len(t) = n
        /\ \A i \in 1..n : f[i] \in 1..n /\ t[i] = s[f[i]]
        /\ \A i \in 1..n, j \in 1..n : f[i] = f[j] => i = j
        /\ \A i \in 1..n : \E j \in 1..n : f[j] = i
    BY <1>1 DEF Arranges, Rearranged
  <1>3. ASSUME NEW i \in 1..n
        PROVE  \E j \in 1..Len(t) : t[j] = s[i]
    <2>1. PICK j \in 1..n : f[j] = i
      BY <1>2
    <2>2. t[j] = s[i] /\ j \in 1..Len(t)
      BY <1>2, <2>1
    <2> QED BY <2>2
  <1>4. \A i \in 1..Len(t) : \E j \in 1..n : t[i] = s[j]
    BY <1>2
  <1>5. ASSUME OneEach(s), NEW i \in 1..n, NEW j \in 1..n, SamePlay(t[i], t[j])
        PROVE  i = j
    <2>1. SamePlay(s[f[i]], s[f[j]]) /\ f[i] \in 1..n /\ f[j] \in 1..n
      BY <1>2, <1>5
    <2>2. f[i] = f[j]
      BY <1>5, <2>1 DEF OneEach
    <2> QED BY <1>2, <2>2
  <1>7. OneEach(s) => OneEach(t)
    BY <1>2, <1>5 DEF OneEach
  <1>6. ASSUME NEW a, Represents(s, a)
        PROVE  Represents(t, a)
    <2>1. PICK i \in 1..n : SamePlay(s[i], a) /\ s[i].pp >= a.pp
      BY <1>6 DEF Represents
    <2>2. PICK j \in 1..Len(t) : t[j] = s[i]
      BY <1>3
    <2> QED BY <2>1, <2>2 DEF Represents
  <1> QED BY <1>3, <1>4, <1>6, <1>7

LEMMA RepresentsIs ==
    ASSUME NEW rows \in Seq(Ranking), NEW arrived \in Seq(Ranking), NEW all
    PROVE  RepresentsAll(rows, arrived, all) <=>
              /\ \A i \in 1..Len(arrived) : Represents(rows, arrived[i])
              /\ ~ all => OneEach(rows)
  <1>1. DOMAIN rows = 1..Len(rows) /\ DOMAIN arrived = 1..Len(arrived)
    OBVIOUS
  <1> QED BY <1>1 DEF RepresentsAll, Represents, OneEach

LEMMA OrderOfOrders == \A order \in OrderBy : Ordering(OrderOf(order), Ranking)
  <1> SUFFICES ASSUME NEW order \in OrderBy
               PROVE  Ordering(OrderOf(order), Ranking)
    OBVIOUS
  <1>1. \A a \in Ranking, b \in Ranking : <<a, b>> \in OrderOf(order) <=> Before(order, a, b)
    BY DEF OrderOf
  <1>2. \A a \in Ranking : a.pp \in Nat /\ a.score \in Nat
    BY DEF Ranking
  <1>3. ASSUME NEW a \in Ranking, NEW b \in Ranking, Before(order, a, b)
        PROVE  ~ Before(order, b, a)
    BY <1>2, <1>3 DEF Before
  <1>4. ASSUME NEW a \in Ranking, NEW b \in Ranking, NEW c \in Ranking,
               ~ Before(order, a, b), ~ Before(order, b, c)
        PROVE  ~ Before(order, a, c)
    <2>1. a.official \in BOOLEAN /\ b.official \in BOOLEAN /\ c.official \in BOOLEAN
      BY DEF Ranking
    <2> QED BY <1>2, <1>4, <2>1 DEF Before
  <1> QED BY <1>1, <1>3, <1>4 DEF Ordering

(* A leaderboard represents the plays and follows its order.               *)
LEMMA LeaderboardGood ==
    ASSUME NEW arrived \in Seq(Ranking), NEW all \in BOOLEAN, NEW order \in OrderBy
    PROVE  LET rows == Leaderboard(arrived, all, order)
           IN  /\ rows \in Seq(Ranking)
               /\ RepresentsAll(rows, arrived, all) /\ FollowsOrder(rows, order)
  <1> DEFINE s == IF all THEN arrived ELSE Ranked(arrived)
             rows == Sorted(OrderOf(order), s)
  <1>0. Leaderboard(arrived, all, order) = rows
    BY DEF Leaderboard
  <1>1. /\ s \in Seq(Ranking) /\ Len(s) \in Nat
        /\ \A i \in 1..Len(arrived) : Represents(s, arrived[i])
        /\ ~ all => OneEach(s)
    <2>1. CASE ~ all
      BY <2>1, RankedGood
    <2>2. CASE all
      <3>1. \A i \in 1..Len(arrived) : SamePlay(arrived[i], arrived[i]) /\ arrived[i].pp >= arrived[i].pp
        <4>1. \A a \in Ranking : a.pp \in Nat
          BY DEF Ranking
        <4>2. \A i \in 1..Len(arrived) : arrived[i] \in Ranking
          OBVIOUS
        <4> QED BY <4>1, <4>2 DEF SamePlay
      <3> QED BY <2>2, <3>1 DEF Represents
    <2> QED BY <2>1, <2>2
  <1> HIDE DEF s
  <1>2. /\ rows \in Seq(Ranking) /\ Rearranged(rows, s, Len(s)) /\ Ordered(OrderOf(order), rows)
    BY <1>1, SortedGood, OrderOfOrders
  <1> HIDE DEF rows
  <1>3. RepresentsAll(rows, arrived, all)
    BY <1>1, <1>2, RearrangedSame, RepresentsIs
  <1>4. FollowsOrder(rows, order)
    <2>1. DOMAIN rows = 1..Len(rows) /\ \A i \in 1..Len(rows) : rows[i] \in Ranking
      BY <1>2
    <2> SUFFICES ASSUME NEW i \in 1..Len(rows), NEW j \in 1..Len(rows), i < j
                 PROVE  IF order = "score" THEN rows[i].score >= rows[j].score
                        ELSE /\ rows[j].official => rows[i].official
                             /\ rows[i].official = rows[j].official => rows[i].pp >= rows[j].pp
      BY <2>1 DEF FollowsOrder
    <2> DEFINE a == rows[i]
               b == rows[j]
    <2>2. a \in Ranking /\ b \in Ranking /\ <<b, a>> \notin OrderOf(order)
      BY <1>2, <2>1 DEF Ordered
    <2>3. IF order = "score" THEN a.score >= b.score
          ELSE /\ b.official => a.official
               /\ a.official = b.official => a.pp >= b.pp
      <3> HIDE DEF a, b
      <3>1. ~ Before(order, b, a)
        BY <2>2 DEF OrderOf
      <3>2. a.pp \in Nat /\ b.pp \in Nat /\ a.score \in Nat /\ b.score \in Nat
            /\ a.official \in BOOLEAN /\ b.official \in BOOLEAN
        BY <2>2 DEF Ranking
      <3> QED BY <3>1, <3>2 DEF Before
    <2> QED BY <2>3
  <1> QED BY <1>0, <1>2, <1>3, <1>4

LEMMA ReversedGood ==
    ASSUME NEW S, NEW s \in Seq(S)
    PROVE  /\ Reverse(s) \in Seq(S) /\ Rearranged(Reverse(s), s, Len(s))
           /\ \A i \in 1..Len(s) : Reverse(s)[i] = s[(Len(s) - i) + 1]
           /\ Reverse(Reverse(s)) = s
  <1> DEFINE n == Len(s)
             t == Reverse(s)
             u == Reverse(t)
             f == [i \in 1..n |-> (n - i) + 1]
  <1>1. n \in Nat /\ \A i \in 1..n : s[i] \in S /\ (n - i) + 1 \in 1..n /\ (n - ((n - i) + 1)) + 1 = i
    OBVIOUS
  <1>2. t = [i \in 1..n |-> s[(n - i) + 1]]
    BY DEF Reverse
  <1>3. t \in Seq(S) /\ Len(t) = n /\ \A i \in 1..n : t[i] = s[(n - i) + 1]
    <2> HIDE DEF n, t
    <2>1. t \in [1..n -> S]
      BY <1>1, <1>2
    <2> QED BY <1>1, <1>2, <2>1
  <1>4. Arranges(f, t, s, n)
    <2> HIDE DEF n, t
    <2>1. \A i \in 1..n : f[i] = (n - i) + 1
      OBVIOUS
    <2>2. f \in [1..n -> 1..n]
      BY <1>1
    <2> HIDE DEF f
    <2>3. \A i \in 1..n : t[i] = s[f[i]]
      BY <1>3, <2>1
    <2>4. \A i \in 1..n, j \in 1..n : f[i] = f[j] => i = j
      BY <1>1, <2>1
    <2>5. ASSUME NEW i \in 1..n
          PROVE  \E j \in 1..n : f[j] = i
      BY <1>1, <2>1
    <2> QED BY <2>2, <2>3, <2>4, <2>5 DEF Arranges
  <1>5. u = s
    <2>1. u = [i \in 1..Len(t) |-> t[(Len(t) - i) + 1]]
      BY DEF Reverse
    <2> HIDE DEF t, u, n
    <2>2. \A i \in 1..n : u[i] = s[i]
      BY <1>1, <1>3, <2>1
    <2>3. s = [i \in 1..n |-> s[i]] /\ u = [i \in 1..n |-> u[i]]
      BY <1>3, <2>1 DEF n
    <2> QED BY <2>2, <2>3
  <1> QED BY <1>3, <1>4, <1>5 DEF Rearranged

LEMMA PagesGood ==
    ASSUME NEW S, NEW rows \in Seq(S)
    PROVE  PagesCover(rows, RowsPerPage)
  <1> SUFFICES ASSUME NEW i \in 1..Len(rows)
               PROVE  \E j \in DOMAIN TablePage(rows, (i - 1) \div RowsPerPage, RowsPerPage) :
                         TablePage(rows, (i - 1) \div RowsPerPage, RowsPerPage)[j]
                           = [number |-> i, row |-> rows[i]]
    BY DEF PagesCover
  <1> DEFINE N == Len(rows)
             p == (i - 1) \div RowsPerPage
             start == p * RowsPerPage
             end == SmallerIndex(start + RowsPerPage, N)
             j == i - start
             page == [k \in 1..(end - start) |-> [number |-> start + k, row |-> rows[start + k]]]
  <1>1. N \in Nat /\ i \in 1..N
    OBVIOUS
  <1> HIDE DEF N
  <1>2. p \in Nat /\ p * 5 <= i - 1 /\ i - 1 < p * 5 + 5
    BY <1>1 DEF RowsPerPage
  <1> HIDE DEF p
  <1>3. start = p * 5 /\ start \in Nat
    BY <1>2 DEF RowsPerPage
  <1>4. end = IF start + 5 < N THEN start + 5 ELSE N
    BY DEF SmallerIndex, RowsPerPage
  <1> HIDE DEF start, end
  <1>5. start < i /\ i <= start + 5
    BY <1>1, <1>2, <1>3
  <1>6. i <= end /\ end \in Nat
    BY <1>1, <1>3, <1>4, <1>5
  <1>7. ~ (start >= end) /\ j \in 1..(end - start) /\ start + j = i
    BY <1>1, <1>3, <1>5, <1>6
  <1>8. TablePage(rows, p, RowsPerPage) = page
    BY <1>7 DEF TablePage, start, end, N
  <1>9. j \in DOMAIN page /\ page[j] = [number |-> i, row |-> rows[i]]
    <2> HIDE DEF j
    <2> QED BY <1>7
  <1> QED BY <1>8, <1>9 DEF p

-----------------------------------------------------------------------------
(* The ranking of the members *)

LEMMA ListedGood ==
    ASSUME NEW T, IsFiniteSet(T), NEW s \in SetToSeqs(T)
    PROVE  /\ s \in Seq(T)
           /\ \A i \in 1..Len(s), j \in 1..Len(s) : s[i] = s[j] => i = j
           /\ \A x \in T : \E i \in 1..Len(s) : s[i] = x
  <1> DEFINE n == Cardinality(T)
  <1>1. n \in Nat
    BY FS_CardinalityType
  <1>2. s \in [1..n -> T] /\ \A i \in 1..n, j \in 1..n : i # j => s[i] # s[j]
    BY DEF SetToSeqs
  <1>3. Cardinality(1..n) = n
    <2>1. 1 \in Int /\ n \in Int
      BY <1>1
    <2> HIDE DEF n
    <2>2. Cardinality(1..n) = IF 1 > n THEN 0 ELSE n - 1 + 1
      BY <2>1, FS_Interval
    <2> QED BY <1>1, <2>2
  <1>4. s \in Injection(1..n, T)
    BY <1>2 DEF Injection, IsInjective
  <1>5. s \in Surjection(1..n, T)
    BY <1>3, <1>4, FS_Injection
  <1>6. \A x \in T : \E i \in 1..n : s[i] = x
    BY <1>5 DEF Surjection
  <1> HIDE DEF n
  <1>7. s \in Seq(T) /\ Len(s) = n
    BY <1>1, <1>2
  <1> QED BY <1>2, <1>6, <1>7

LEMMA TotalGood ==
    ASSUME NEW u \in Members
    PROVE  TotalPP(u) \in Nat
  <1> DEFINE T == DOMAIN StatsOf[u]
             s == SetToSeq(T)
             N == Len(s)
             op == [k \in Nat |-> [mode \in T |-> k + StatsOf[u][mode].pp]]
             sum[n \in 0..N] == IF n = 0 THEN 0 ELSE sum[n - 1] + StatsOf[u][s[n]].pp
  <1>1. IsFiniteSet(T) /\ \A mode \in T : StatsOf[u][mode].pp \in Nat
    <2>1. IsFiniteSet(T) /\ \A mode \in T : StatsOf[u][mode] \in [pp : Nat, length : Nat, age : Nat]
      BY LeaderboardAssumption
    <2>2. \A mode \in T : StatsOf[u][mode].pp \in Nat
      <3> TAKE mode \in T
      <3> QED BY <2>1
    <2> QED BY <2>1, <2>2
  <1> HIDE DEF T
  <1>2. s \in Seq(T)
    <2>1. Cardinality(T) \in Nat /\ ExistsBijection(1..Cardinality(T), T)
      BY <1>1, FS_CardinalityType
    <2>2. PICK f : f \in Bijection(1..Cardinality(T), T)
      BY <2>1 DEF ExistsBijection
    <2>3. f \in [1..Cardinality(T) -> T] /\ IsInjective(f)
      BY <2>2 DEF Bijection, Injection
    <2>4. s \in [1..Cardinality(T) -> T]
      BY <2>3 DEF SetToSeq
    <2> QED BY <2>1, <2>4
  <1>3. TotalPP(u) = sum[N]
    BY DEF TotalPP, T
  <1> HIDE DEF s
  <1>0. N \in Nat /\ \A n \in 1..N : s[n] \in T
    BY <1>2
  <1>4. op \in [Nat -> [T -> Nat]]
    BY <1>1
  <1>5. PICK f : IsFold(f, Nat, op, 0, s)
    <2> HIDE DEF op
    <2> QED BY <1>2, <1>4, FoldExists
  <1>6. f \in [0..N -> Nat] /\ f[0] = 0
    BY <1>5 DEF IsFold
  <1>7. \A n \in 1..N : f[n] = f[n - 1] + StatsOf[u][s[n]].pp
    <2> TAKE n \in 1..N
    <2>1. n - 1 \in 0..N /\ s[n] \in T
      BY <1>0
    <2> HIDE DEF N
    <2>2. f[n - 1] \in Nat
      BY <1>6, <2>1
    <2>3. f[n] = op[f[n - 1]][s[n]]
      BY <1>5 DEF IsFold, N
    <2> QED BY <2>1, <2>2, <2>3
  <1> HIDE DEF N, op
  <1>8. f = [n \in 0..N |-> IF n = 0 THEN 0 ELSE f[n - 1] + StatsOf[u][s[n]].pp]
    <2> DEFINE h == [n \in 0..N |-> IF n = 0 THEN 0 ELSE f[n - 1] + StatsOf[u][s[n]].pp]
    <2>1. \A n \in 0..N : h[n] = f[n]
      BY <1>0, <1>6, <1>7
    <2> QED BY <1>6, <2>1
  <1>9. \E g : g = [n \in 0..N |-> IF n = 0 THEN 0 ELSE g[n - 1] + StatsOf[u][s[n]].pp]
    BY <1>8
  <1>10. sum = [n \in 0..N |-> IF n = 0 THEN 0 ELSE sum[n - 1] + StatsOf[u][s[n]].pp]
    BY <1>9, Zenon
  <1> HIDE DEF sum
  <1> DEFINE Good == {n \in 0..N : sum[n] \in Nat}
  <1>11. 0 \in Good
    BY <1>0, <1>10
  <1>12. ASSUME NEW n \in 0..(N - 1), n \in Good
         PROVE  n + 1 \in Good
    <2>1. n + 1 \in 1..N /\ n + 1 \in 0..N /\ (n + 1) - 1 = n /\ n + 1 # 0
      BY <1>0
    <2>2. sum[n + 1] = sum[n] + StatsOf[u][s[n + 1]].pp
      BY <1>10, <2>1
    <2>3. StatsOf[u][s[n + 1]].pp \in Nat
      BY <1>0, <1>1, <2>1
    <2>4. sum[n + 1] \in Nat
      BY <1>12, <2>2, <2>3
    <2> QED BY <2>1, <2>4
  <1>13. N \in Good
    <2>1. \A n \in 0..(N - 1) : n \in Good => n + 1 \in Good
      BY <1>12
    <2>2. N \in 0..N
      BY <1>0
    <2> HIDE DEF Good
    <2> QED BY <1>0, <1>11, <2>1, <2>2, UpTo
  <1> QED BY <1>3, <1>13

LEMMA FigureGood ==
    ASSUME NEW query \in RankQuery, NEW mode, NEW u \in Members
    PROVE  Figure(query, mode, u) \in Int
  <1>1. CASE query = "total"
    BY <1>1, TotalGood DEF Figure
  <1>2. CASE query # "total" /\ ~ HasMode(u, mode)
    BY <1>2 DEF Figure
  <1>3. CASE query # "total" /\ HasMode(u, mode)
    <2>1. StatsOf[u][mode] \in [pp : Nat, length : Nat, age : Nat]
      BY <1>3, LeaderboardAssumption DEF HasMode
    <2>2. Figure(query, mode, u) = StatsOf[u][mode][query] /\ query \in {"pp", "length", "age"}
      BY <1>3 DEF Figure, RankQuery
    <2> QED BY <2>1, <2>2
  <1> QED BY <1>1, <1>2, <1>3

LEMMA RankOrders ==
    ASSUME NEW query \in RankQuery, NEW mode
    PROVE  Ordering(RankOrder(query, mode), Members)
  <1>1. \A u \in Members, v \in Members :
           <<u, v>> \in RankOrder(query, mode) <=> RankBefore(query, mode, u, v)
    BY DEF RankOrder
  <1>2. ASSUME NEW u \in Members, NEW v \in Members, RankBefore(query, mode, u, v)
        PROVE  ~ RankBefore(query, mode, v, u)
    BY <1>2, FigureGood DEF RankBefore
  <1>3. ASSUME NEW u \in Members, NEW v \in Members, NEW w \in Members,
               ~ RankBefore(query, mode, u, v), ~ RankBefore(query, mode, v, w)
        PROVE  ~ RankBefore(query, mode, u, w)
    <2>1. /\ Figure(query, mode, u) \in Int /\ Figure(query, mode, v) \in Int
          /\ Figure(query, mode, w) \in Int
      BY FigureGood
    <2> QED BY <1>3, <2>1 DEF RankBefore
  <1> QED BY <1>1, <1>2, <1>3 DEF Ordering

RanksMade(saved, query, mode, reversed, listed) ==
    [ranks |-> ServerRanks(listed, query, mode, reversed), of |-> saved, query |-> query,
     mode |-> mode, reversed |-> reversed]

(* A ranking lists those who pass the limit once each, by their figures.   *)
LEMMA RanksGood ==
    ASSUME NEW saved \in SUBSET Members, NEW query \in RankQuery, NEW mode, NEW reversed \in BOOLEAN,
           NEW listed \in SetToSeqs({u \in saved : PassPPLimit(query, mode, u)})
    PROVE  RanksFollow(RanksMade(saved, query, mode, reversed, listed))
  <1> DEFINE T == {u \in saved : PassPPLimit(query, mode, u)}
             sorted == Sorted(RankOrder(query, mode), listed)
             ranks == ServerRanks(listed, query, mode, reversed)
             b == RanksMade(saved, query, mode, reversed, listed)
             n == Len(listed)
  <1>1. IsFiniteSet(T)
    <2>1. IsFiniteSet(Members) /\ T \in SUBSET Members
      BY LeaderboardAssumption
    <2> HIDE DEF T
    <2> QED BY <2>1, FS_Subset
  <1>2. /\ listed \in Seq(T)
        /\ \A i \in 1..n, j \in 1..n : listed[i] = listed[j] => i = j
        /\ \A x \in T : \E i \in 1..n : listed[i] = x
    <2>1. listed \in SetToSeqs(T)
      OBVIOUS
    <2> HIDE DEF T
    <2> QED BY <1>1, <2>1, ListedGood
  <1>3. listed \in Seq(Members) /\ n \in Nat /\ \A i \in 1..n : listed[i] \in T
    <2>1. T \subseteq Members
      OBVIOUS
    <2> HIDE DEF T
    <2> QED BY <1>2, <2>1
  <1>4. /\ sorted \in Seq(Members) /\ Rearranged(sorted, listed, n)
        /\ Ordered(RankOrder(query, mode), sorted)
    BY <1>3, SortedGood, RankOrders
  <1> HIDE DEF T
  <1>5. /\ Len(sorted) = n /\ (\A i \in 1..n : sorted[i] \in T /\ sorted[i] \in Members)
        /\ \A i \in 1..n, j \in 1..n : sorted[i] = sorted[j] => i = j
        /\ \A x \in T : \E i \in 1..n : sorted[i] = x
    <2> HIDE DEF sorted, n
    <2>1. Len(sorted) = n
      BY <1>4 DEF Rearranged
    <2>2. PICK f : Arranges(f, sorted, listed, n)
      BY <1>4 DEF Rearranged
    <2>3. /\ \A i \in 1..n : f[i] \in 1..n /\ sorted[i] = listed[f[i]]
          /\ \A i \in 1..n, j \in 1..n : f[i] = f[j] => i = j
          /\ \A i \in 1..n : \E j \in 1..n : f[j] = i
      BY <2>2 DEF Arranges
    <2>4. ASSUME NEW i \in 1..n
          PROVE  sorted[i] \in T /\ sorted[i] \in Members
      <3>1. sorted[i] \in Members
        BY <1>4, <2>1
      <3>2. f[i] \in 1..n /\ sorted[i] = listed[f[i]]
        BY <2>3
      <3> QED BY <1>3, <3>1, <3>2
    <2>5. ASSUME NEW i \in 1..n, NEW j \in 1..n, sorted[i] = sorted[j]
          PROVE  i = j
      <3>1. listed[f[i]] = listed[f[j]] /\ f[i] \in 1..n /\ f[j] \in 1..n
        BY <2>3, <2>5
      <3>2. f[i] = f[j]
        BY <1>2, <3>1
      <3> QED BY <2>3, <3>2
    <2>6. ASSUME NEW x \in T
          PROVE  \E i \in 1..n : sorted[i] = x
      <3>1. PICK i \in 1..n : listed[i] = x
        BY <1>2
      <3>2. PICK j \in 1..n : f[j] = i
        BY <2>3
      <3> QED BY <2>3, <3>1, <3>2
    <2> QED BY <2>1, <2>4, <2>5, <2>6
  <1>6. \A i \in 1..n, j \in 1..n : i < j => ~ RankBefore(query, mode, sorted[j], sorted[i])
    BY <1>4, <1>5 DEF Ordered, RankOrder
  <1>7. ranks = IF reversed THEN Reverse(sorted) ELSE sorted
    BY DEF ServerRanks
  <1>8. /\ b.ranks = ranks /\ b.of = saved /\ b.query = query /\ b.mode = mode /\ b.reversed = reversed
    BY DEF RanksMade
  <1>9. /\ reversed => Reverse(sorted) \in Seq(Members) /\ Len(Reverse(sorted)) = n
        /\ reversed => \A i \in 1..n : Reverse(sorted)[i] = sorted[(n - i) + 1]
    <2> HIDE DEF sorted, n
    <2> QED BY <1>4, <1>5, ReversedGood DEF Rearranged
  <1> HIDE DEF ranks, sorted, b, n
  <1> DEFINE at(i) == IF reversed THEN (n - i) + 1 ELSE i
  <1>10. /\ DOMAIN ranks = 1..n
         /\ \A i \in 1..n : at(i) \in 1..n /\ at(at(i)) = i /\ ranks[i] = sorted[at(i)]
    <2>1. \A i \in 1..n : (n - i) + 1 \in 1..n /\ (n - ((n - i) + 1)) + 1 = i
      BY <1>3
    <2>2. CASE reversed
      <3>1. DOMAIN ranks = 1..n
        BY <1>7, <1>9, <2>2
      <3> QED BY <1>7, <1>9, <2>1, <2>2, <3>1
    <2>3. CASE ~ reversed
      <3>1. DOMAIN ranks = 1..n
        BY <1>4, <1>5, <1>7, <2>3
      <3> QED BY <1>7, <2>3, <3>1
    <2> QED BY <2>2, <2>3
  <1>11. {ranks[i] : i \in DOMAIN ranks} = T
    <2>1. ASSUME NEW x \in T
          PROVE  \E i \in 1..n : ranks[i] = x
      <3>1. PICK i \in 1..n : sorted[i] = x
        BY <1>5
      <3>2. at(i) \in 1..n /\ ranks[at(i)] = sorted[i]
        <4>1. at(i) \in 1..n /\ at(at(i)) = i
          BY <1>10
        <4>2. ranks[at(i)] = sorted[at(at(i))]
          BY <1>10, <4>1
        <4> QED BY <4>1, <4>2
      <3> QED BY <3>1, <3>2
    <2>2. \A i \in 1..n : ranks[i] \in T
      BY <1>5, <1>10
    <2> HIDE DEF at
    <2> QED BY <1>10, <2>1, <2>2
  <1>12. ASSUME NEW i \in 1..n, NEW j \in 1..n, ranks[i] = ranks[j]
         PROVE  i = j
    <2>1. at(i) = at(j)
      <3>1. sorted[at(i)] = sorted[at(j)] /\ at(i) \in 1..n /\ at(j) \in 1..n
        BY <1>10, <1>12
      <3> HIDE DEF at
      <3> QED BY <1>5, <3>1
    <2>2. at(at(i)) = i /\ at(at(j)) = j
      BY <1>10
    <2> HIDE DEF at
    <2> QED BY <2>1, <2>2
  <1>13. ASSUME NEW i \in 1..n, NEW j \in 1..n, i < j
         PROVE  ~ RankBefore(query, mode, ranks[IF reversed THEN i ELSE j], ranks[IF reversed THEN j ELSE i])
    <2>1. CASE reversed
      <3>1. at(j) \in 1..n /\ at(i) \in 1..n /\ at(j) < at(i)
        BY <1>3, <1>10, <1>13, <2>1
      <3>2. ranks[i] = sorted[at(i)] /\ ranks[j] = sorted[at(j)]
        BY <1>10
      <3> HIDE DEF at
      <3> QED BY <1>6, <2>1, <3>1, <3>2
    <2>2. CASE ~ reversed
      <3>1. ranks[i] = sorted[i] /\ ranks[j] = sorted[j]
        BY <1>10, <2>2
      <3> QED BY <1>6, <1>13, <2>2, <3>1
    <2> QED BY <2>1, <2>2
  <1>14. ASSUME NEW i \in 1..n, NEW j \in 1..n, i < j
         PROVE  LET u == ranks[IF reversed THEN j ELSE i]
                    v == ranks[IF reversed THEN i ELSE j]
                IN  IF query = "age" THEN Figure(query, mode, u) <= Figure(query, mode, v)
                    ELSE Figure(query, mode, u) >= Figure(query, mode, v)
    <2> DEFINE u == ranks[IF reversed THEN j ELSE i]
               v == ranks[IF reversed THEN i ELSE j]
    <2>1. u \in Members /\ v \in Members
      BY <1>5, <1>10
    <2>2. ~ RankBefore(query, mode, v, u)
      BY <1>13, <1>14
    <2> HIDE DEF u, v
    <2>3. Figure(query, mode, u) \in Int /\ Figure(query, mode, v) \in Int
      BY <2>1, FigureGood
    <2>4. IF query = "age" THEN Figure(query, mode, u) <= Figure(query, mode, v)
          ELSE Figure(query, mode, u) >= Figure(query, mode, v)
      BY <2>2, <2>3 DEF RankBefore
    <2> QED BY <2>4 DEF u, v
  <1> HIDE DEF at
  <1>15. RanksFollow(b)
    BY <1>8, <1>10, <1>11, <1>12, <1>14 DEF RanksFollow, T
  <1> QED BY <1>15 DEF b

(* A leaderboard as MakesBoard makes it.                                   *)
BoardMade(arrived, order, all, reversed) ==
    [rows |-> IF reversed THEN Reverse(Leaderboard(arrived, all, order))
              ELSE Leaderboard(arrived, all, order),
     of |-> arrived, order |-> order, all |-> all, reversed |-> reversed]

(* It represents every play that came, follows its order, and its pages    *)
(* hold every row.                                                         *)
LEMMA BoardFair ==
    ASSUME NEW arrived \in Seq(Ranking), NEW order \in OrderBy, NEW all \in BOOLEAN,
           NEW reversed \in BOOLEAN
    PROVE  FairBoard(BoardMade(arrived, order, all, reversed))
  <1> DEFINE sorted == Leaderboard(arrived, all, order)
             rows == IF reversed THEN Reverse(sorted) ELSE sorted
             b == BoardMade(arrived, order, all, reversed)
  <1>1. sorted \in Seq(Ranking) /\ RepresentsAll(sorted, arrived, all) /\ FollowsOrder(sorted, order)
    BY LeaderboardGood
  <1>2. /\ "rows" \in DOMAIN b /\ b.rows = rows /\ b.of = arrived /\ b.all = all
        /\ b.order = order /\ b.reversed = reversed
    BY DEF BoardMade
  <1> HIDE DEF sorted, b
  <1>3. /\ Reverse(sorted) \in Seq(Ranking) /\ Rearranged(Reverse(sorted), sorted, Len(sorted))
        /\ Reverse(Reverse(sorted)) = sorted
    BY <1>1, ReversedGood
  <1> DEFINE turned == Reverse(sorted)
             n == Len(sorted)
  <1>4. n \in Nat
    BY <1>1
  <1>5. /\ OneEach(sorted) => OneEach(turned)
        /\ \A a : Represents(sorted, a) => Represents(turned, a)
    <2> HIDE DEF turned, n
    <2>1. Len(sorted) = n /\ Rearranged(turned, sorted, n)
      BY <1>3 DEF turned, n
    <2> QED BY <1>4, <2>1, RearrangedSame
  <1> HIDE DEF n
  <1>6. RepresentsAll(turned, arrived, all)
    <2> HIDE DEF turned
    <2>1. turned \in Seq(Ranking)
      BY <1>3 DEF turned
    <2>2. /\ \A i \in 1..Len(arrived) : Represents(sorted, arrived[i])
          /\ ~ all => OneEach(sorted)
      BY <1>1, RepresentsIs
    <2>3. /\ \A i \in 1..Len(arrived) : Represents(turned, arrived[i])
          /\ ~ all => OneEach(turned)
      BY <1>5, <2>2
    <2> QED BY <2>1, <2>3, RepresentsIs
  <1>7. rows \in Seq(Ranking) /\ RepresentsAll(rows, arrived, all)
    BY <1>1, <1>3, <1>6
  <1>8. FollowsOrder(IF reversed THEN Reverse(rows) ELSE rows, order)
    <2>1. (IF reversed THEN Reverse(rows) ELSE rows) = sorted
      BY <1>3
    <2> HIDE DEF rows
    <2> QED BY <1>1, <2>1
  <1> HIDE DEF rows
  <1>9. PagesCover(rows, RowsPerPage)
    BY <1>7, PagesGood
  <1> QED BY <1>2, <1>7, <1>8, <1>9 DEF FairBoard, b

-----------------------------------------------------------------------------
(* Leaderboards, rankings, hooks, questions and forms *)

LEMMA CollectsGood ==
    ASSUME CommandsInv, NEW r \in Requests, Collects(r)
    PROVE  CommandsInv'
  <1> DEFINE q == request[r]
             e == NextStep(r).e
             arrive == Step("arrive", "", e)
             plays == {k \in Members \X BoardOf(e) : PlaysOf[k] # <<>>}
             s == <<arrive>>
             p == [q EXCEPT !.pending = plays]
             w == [p EXCEPT !.todo = s]
  <1>1. Running(r) /\ NextStep(r).do = "collect"
    BY DoesGood DEF Collects
  <1>2. NextStep(r) \in StepsOf(q.c) /\ RunGood(q) /\ RunTyped(q) /\ q.todo # <<>> /\ q.todo[1] = NextStep(r)
    BY <1>1, NowGood
  <1>3. e \in Embed /\ q.c.on # "message" /\ q.c.name # "ranks"
    BY <1>1, <1>2 DEF StepsOf, StepGood
  <1>4. /\ arrive \in StepsOf(q.c) /\ arrive.do = "arrive" /\ arrive.do \in Telling
        /\ ~ Opens(arrive) /\ ~ Closes(arrive)
    BY <1>3 DEF Step, StepsOf, StepGood, Doing, Hows, Telling, Opens, Closes
  <1>5. Becomes(r, w)
    <2>1. w = [q EXCEPT !.pending = plays, !.todo = s]
      BY <1>2 DEF RunTyped, RunFields
    <2> HIDE DEF w, plays, s
    <2>2. Becomes(r, [q EXCEPT !.pending = plays, !.todo = s])
      BY DEF Collects, s, plays
    <2> QED BY <2>1, <2>2
  <1> HIDE DEF arrive
  <1>6. s \in Seq(StepsOf(q.c)) /\ Len(s) = 1 /\ s[1] = arrive /\ s # <<>>
    BY <1>4
  <1> HIDE DEF s
  <1>7. Chained(s) /\ Tells(s)
    BY <1>4, <1>6 DEF Chained, Tells
  <1>8. q.board = <<>> /\ ~ Arriving(q)
    BY <1>1, <1>2, <1>3 DEF RunGood, BoardGood, Answered, Arriving
  <1>9. plays \subseteq Members \X BoardMaps
    <2>1. BoardOf(e) \subseteq BoardMaps
      <3>1. CASE e.kind = "map"
        BY <1>3, <3>1, EmbedKinds DEF BoardOf, OfMap
      <3>2. CASE e.kind # "map"
        BY <3>2 DEF BoardOf, MapsOfSet
      <3> QED BY <3>1, <3>2
    <2> QED BY <2>1
  <1> HIDE DEF plays
  <1>10. SameRun(p, q)
    BY <1>2, <1>3, <1>8, SameRunOf
  <1>11. RunGood(p) /\ p.todo = q.todo /\ p.c = q.c /\ p.pending = plays /\ p.board = <<>>
    <2>1. RunGood(p) /\ p.todo = q.todo
      BY <1>2, <1>10, SameRunGood
    <2>2. p.c = q.c /\ p.pending = plays /\ p.board = q.board
      BY <1>2 DEF RunTyped, RunFields
    <2> QED BY <1>8, <2>1, <2>2
  <1>12. w.todo = s /\ w.pending = plays /\ w.board = <<>> /\ w.c = q.c
    <2>1. DOMAIN p = RunFields
      BY <1>11 DEF RunGood, RunTyped
    <2> HIDE DEF p
    <2> QED BY <1>11, <2>1 DEF RunFields
  <1> HIDE DEF p
  <1>13. BoardGood(w)
    <2> HIDE DEF w
    <2>1. Arriving(w)
      BY <1>4, <1>6, <1>12 DEF Arriving
    <2>2. <<>> \in Seq(Ranking)
      OBVIOUS
    <2> QED BY <1>9, <1>12, <2>1, <2>2 DEF BoardGood
  <1>14. RunGood(w)
    <2>1. s # <<>> => s[1].do # "turn"
      BY <1>4, <1>6
    <2>2. p.todo # <<>>
      BY <1>2, <1>11
    <2> QED BY <1>6, <1>7, <1>11, <1>13, <2>1, <2>2, OtherSteps
  <1> HIDE DEF w
  <1>15. ~ Closes(w.todo[1]) /\ messages' \subseteq messages
    BY <1>4, <1>6, <1>12 DEF Collects
  <1> QED BY <1>1, <1>5, <1>14, <1>15, StepsTo DEF Collects

LEMMA ArrivesGood ==
    ASSUME CommandsInv, NEW r \in Requests, Arrives(r)
    PROVE  CommandsInv'
  <1> DEFINE q == request[r]
  <1>1. Running(r) /\ NextStep(r).do = "arrive"
    BY DoesGood DEF Arrives
  <1>2. NextStep(r) \in StepsOf(q.c) /\ RunGood(q) /\ q.todo # <<>> /\ q.todo[1] = NextStep(r)
    BY <1>1, NowGood
  <1>3. q.c.on # "message" /\ Arriving(q)
    BY <1>1, <1>2 DEF StepsOf, StepGood, Arriving
  <1>4. PICK k \in q.pending :
             \/ Becomes(r, [q EXCEPT !.pending = @ \ {k}, !.board = @ \o PlaysOf[k]])
             \/ Becomes(r, [q EXCEPT !.pending = @ \ {k}])
    BY DEF Arrives
  <1> DEFINE rest == q.pending \ {k}
             board == q.board \o PlaysOf[k]
  <1>5. board \in Seq(Ranking) /\ rest \subseteq q.pending
    <2>1. q.board \in Seq(Ranking) /\ q.pending \subseteq Members \X BoardMaps
      BY <1>2, <1>3 DEF RunGood, BoardGood
    <2>2. PlaysOf[k] \in Seq(Ranking)
      BY <1>4, <2>1, LeaderboardAssumption
    <2> QED BY <2>1, <2>2
  <1>6. CASE Becomes(r, [q EXCEPT !.pending = rest, !.board = board])
    <2> HIDE DEF rest, board
    <2>1. SameRun([q EXCEPT !.pending = rest, !.board = board], q)
      BY <1>2, <1>3, <1>5, SameRunOf
    <2> QED BY <1>1, <1>6, <2>1, StaysOn DEF Arrives
  <1>7. CASE Becomes(r, [q EXCEPT !.pending = rest])
    <2> HIDE DEF rest
    <2>1. SameRun([q EXCEPT !.pending = rest], q)
      BY <1>2, <1>3, <1>5, SameRunOf
    <2> QED BY <1>1, <1>7, <2>1, StaysOn DEF Arrives
  <1> QED BY <1>4, <1>6, <1>7

LEMMA ListsGood ==
    ASSUME NEW q, q.c \in Command, NEW e \in Embed
    PROVE  GoodSteps(q.c, Lists(q, e)) /\ Tells(Lists(q, e))
  <1> DEFINE style == StyleOr(q.c, "table")
             say == Say(e)
             list == List(style, Nothing)
             show == Show("table", Nothing)
  <1>1. style \in {"table", "grid", "file"}
    BY DEF StyleOr, Command
  <1>2. /\ say \in PlainOf(q.c) /\ list \in PlainOf(q.c) /\ show \in PlainOf(q.c)
        /\ say.do \in Telling /\ show.do \in Telling
    BY <1>1, StepKinds, TellingSteps
  <1>3. Lists(q, e) = <<show>> \/ Lists(q, e) = <<say, list>>
    BY DEF Lists
  <1> HIDE DEF say, list, show
  <1> QED BY <1>2, <1>3, AnsweringShort, AnsweringGood

(* What answers with a leaderboard says or shows it first.                 *)
LEMMA ListsAnswer ==
    ASSUME NEW q, NEW e
    PROVE  LET s == Lists(q, e)
           IN  /\ s # <<>> /\ s[1].do \in {"say", "show"}
               /\ Len(s) \in Nat /\ \A i \in 2..Len(s) : s[i].do # "turn"
  <1> DEFINE style == StyleOr(q.c, "table")
             say == Say(e)
             list == List(style, Nothing)
             show == Show("table", Nothing)
  <1>1. say.do = "say" /\ list.do = "list" /\ show.do = "show"
    BY DEF Say, List, Show, Step
  <1>2. Lists(q, e) = <<show>> \/ Lists(q, e) = <<say, list>>
    BY DEF Lists
  <1> HIDE DEF say, list, show
  <1>3. CASE Lists(q, e) = <<show>>
    BY <1>1, <1>3
  <1>4. CASE Lists(q, e) = <<say, list>>
    <2>1. \A i \in 2..2 : i = 2
      OBVIOUS
    <2> QED BY <1>1, <1>4, <2>1
  <1> QED BY <1>2, <1>3, <1>4

LEMMA MakesBoardGood ==
    ASSUME CommandsInv, NEW r \in Requests, MakesBoard(r)
    PROVE  CommandsInv'
  <1> DEFINE q == request[r]
             steps == Lists(q, NextStep(r).e)
             p == [q EXCEPT !.board = <<>>]
             g == Goes(p, steps)
  <1>1. Running(r) /\ NextStep(r).do = "arrive"
    BY DoesGood DEF MakesBoard
  <1>2. /\ NextStep(r) \in StepsOf(q.c) /\ q.c \in Command /\ RunGood(q) /\ RunTyped(q)
        /\ q.todo # <<>> /\ q.todo[1] = NextStep(r)
    BY <1>1, NowGood
  <1>3. NextStep(r).e \in Embed /\ q.c.on # "message" /\ q.c.name # "ranks" /\ Arriving(q)
    BY <1>1, <1>2 DEF StepsOf, StepGood, Arriving
  <1>4. GoodSteps(q.c, steps) /\ Tells(steps)
    BY <1>2, <1>3, ListsGood
  <1>5. /\ steps # <<>> /\ steps[1].do \in {"say", "show"}
        /\ Len(steps) \in Nat /\ \A i \in 2..Len(steps) : steps[i].do # "turn"
    BY ListsAnswer
  <1>6. q.board \in Seq(Ranking)
    BY <1>2, <1>3 DEF RunGood, BoardGood
  <1>7. CASE Becomes(r, Answers(q))
    BY <1>1, <1>7, AnswersHere DEF MakesBoard
  <1>8. ASSUME NEW made, FairBoard(made), Becomes(r, [Goes(q, steps) EXCEPT !.board = made])
        PROVE  CommandsInv'
    <2> DEFINE w == [g EXCEPT !.board = made]
    <2> HIDE DEF steps
    <2>1. [Goes(q, steps) EXCEPT !.board = made] = w
      BY <1>2 DEF Goes, RunTyped, RunFields
    <2>2. p.todo = q.todo /\ p.c = q.c /\ p.pending = q.pending /\ p.board = <<>>
      BY <1>2 DEF RunTyped, RunFields
    <2>3. RunGood(p)
      <3>1. BoardGood(p)
        <4> HIDE DEF p
        <4>1. <<>> \in Seq(Ranking)
          OBVIOUS
        <4> QED BY <1>2, <1>3, <2>2, <4>1 DEF RunGood, BoardGood, Arriving
      <3>2. SameRun(p, q)
        BY <1>2, <3>1, SameRunOf
      <3> QED BY <1>2, <3>2, SameRunGood
    <2> HIDE DEF p
    <2>4. RunGood(g) /\ Begins(g.todo)
      <3>1. ~ Opens(p.todo[1]) /\ ~ ShowsPage(p.todo[1])
        BY <1>1, <1>2, <2>2, OtherHeads
      <3> QED BY <1>2, <1>4, <2>2, <2>3, <3>1, GoesGood
    <2>5. g.c = q.c /\ g.todo = steps /\ DOMAIN g = RunFields
      <3>1. DOMAIN p = RunFields
        BY <2>3 DEF RunGood, RunTyped
      <3>5. g.c = p.c /\ g.todo = steps \o Tail(p.todo) /\ DOMAIN g = RunFields
        BY <3>1, GoesFields
      <3>2. g.c = q.c /\ g.todo = steps \o Tail(p.todo) /\ DOMAIN g = RunFields
        BY <2>2, <3>5
      <3>3. Tail(p.todo) = <<>>
        <4>1. q.todo[1].do = "arrive" /\ q.todo \in Seq(StepsOf(q.c))
          BY <1>1, <1>2 DEF RunTyped
        <4>2. Tail(q.todo) # <<>> => Linked(q.todo[1], Tail(q.todo)[1])
          BY <1>2, RunRest
        <4> QED BY <2>2, <4>1, <4>2 DEF Linked
      <3>4. steps \o <<>> = steps
        BY <1>4 DEF GoodSteps
      <3> QED BY <3>2, <3>3, <3>4
    <2> HIDE DEF g
    <2>6. w.c = q.c /\ w.todo = steps /\ w.board = made
      BY <2>5 DEF RunFields
    <2>7. BoardGood(w)
      <3> HIDE DEF w
      <3>1. ~ Arriving(w)
        BY <1>5, <2>6 DEF Arriving
      <3>2. Answered(w)
        BY <1>3, <1>5, <2>6 DEF Answered, TurnsLater
      <3> QED BY <1>8, <2>6, <3>1, <3>2 DEF BoardGood
    <2>8. RunGood(w) /\ w.todo = g.todo
      <3>1. SameRun(w, g)
        BY <2>4, <2>7, SameRunOf
      <3> QED BY <2>4, <3>1, SameRunGood
    <2> HIDE DEF w
    <2>9. Becomes(r, w) /\ messages' \subseteq messages
      BY <1>8, <2>1 DEF MakesBoard
    <2> QED BY <1>1, <2>4, <2>8, <2>9, StepsBy DEF MakesBoard
  <1>9. \/ Becomes(r, Answers(q))
        \/ \E order \in OrderBy, all \in BOOLEAN, reversed \in BOOLEAN :
              Becomes(r, [Goes(q, steps) EXCEPT !.board = BoardMade(q.board, order, all, reversed)])
    BY DEF MakesBoard, BoardMade
  <1> HIDE DEF q, steps
  <1>10. ASSUME NEW order \in OrderBy, NEW all \in BOOLEAN, NEW reversed \in BOOLEAN
         PROVE  FairBoard(BoardMade(q.board, order, all, reversed))
    BY <1>6, BoardFair
  <1> QED BY <1>7, <1>8, <1>9, <1>10

LEMMA RanksMembersGood ==
    ASSUME CommandsInv, NEW r \in Requests, RanksMembers(r)
    PROVE  CommandsInv'
  <1> DEFINE q == request[r]
             say == Say(Nothing)
             list == List("table", Nothing)
             steps == <<say, list>>
             p == Goes(q, steps)
             told == [q EXCEPT !.told = TRUE]
  <1>1. Running(r) /\ NextStep(r).do = "members"
    BY DoesGood DEF RanksMembers
  <1>2. RunGood(q) /\ q.c.name = "ranks" /\ RunTyped(q)
    BY <1>1, NowGood DEF StepsOf, StepGood
  <1>3. say \in PlainOf(q.c) /\ list \in PlainOf(q.c) /\ say.do \in Telling
    BY StepKinds, TellingSteps
  <1>4. \/ Becomes(r, Answers(q)) \/ Becomes(r, Panics(told))
        \/ \E saved \in SUBSET Members, query \in RankQuery, mode \in Modes, reversed \in BOOLEAN :
           \E listed \in SetToSeqs({u \in saved : PassPPLimit(query, mode, u)}) :
              Becomes(r, [p EXCEPT !.board = RanksMade(saved, query, mode, reversed, listed)])
    <2> DEFINE made(saved, query, mode, reversed, listed) ==
                  [p EXCEPT !.board = RanksMade(saved, query, mode, reversed, listed)]
               after(saved, query, mode, reversed, listed) ==
                  IF ServerRanks(listed, query, mode, reversed) = <<>> THEN Becomes(r, Answers(q))
                  ELSE IF HasLastUpdate(ServerRanks(listed, query, mode, reversed), query, mode)
                  THEN Becomes(r, made(saved, query, mode, reversed, listed))
                  ELSE Becomes(r, Panics(told))
    <2>1. \E saved \in SUBSET Members, query \in RankQuery, mode \in Modes, reversed \in BOOLEAN :
          \E listed \in SetToSeqs({u \in saved : PassPPLimit(query, mode, u)}) :
             (reversed => q.c.on = "slash") /\ after(saved, query, mode, reversed, listed)
      BY DEF RanksMembers, RanksMade
    <2>2. ASSUME NEW saved, NEW query, NEW mode, NEW reversed, NEW listed,
                 after(saved, query, mode, reversed, listed)
          PROVE  \/ Becomes(r, Answers(q)) \/ Becomes(r, Panics(told))
                 \/ Becomes(r, made(saved, query, mode, reversed, listed))
      BY <2>2
    <2> HIDE DEF p, told, made, after, q
    <2>3. PICK saved \in SUBSET Members, query \in RankQuery, mode \in Modes, reversed \in BOOLEAN :
             \E listed \in SetToSeqs({u \in saved : PassPPLimit(query, mode, u)}) :
                (reversed => q.c.on = "slash") /\ after(saved, query, mode, reversed, listed)
      BY <2>1
    <2>4. PICK listed \in SetToSeqs({u \in saved : PassPPLimit(query, mode, u)}) :
             after(saved, query, mode, reversed, listed)
      BY <2>3
    <2>5. \/ Becomes(r, Answers(q)) \/ Becomes(r, Panics(told))
          \/ Becomes(r, made(saved, query, mode, reversed, listed))
      BY <2>2, <2>4
    <2> QED BY <2>5, Zenon DEF made
  <1> HIDE DEF say, list
  <1>5. GoodSteps(q.c, steps) /\ Tells(steps)
    BY <1>3, AnsweringShort, AnsweringGood
  <1>6. CASE Becomes(r, Answers(q))
    BY <1>1, <1>6, AnswersHere DEF RanksMembers
  <1>7. CASE Becomes(r, Panics(told))
    <2>1. RunGood(told)
      BY <1>2, SameRunOf, SameRunGood
    <2> DEFINE w == Panics(told)
    <2>2. RunGood(w) /\ Begins(w.todo)
      BY <2>1, PanicsGood, EmptyGood
    <2>3. Becomes(r, w) /\ messages' \subseteq messages
      BY <1>7 DEF RanksMembers
    <2> HIDE DEF w
    <2> QED BY <1>1, <2>2, <2>3, StepsBy DEF RanksMembers
  <1>8. ASSUME NEW made, RanksFollow(made), "rows" \notin DOMAIN made,
               Becomes(r, [p EXCEPT !.board = made])
        PROVE  CommandsInv'
    <2> HIDE DEF steps
    <2>1. RunGood(p) /\ p.c = q.c /\ Begins(p.todo)
      <3>1. RunGood(p)
        BY <1>1, <1>5, GoesGoodNow
      <3>2. p.c = q.c /\ p.todo = steps \o Tail(q.todo)
        BY <1>2, GoesFields DEF RunTyped
      <3>3. Begins(p.todo)
        BY <1>1, <1>2, <1>5, NowGood, OtherHeads, GoesGood
      <3> QED BY <3>1, <3>2, <3>3
    <2> HIDE DEF p
    <2> DEFINE w == [p EXCEPT !.board = made]
    <2>2. w.todo = p.todo /\ w.c = p.c /\ w.board = made
      BY <2>1 DEF RunGood, RunTyped, RunFields
    <2>3. BoardGood(w)
      <3> HIDE DEF w
      <3> QED BY <1>2, <1>8, <2>1, <2>2 DEF BoardGood, Arriving, Begins, Answered, FairBoard
    <2>4. SameRun(w, p)
      BY <2>1, <2>3, SameRunOf
    <2>5. Becomes(r, w)
      BY <1>8
    <2> HIDE DEF w
    <2> QED BY <1>1, <1>5, <2>4, <2>5, GoesAlso DEF p, RanksMembers
  <1>9. ASSUME NEW saved \in SUBSET Members, NEW query \in RankQuery, NEW mode \in Modes,
               NEW reversed \in BOOLEAN,
               NEW listed \in SetToSeqs({u \in saved : PassPPLimit(query, mode, u)}),
               Becomes(r, [p EXCEPT !.board = RanksMade(saved, query, mode, reversed, listed)])
        PROVE  CommandsInv'
    <2> DEFINE made == RanksMade(saved, query, mode, reversed, listed)
    <2>1. RanksFollow(made)
      BY RanksGood
    <2>2. "rows" \notin DOMAIN made
      BY DEF RanksMade
    <2>3. Becomes(r, [p EXCEPT !.board = made])
      BY <1>9
    <2> HIDE DEF made, p
    <2> QED BY <1>8, <2>1, <2>2, <2>3
  <1> QED BY <1>4, <1>6, <1>7, <1>9

LEMMA TakesLinkGood ==
    ASSUME CommandsInv, NEW r \in Requests, TakesLink(r)
    PROVE  CommandsInv'
  <1> DEFINE q == request[r]
  <1>1. Running(r) /\ NextStep(r).do = "links"
    BY DoesGood DEF TakesLink
  <1>2. NextStep(r) \in StepsOf(q.c) /\ q.c \in Command /\ RunGood(q) /\ RunTyped(q)
    BY <1>1, NowGood
  <1>3. q.c.on = "message"
    BY <1>1, <1>2 DEF StepsOf, StepGood
  <1>4. q.pending \subseteq Embed
    BY <1>2, <1>3 DEF RunTyped
  <1>5. CASE Becomes(r, Ends(q, FALSE))
    BY <1>1, <1>3, <1>5, EndsHere DEF TakesLink
  <1>6. ASSUME NEW e \in q.pending,
               Becomes(r, [Goes(q, OfLink(e) \o <<EachLink>>) EXCEPT !.pending = @ \ {e}])
        PROVE  CommandsInv'
    <2> DEFINE s == OfLink(e)
               steps == s \o <<EachLink>>
               p == Goes(q, steps)
               rest == p.pending \ {e}
    <2>1. GoodSteps(q.c, s)
      BY <1>2, <1>4, <1>6, OfLinkGood
    <2>2. EachLink \in PlainOf(q.c)
      BY <1>3, StepKindsOfCommand
    <2>3. Becomes(r, [p EXCEPT !.pending = rest])
      BY <1>6
    <2>4. GoodSteps(q.c, <<EachLink>>)
      BY <2>2, ShortSteps, PlainGood
    <2> HIDE DEF s
    <2>5. GoodSteps(q.c, steps)
      BY <2>1, <2>4, GoodConcat
    <2> HIDE DEF steps
    <2>6. RunGood(p) /\ p.c = q.c
      <3>1. RunGood(p)
        BY <1>1, <1>3, <2>5, GoesGoodNow
      <3>2. p.c = q.c
        BY <1>2, GoesFields DEF RunTyped
      <3> QED BY <3>1, <3>2
    <2> HIDE DEF p
    <2>7. rest \subseteq Embed
      BY <1>3, <2>6 DEF RunGood, RunTyped
    <2> HIDE DEF rest
    <2>9. Arriving(p) => rest \subseteq p.pending
      BY DEF rest
    <2>8. SameRun([p EXCEPT !.pending = rest], p)
      BY <2>6, <2>7, <2>9, SameRunOf
    <2> QED BY <1>1, <1>3, <2>3, <2>5, <2>8, GoesAlso DEF p, TakesLink
  <1>7. ASSUME NEW e \in q.pending, Becomes(r, [q EXCEPT !.pending = @ \ {e}])
        PROVE  CommandsInv'
    <2> DEFINE rest == q.pending \ {e}
    <2>1. rest \subseteq Embed
      BY <1>4
    <2>2. Becomes(r, [q EXCEPT !.pending = rest])
      BY <1>7
    <2>4. rest \subseteq q.pending
      OBVIOUS
    <2> HIDE DEF rest
    <2>3. SameRun([q EXCEPT !.pending = rest], q)
      BY <1>2, <2>1, <2>4, SameRunOf
    <2> QED BY <1>1, <2>2, <2>3, StaysOn DEF TakesLink
  <1> QED BY <1>5, <1>6, <1>7 DEF TakesLink

LEMMA ReadsFilesGood ==
    ASSUME CommandsInv, NEW r \in Requests, ReadsFiles(r)
    PROVE  CommandsInv'
  <1> DEFINE q == request[r]
             say == Say(Nothing)
             show == Show("table", Nothing)
  <1>1. Running(r) /\ NextStep(r).do = "files"
    BY DoesGood DEF ReadsFiles
  <1>2. NextStep(r) \in StepsOf(q.c)
    BY <1>1, NowGood
  <1>3. q.c.on = "message"
    BY <1>1, <1>2 DEF StepsOf, StepGood
  <1>4. say \in PlainOf(q.c) /\ show \in PlainOf(q.c)
    BY StepKinds
  <1>5. PICK steps \in {<<>>, <<show>>, <<say, show>>} : Becomes(r, Goes(q, steps))
    BY DEF ReadsFiles
  <1> HIDE DEF say, show
  <1>6. steps \in Seq(PlainOf(q.c))
    BY <1>4, <1>5, ShortSteps
  <1> QED BY <1>1, <1>3, <1>5, <1>6, PlainGood, GoesOn DEF ReadsFiles

LEMMA ConfirmsGood ==
    ASSUME CommandsInv, NEW r \in Requests, Confirms(r)
    PROVE  CommandsInv'
  <1> DEFINE q == request[r]
             profile == <<Ask>> \o (UserExtras \o <<Show("profile", Nothing)>>)
             text == Show("text", Nothing)
  <1>1. Running(r) /\ NextStep(r).do = "confirm"
    BY DoesGood DEF Confirms
  <1>2. q.c \in Command
    BY <1>1, NowGood
  <1>3. <<Ask>> \o UserExtras \o <<Show("profile", Nothing)>> = profile
    BY DEF UserExtras
  <1>4. text \in PlainOf(q.c) /\ text.do \in Telling /\ Ask \in PlainOf(q.c)
    BY StepKinds, TellingSteps
  <1>5. profile \in Answering(q.c)
    BY <1>2, <1>4, SharedScripts, AnsweringAfter
  <1>6. CASE Becomes(r, Goes(q, profile)) /\ UNCHANGED messages
    <2> HIDE DEF profile
    <2>1. GoodSteps(q.c, profile) /\ Tells(profile)
      BY <1>5, AnsweringGood
    <2> QED BY <1>1, <1>6, <2>1, GoesOn DEF Confirms
  <1>7. CASE Becomes(r, Goes(q, <<text>>)) /\ UNCHANGED messages
    <2> HIDE DEF text
    <2>1. GoodSteps(q.c, <<text>>) /\ Tells(<<text>>)
      BY <1>4, AnsweringShort, AnsweringGood
    <2> QED BY <1>1, <1>7, <2>1, GoesOn DEF Confirms
  <1>8. CASE Fails(r)
    BY <1>1, <1>8, FailsQuiet DEF Confirms
  <1> QED BY <1>3, <1>6, <1>7, <1>8 DEF Confirms

LEMMA FillsFormGood ==
    ASSUME CommandsInv, NEW r \in Requests, FillsForm(r)
    PROVE  CommandsInv'
  <1> DEFINE q == request[r]
             e == NextStep(r).e
             simulated == Show("simulated", e)
             text == Show("text", Nothing)
  <1>1. Running(r) /\ NextStep(r).do = "modal"
    BY DoesGood DEF FillsForm
  <1>2. NextStep(r) \in StepsOf(q.c)
    BY <1>1, NowGood
  <1>3. q.c.on = "button" /\ e \in OfMap
    BY <1>1, <1>2 DEF StepsOf, StepGood
  <1>4. Ask \in PlainOf(q.c) /\ simulated \in PlainOf(q.c) /\ text \in PlainOf(q.c)
    <2>1. e \in Embed
      BY <1>3, EmbedKinds
    <2> QED BY <1>3, <2>1, StepKinds
  <1>5. CASE Becomes(r, Panics(q))
    BY <1>1, <1>5, PanicsHere DEF FillsForm
  <1>6. ASSUME NEW steps \in {<<>>, <<Ask, simulated>>, <<text>>}, Becomes(r, Goes(q, steps))
        PROVE  CommandsInv'
    <2> HIDE DEF simulated, text
    <2>1. steps \in Seq(PlainOf(q.c))
      BY <1>4, <1>6, ShortSteps
    <2> QED BY <1>1, <1>3, <1>6, <2>1, PlainGood, GoesOn DEF FillsForm
  <1> QED BY <1>5, <1>6 DEF FillsForm

-----------------------------------------------------------------------------
(* Steps that show, say and save *)

LEMMA RestGood ==
    ASSUME NEW q, RunGood(q), q.todo # <<>>, NEW w, DOMAIN w = RunFields,
           w.at = q.at, w.c = q.c, w.msg = q.msg, w.todo = Tail(q.todo),
           w.turns = q.turns, w.pending = q.pending,
           w.told \/ (w.told = q.told /\ q.todo[1].do \notin Telling), w.told \in BOOLEAN,
           w.page \in Embed \cup {Nothing}, ShowsPage(q.todo[1]) => w.page # Nothing,
           w.said \subseteq Embed, w.unheard = q.unheard,
           w.board = <<>> \/ (w.board = q.board /\ q.todo[1].do \notin {"arrive", "say", "show", "report"})
    PROVE  /\ RunGood(w)
           /\ w.todo # <<>> => Linked(q.todo[1], w.todo[1])
           /\ Opens(q.todo[1]) => w.todo # <<>>
  <1>0. RunTyped(q) /\ Chained(q.todo) /\ Owes(q)
    BY DEF RunGood
  <1>1. /\ q.at = "running" /\ w.todo \in Seq(StepsOf(q.c)) /\ Chained(w.todo)
        /\ w.todo # <<>> => Linked(q.todo[1], w.todo[1])
        /\ Tells(q.todo) /\ q.todo[1].do \notin Telling => Tells(w.todo)
    BY RunRest
  <1>2. RunTyped(w)
    BY <1>0, <1>1 DEF RunTyped
  <1>3. TurnsBack(w)
    BY <1>1 DEF TurnsBack, Linked
  <1>4. Owes(w)
    BY <1>0, <1>1 DEF Owes
  <1>5. Opens(q.todo[1]) => w.todo # <<>>
    <2>1. q.todo \in Seq(StepsOf(q.c)) /\ ~ Opens(q.todo[Len(q.todo)])
      BY <1>0 DEF RunTyped, Chained
    <2>2. Tail(q.todo) = <<>> => Len(q.todo) = 1
      BY <2>1, ShortRest
    <2> QED BY <2>1, <2>2
  <1>6. BoardGood(w)
    <2>1. ~ Arriving(w)
      BY <1>1 DEF Arriving, Linked
    <2>2. CASE w.board = <<>>
      BY <2>1, <2>2 DEF BoardGood
    <2>3. CASE w.board = q.board /\ q.todo[1].do \notin {"arrive", "say", "show", "report"}
      BY <2>1, <2>3, BoardKept DEF RunGood, Arriving
    <2> QED BY <2>2, <2>3
  <1> QED BY <1>1, <1>2, <1>3, <1>4, <1>5, <1>6 DEF RunGood

LEMMA RestFields ==
    ASSUME NEW q, RunGood(q)
    PROVE  LET p == Goes(q, <<>>)
           IN  /\ DOMAIN p = RunFields /\ p.at = q.at /\ p.c = q.c /\ p.msg = q.msg /\ p.told = q.told
               /\ p.turns = q.turns /\ p.page = q.page /\ p.said = q.said /\ p.unheard = q.unheard
               /\ p.pending = q.pending /\ p.board = q.board
               /\ p.todo = Tail(q.todo)
  <1> DEFINE p == Goes(q, <<>>)
  <1>1. DOMAIN q = RunFields /\ q.todo \in Seq(StepsOf(q.c))
    BY DEF RunGood, RunTyped
  <1>2. /\ DOMAIN p = RunFields /\ p.at = q.at /\ p.c = q.c /\ p.msg = q.msg /\ p.told = q.told
        /\ p.turns = q.turns /\ p.page = q.page /\ p.said = q.said /\ p.unheard = q.unheard
        /\ p.pending = q.pending /\ p.board = q.board
        /\ p.todo = <<>> \o Tail(q.todo)
    BY <1>1, GoesFields
  <1>3. q.todo # <<>> => <<>> \o Tail(q.todo) = Tail(q.todo)
    BY <1>1
  <1>4. q.todo = <<>> => Tail(q.todo) = <<>> \o Tail(q.todo)
    BY <1>1
  <1> HIDE DEF p
  <1> QED BY <1>2, <1>3, <1>4 DEF p

(* A message links to maps and sets only.                                  *)
LEMMA MessageForGood ==
    ASSUME NEW q, q.said \subseteq Embed, NEW how \in Showing, HasLinks(how), NEW e,
           how = "all" => e \in OfSet,
           how \in {"score", "linked", "simulated", "map", "prompt", "page", "setpage"} => e \in OfMap
    PROVE  MessageGood(MessageFor(q, how, e))
  <1> DEFINE m == MessageFor(q, how, e)
  <1>1. \A mode : MapButtons(mode) \subseteq Button
    BY DEF MapButtons, Button
  <1>2. ScoreButtons \subseteq Button
    BY DEF ScoreButtons, Button
  <1>3. e \in OfMap => ShortLink(e) \in Embed /\ MapEmbed(e.of, NoMode) \in Embed
    BY PlayedKinds, EmbedKinds
  <1>4. how \in {"score", "linked", "simulated", "map", "prompt", "page", "setpage", "all"}
    BY DEF Showing, HasLinks
  <1>5. CASE how \in {"score", "linked", "simulated", "map"}
    <2>1. m.links = <<{ShortLink(e)}>> /\ m.buttons \subseteq Button
      BY <1>1, <1>2, <1>5 DEF MessageFor
    <2>2. {ShortLink(e)} \in SUBSET Embed
      BY <1>3, <1>5
    <2> HIDE DEF m
    <2>3. m.links \in Seq(SUBSET Embed)
      BY <2>1, <2>2, ShortSteps
    <2> QED BY <2>1, <2>3 DEF MessageGood, m
  <1>6. CASE how = "prompt"
    <2> DEFINE a == {MapEmbed(e.of, NoMode)}
               b == {ShortLink(e)}
    <2>1. m.links = <<a, b>> /\ m.buttons \subseteq Button
      BY <1>1, <1>6 DEF MessageFor, Button
    <2>2. a \in SUBSET Embed /\ b \in SUBSET Embed
      BY <1>3, <1>6
    <2> HIDE DEF m, a, b
    <2>3. m.links \in Seq(SUBSET Embed)
      BY <2>1, <2>2, ShortSteps
    <2> QED BY <2>1, <2>3 DEF MessageGood, m
  <1>7. CASE how \in {"page", "setpage"}
    <2> DEFINE b == {ShortLink(e)}
    <2>1. m.links = <<q.said, b>> /\ m.buttons \subseteq Button
      BY <1>1, <1>2, <1>7 DEF MessageFor
    <2>2. q.said \in SUBSET Embed /\ b \in SUBSET Embed
      BY <1>3, <1>7
    <2> HIDE DEF m, b
    <2>3. m.links \in Seq(SUBSET Embed)
      BY <2>1, <2>2, ShortSteps
    <2> QED BY <2>1, <2>3 DEF MessageGood, m
  <1>8. CASE how = "all"
    <2> DEFINE b == {ShortLink(MapEmbed(x, e.mode)) : x \in MapsOfSet(e.of)}
    <2>1. m.links = <<q.said, b>> /\ m.buttons \subseteq Button
      BY <1>8 DEF MessageFor
    <2>2. ASSUME NEW x \in MapsOfSet(e.of)
          PROVE  ShortLink(MapEmbed(x, e.mode)) \in Embed
      <3>1. x \in BoardMaps /\ e.mode \in Modes \cup {NoMode}
        BY <1>8, EmbedKinds DEF MapsOfSet
      <3>2. MapEmbed(x, e.mode) \in OfMap
        BY <3>1, EmbedKinds
      <3> QED BY <3>2, PlayedKinds, EmbedKinds
    <2>3. q.said \in SUBSET Embed /\ b \in SUBSET Embed
      BY <2>2
    <2> HIDE DEF m, b
    <2>4. m.links \in Seq(SUBSET Embed)
      BY <2>1, <2>3, ShortSteps
    <2> QED BY <2>1, <2>4 DEF MessageGood, m
  <1> QED BY <1>4, <1>5, <1>6, <1>7, <1>8

LEMMA SaysGood ==
    ASSUME CommandsInv, NEW r \in Requests, Says(r)
    PROVE  CommandsInv'
  <1> DEFINE q == request[r]
             e == NextStep(r).e
             link == IF e = Nothing THEN {} ELSE IF e.kind = "set" THEN {SetEmbed(e.of, NoMode)}
                     ELSE {ShortLink(e)}
             p == Goes(q, <<>>)
             w == [p EXCEPT !.told = TRUE, !.said = link, !.board = <<>>]
  <1>1. Running(r) /\ NextStep(r).do = "say"
    BY DoesGood DEF Says
  <1>2. NextStep(r) \in StepsOf(q.c) /\ RunGood(q) /\ RunTyped(q) /\ q.todo # <<>> /\ NextStep(r) = q.todo[1]
    BY <1>1, NowGood
  <1>3. CASE Fails(r) /\ Lost
    BY <1>1, <1>3, FailsLost DEF Says
  <1>4. CASE Becomes(r, w) /\ UNCHANGED <<messages, faults, clash>>
    <2>1. e \in Embed \cup {Nothing}
      BY <1>1, <1>2 DEF StepsOf, StepGood
    <2>2. link \subseteq Embed
      <3>1. CASE e = Nothing
        BY <3>1
      <3>2. CASE e # Nothing /\ e.kind = "set"
        <4>1. e \in OfSet
          BY <2>1, <3>2 DEF OfSet
        <4>2. SetEmbed(e.of, NoMode) \in Embed
          BY <4>1, EmbedKinds
        <4> QED BY <3>2, <4>2
      <3>3. CASE e # Nothing /\ e.kind # "set"
        <4>1. e \in OfMap
          BY <2>1, <3>3, EmbedKinds
        <4>2. ShortLink(e) \in Embed
          BY <4>1, PlayedKinds, EmbedKinds
        <4> QED BY <3>3, <4>2
      <3> QED BY <3>1, <3>2, <3>3
    <2>3. /\ DOMAIN p = RunFields /\ p.at = q.at /\ p.c = q.c /\ p.msg = q.msg
          /\ p.turns = q.turns /\ p.page = q.page /\ p.pending = q.pending
          /\ p.todo = Tail(q.todo) /\ p.unheard = q.unheard
      BY <1>2, RestFields
    <2> HIDE DEF link, p
    <2>4. /\ DOMAIN w = RunFields /\ w.at = q.at /\ w.c = q.c /\ w.msg = q.msg
          /\ w.turns = q.turns /\ w.page = q.page /\ w.pending = q.pending
          /\ w.todo = Tail(q.todo) /\ w.told = TRUE /\ w.said = link /\ w.board = <<>>
          /\ w.unheard = q.unheard
      BY <2>3 DEF RunFields
    <2> HIDE DEF w
    <2>5. ~ Opens(q.todo[1]) /\ ~ Closes(q.todo[1]) /\ ~ ShowsPage(q.todo[1])
      BY <1>1, <1>2, OtherHeads
    <2>6. RunGood(w)
      BY <1>2, <2>2, <2>4, <2>5, RestGood DEF RunTyped
    <2>7. Begins(w.todo)
      BY <1>2, <2>4, <2>5, RunRest
    <2>8. Becomes(r, w) /\ messages' \subseteq messages
      BY <1>4
    <2> QED BY <1>1, <1>4, <2>6, <2>7, <2>8, StepsBy DEF Says
  <1> QED BY <1>3, <1>4 DEF Says

LEMMA ShowsGood ==
    ASSUME CommandsInv, NEW r \in Requests, Shows(r)
    PROVE  CommandsInv'
  <1> DEFINE q == request[r]
             step == NextStep(r)
             msg == MessageFor(q, step.how, step.e)
             page == IF step.how \in {"page", "setpage", "all"} THEN step.e ELSE q.page
             prompt == IF step.how = "prompt" THEN msg ELSE q.prompt
             p == Goes(q, <<>>)
             w == [p EXCEPT !.told = TRUE, !.board = <<>>, !.page = page, !.prompt = prompt]
  <1>1. Running(r) /\ step.do = "show"
    BY DoesGood DEF Shows
  <1>2. step \in StepsOf(q.c) /\ RunGood(q) /\ RunTyped(q) /\ q.todo # <<>> /\ step = q.todo[1]
    BY <1>1, NowGood
  <1>3. CASE Fails(r) /\ Lost /\ UNCHANGED <<newest, kept>>
    BY <1>1, <1>3, FailsLost DEF Shows
  <1>4. ASSUME Becomes(r, [Goes(q, <<>>) EXCEPT
                              !.told = TRUE, !.board = <<>>,
                              !.page = IF step.how \in {"page", "setpage", "all"} THEN step.e ELSE @,
                              !.prompt = IF step.how = "prompt" THEN msg ELSE @]),
               messages' = IF HasLinks(step.how) THEN messages \cup {msg} ELSE messages,
               NowShown(step.how, step.e),
               UNCHANGED <<faults, clash>>
        PROVE  CommandsInv'
    <2>1. /\ step.how \in Showing
          /\ step.how = "all" => step.e \in OfSet
          /\ step.how \in {"score", "linked", "simulated", "map", "prompt", "page", "setpage"} => step.e \in OfMap
      BY <1>1, <1>2 DEF StepsOf, StepGood
    <2>2. /\ DOMAIN p = RunFields /\ p.at = q.at /\ p.c = q.c /\ p.msg = q.msg
          /\ p.turns = q.turns /\ p.page = q.page /\ p.said = q.said /\ p.unheard = q.unheard
          /\ p.pending = q.pending /\ p.todo = Tail(q.todo)
      BY <1>2, RestFields
    <2>3. Becomes(r, w)
      <3>1. p.prompt = q.prompt
        BY <1>2, GoesFields DEF RunTyped
      <3> HIDE DEF msg
      <3>2. w = [p EXCEPT !.told = TRUE, !.board = <<>>,
                          !.page = IF step.how \in {"page", "setpage", "all"} THEN step.e ELSE @,
                          !.prompt = IF step.how = "prompt" THEN msg ELSE @]
        BY <2>2, <3>1
      <3> QED BY <1>4, <3>2
    <2>4. page \in Embed \cup {Nothing} /\ (ShowsPage(step) => page # Nothing)
      BY <1>2, <2>1, EmbedKinds DEF RunTyped, ShowsPage
    <2>5. MessageGood(msg) \/ ~ HasLinks(step.how)
      BY <1>2, <2>1, MessageForGood DEF RunTyped
    <2> HIDE DEF p, page, prompt, msg
    <2>6. /\ DOMAIN w = RunFields /\ w.at = q.at /\ w.c = q.c /\ w.msg = q.msg
          /\ w.turns = q.turns /\ w.page = page /\ w.said = q.said /\ w.unheard = q.unheard
          /\ w.pending = q.pending /\ w.todo = Tail(q.todo) /\ w.told = TRUE /\ w.board = <<>>
      BY <2>2 DEF RunFields
    <2> HIDE DEF w
    <2>7. /\ RunGood(w)
          /\ w.todo # <<>> => Linked(step, w.todo[1])
          /\ Opens(step) => w.todo # <<>>
      BY <1>2, <2>4, <2>6, RestGood DEF RunTyped
    <2>8. ShowsMap(step.how) /\ step.how \notin SavesNothing <=> Opens(step) \/ Closes(step)
      BY <1>1, <2>1 DEF ShowsMap, HasLinks, SavesNothing, Showing, Opens, Closes
    <2>9. ShowsMap(step.how) =>
             /\ Played(step.e) \in Embed /\ Played(step.e) # Nothing
             /\ Played(step.e).mode # NoMode
      <3>1. ShowsMap(step.how) => step.e \in OfMap
        BY <2>1 DEF ShowsMap, HasLinks, Showing
      <3> QED BY <3>1, PlayedKinds, EmbedKinds
    <2>10. last' = last /\ clash' = clash /\ faults' = faults
      BY <1>4 DEF Shows
    <2>14. kept' = IF Opens(step) \/ Closes(step) THEN Played(step.e) ELSE kept
      BY <1>4, <2>8 DEF NowShown
    <2>11. Kept'
      <3>1. kept' # Nothing => kept' \in Embed /\ kept'.mode # NoMode
        BY <1>4, <2>9 DEF CommandsInv, Kept, NowShown
      <3>2. \A m \in messages' : MessageGood(m)
        BY <1>4, <2>5 DEF CommandsInv, Kept
      <3>3. /\ newest'.map # Nothing => newest'.map \in Embed /\ newest'.map.mode # NoMode
            /\ newest'.saves \in BOOLEAN /\ (newest'.saves => newest'.map = kept')
        <4>1. CASE ShowsMap(step.how)
          <5>1. newest'.map = Played(step.e) /\ newest'.saves = (step.how \notin SavesNothing)
            BY <1>4, <4>1 DEF NowShown
          <5>2. step.how \notin SavesNothing => kept' = Played(step.e)
            BY <1>4, <4>1 DEF NowShown
          <5> QED BY <2>9, <4>1, <5>1, <5>2
        <4>2. CASE ~ ShowsMap(step.how)
          BY <1>4, <4>2 DEF NowShown, CommandsInv, Kept
        <4> QED BY <4>1, <4>2
      <3> QED BY <2>10, <3>1, <3>2, <3>3 DEF CommandsInv, Kept
    <2>12. ASSUME ~ clash
           PROVE  /\ w.todo = <<>> => Agree(last', kept')
                  /\ w.todo # <<>> => Between(w.todo[1], last', kept')
      <3>1. Between(step, last, kept)
        BY <1>1, <1>2, <2>12 DEF CommandsInv, LastGood
      <3>2. CASE Opens(step)
        <4>1. w.todo # <<>> /\ Linked(step, w.todo[1])
          BY <2>7, <3>2
        <4>2. Closes(w.todo[1]) /\ w.todo[1].do # "show" /\ Played(step.e) = Played(w.todo[1].e)
          BY <1>1, <3>2, <4>1 DEF Linked
        <4>3. w.todo[1].do = "save"
          BY <4>2 DEF Closes
        <4>4. kept' = Played(w.todo[1].e)
          BY <2>14, <3>2, <4>2
        <4> QED BY <4>1, <4>2, <4>3, <4>4 DEF Between
      <3>3. CASE ~ Opens(step)
        <4>1. Agree(last', kept')
          <5>1. CASE Closes(step)
            <6>1. last # Nothing /\ Played(last) = Played(step.e)
              BY <1>1, <3>1, <5>1 DEF Between
            <6> QED BY <2>8, <2>9, <2>10, <2>14, <5>1, <6>1 DEF Agree
          <5>2. CASE ~ Closes(step)
            BY <2>10, <2>14, <3>1, <3>3, <5>2 DEF Between
          <5> QED BY <5>1, <5>2
        <4>2. w.todo # <<>> => ~ Closes(w.todo[1])
          BY <2>7, <3>3 DEF Linked
        <4> QED BY <4>1, <4>2 DEF Between
      <3> QED BY <3>2, <3>3
    <2>13. RequestsGood' /\ LastGood'
      BY <1>1, <2>3, <2>7, <2>10, <2>12, BecomesGood, LastOfStep DEF CommandsInv
    <2> QED BY <2>11, <2>13 DEF CommandsInv
  <1> QED BY <1>3, <1>4 DEF Shows

LEMMA SavesGood ==
    ASSUME CommandsInv, NEW r \in Requests, Saves(r)
    PROVE  CommandsInv'
  <1> DEFINE q == request[r]
             step == NextStep(r)
             w == Goes(q, <<>>)
  <1>1. Running(r) /\ step.do = "save" /\ kept' = kept /\ newest' = newest
    BY DoesGood DEF Saves
  <1>2. step \in StepsOf(q.c) /\ RunGood(q) /\ RunTyped(q) /\ q.todo # <<>> /\ step = q.todo[1]
    BY <1>1, NowGood
  <1>3. step.e \in OfMap
    BY <1>1, <1>2 DEF StepsOf, StepGood
  <1>4. /\ DOMAIN w = RunFields /\ w.at = q.at /\ w.c = q.c /\ w.msg = q.msg /\ w.told = q.told
        /\ w.turns = q.turns /\ w.page = q.page /\ w.said = q.said /\ w.unheard = q.unheard
        /\ w.pending = q.pending /\ w.board = q.board /\ w.todo = Tail(q.todo)
    BY <1>2, RestFields
  <1> HIDE DEF w
  <1>5. ~ ShowsPage(step) /\ step.do \notin Telling
    BY <1>1 DEF ShowsPage, Telling
  <1>6. /\ RunGood(w)
        /\ w.todo # <<>> => Linked(step, w.todo[1])
        /\ Opens(step) => w.todo # <<>>
    BY <1>1, <1>2, <1>4, <1>5, RestGood DEF RunTyped
  <1>7. CASE last' = step.e /\ Becomes(r, w) /\ UNCHANGED <<messages, faults, clash>>
    <2>1. Kept'
      BY <1>1, <1>3, <1>7 DEF CommandsInv, Kept
    <2>2. last' # Nothing /\ Played(step.e) # Nothing
      BY <1>3, <1>7, PlayedKinds, EmbedKinds
    <2>3. ASSUME ~ clash
          PROVE  /\ w.todo = <<>> => Agree(last', kept')
                 /\ w.todo # <<>> => Between(w.todo[1], last', kept')
      <3>1. Between(step, last, kept)
        BY <1>1, <1>2, <2>3 DEF CommandsInv, LastGood
      <3>2. CASE Opens(step)
        <4>1. w.todo # <<>> /\ Linked(step, w.todo[1])
          BY <1>6, <3>2
        <4>2. Closes(w.todo[1]) /\ w.todo[1].do # "save" /\ Played(step.e) = Played(w.todo[1].e)
          BY <1>1, <3>2, <4>1 DEF Linked
        <4> QED BY <1>7, <2>2, <4>1, <4>2 DEF Between
      <3>3. CASE ~ Opens(step)
        <4>1. Closes(step)
          BY <1>1, <3>3 DEF Opens, Closes
        <4>2. kept = Played(step.e)
          BY <1>1, <3>1, <4>1 DEF Between
        <4>3. Agree(last', kept')
          BY <1>1, <1>7, <2>2, <4>2 DEF Agree
        <4>4. w.todo # <<>> => ~ Closes(w.todo[1])
          BY <1>6, <3>3 DEF Linked
        <4> QED BY <4>3, <4>4 DEF Between
      <3> QED BY <3>2, <3>3
    <2>4. RequestsGood' /\ LastGood'
      BY <1>1, <1>6, <1>7, <2>3, BecomesGood, LastOfStep DEF CommandsInv
    <2> QED BY <2>1, <2>4 DEF CommandsInv
  <1>8. CASE Becomes(r, w) /\ UNCHANGED messages /\ Lost /\ last' = last
    BY <1>1, <1>6, <1>8, LosesBy
  <1>9. CASE Fails(r) /\ Lost /\ last' = last
    BY <1>1, <1>9, FailsLost
  <1> QED BY <1>7, <1>8, <1>9 DEF Saves, w

-----------------------------------------------------------------------------
(* Steps that begin a request *)

LEMMA StartGood ==
    ASSUME CommandsInv, NEW r \in Requests, NEW c \in CommandsOf[r],
           NEW msg \in messages \cup {Nothing}, Start(r, c, msg)
    PROVE  CommandsInv'
  <1> DEFINE pending == IF c.short /\ ~AnnouncerHere THEN {} ELSE c.links
             script == Script(c)
             q == [at |-> "running", c |-> c, todo |-> script, msg |-> msg, told |-> FALSE,
                   unheard |-> FALSE, turns |-> 0, page |-> Nothing, said |-> {}, prompt |-> Nothing,
                   pending |-> pending, board |-> <<>>]
  <1>1. c \in Command
    BY CommandsAssumption
  <1>2. request[r] = Idle /\ DOMAIN request = Requests
    BY DEF Start, CommandsInv, RequestsGood
  <1>3. request' = [request EXCEPT ![r] = q]
    BY DEF Start
  <1>4. /\ clash' = (clash \/ \E o \in Requests : Running(o))
        /\ last' = last /\ messages' = messages /\ faults' = faults /\ kept' = kept /\ newest' = newest
    BY DEF Start
  <1>5. script \in Seq(PlainOf(c)) /\ script # <<>> /\ (c.on \in {"prefix", "slash"} => Tells(script))
    BY <1>1, Scripts
  <1>6. GoodSteps(c, script)
    BY <1>5, PlainGood
  <1>7. msg = Nothing \/ MessageGood(msg)
    BY DEF CommandsInv, Kept
  <1>8. pending \subseteq Embed
    BY <1>1 DEF Command
  <1> HIDE DEF pending, script
  <1>9. /\ DOMAIN q = RunFields /\ q.at = "running" /\ q.c = c /\ q.todo = script /\ q.msg = msg
        /\ q.told = FALSE /\ q.turns = 0 /\ q.page = Nothing /\ q.said = {} /\ q.pending = pending
        /\ q.unheard = FALSE /\ q.board = <<>>
    BY DEF RunFields
  <1> HIDE DEF q
  <1>10. RunTyped(q)
    <2>1. q.todo \in Seq(StepsOf(q.c))
      BY <1>6, <1>9 DEF GoodSteps
    <2>2. q.turns \in 0..MaxTurns
      BY <1>9, CommandsAssumption
    <2> QED BY <1>1, <1>7, <1>8, <1>9, <2>1, <2>2 DEF RunTyped
  <1>11. RunGood(q)
    <2>1. Chained(q.todo) /\ Begins(q.todo)
      BY <1>6, <1>9 DEF GoodSteps
    <2>2. BoardGood(q)
      BY <1>9, <2>1 DEF BoardGood, Arriving, Begins
    <2> QED BY <1>5, <1>9, <1>10, <2>1, <2>2 DEF RunGood, TurnsBack, Owes, Begins
  <1>12. request'[r] = q /\ DOMAIN request' = Requests /\ \A o \in Requests \ {r} : request'[o] = request[o]
    BY <1>2, <1>3
  <1>13. Running(r)' /\ ~ Running(r)
    BY <1>2, <1>9, <1>12 DEF Running, Idle
  <1>14. RequestsGood'
    <2>1. ASSUME NEW o \in Requests
          PROVE  IF Running(o)' THEN RunGood(request'[o]) /\ request'[o].todo # <<>>
                 ELSE EndGood(request'[o])
      <3>1. CASE o = r
        BY <1>5, <1>9, <1>11, <1>12, <1>13, <3>1
      <3>2. CASE o # r
        <4>1. request'[o] = request[o]
          BY <1>12, <3>2
        <4> QED BY <4>1 DEF CommandsInv, RequestsGood, Running
      <3> QED BY <3>1, <3>2
    <2> QED BY <1>12, <2>1 DEF RequestsGood
  <1>15. Kept'
    BY <1>4 DEF CommandsInv, Kept
  <1>16. LastGood'
    <2> SUFFICES ASSUME ~ clash'
                 PROVE  /\ \A a \in Requests, b \in Requests : Running(a)' /\ Running(b)' => a = b
                        /\ Quiet' => Agree(last', kept')
                        /\ \A a \in Requests :
                              Running(a)' => Between(request'[a].todo[1], last', kept')
      BY DEF LastGood
    <2>1. ~ clash /\ Quiet
      BY <1>4 DEF Quiet
    <2>2. Agree(last, kept)
      BY <2>1 DEF CommandsInv, LastGood
    <2>3. ASSUME NEW o \in Requests, o # r
          PROVE  ~ Running(o)'
      <3>1. request'[o] = request[o]
        BY <1>12, <2>3
      <3> QED BY <2>1, <3>1 DEF Quiet, Running
    <2>4. ~ Closes(script[1])
      BY <1>5, <1>6 DEF GoodSteps, Begins
    <2>5. Between(request'[r].todo[1], last', kept')
      BY <1>4, <1>9, <1>12, <2>2, <2>4 DEF Between
    <2>6. ~ Quiet'
      BY <1>13 DEF Quiet
    <2> QED BY <2>3, <2>5, <2>6
  <1> QED BY <1>14, <1>15, <1>16 DEF CommandsInv

LEMMA InitGood ==
    ASSUME Init
    PROVE  CommandsInv
  <1>1. last = Nothing \/ \E m \in BoardMaps : last = MapEmbed(m, NoMode)
    BY DEF Init
  <1>2. last \in OfMap \cup {Nothing}
    BY <1>1, EmbedKinds
  <1>3. kept = IF last = Nothing THEN Nothing ELSE Played(last)
    BY DEF Init
  <1>4. kept # Nothing => kept \in Embed /\ kept.mode # NoMode
    BY <1>2, <1>3, PlayedKinds, EmbedKinds
  <1>5. messages = {} /\ faults = 0 /\ clash = FALSE
    BY DEF Init
  <1>6. Kept
    <2>1. faults \in 0..MaxFaults
      BY <1>5, CommandsAssumption
    <2>2. newest.map = kept /\ newest.saves = TRUE
      BY DEF Init
    <2> QED BY <1>2, <1>4, <1>5, <2>1, <2>2 DEF Kept
  <1>7. DOMAIN request = Requests /\ \A r \in Requests : request[r] = Idle
    BY DEF Init
  <1>8. \A r \in Requests : ~ Running(r)
    BY <1>7 DEF Running, Idle
  <1>9. RequestsGood
    BY <1>7, <1>8 DEF RequestsGood, EndGood, Idle
  <1>10. Agree(last, kept)
    <2>1. last # Nothing => Played(last) # Nothing
      BY <1>2, PlayedKinds, EmbedKinds
    <2> QED BY <1>3, <2>1 DEF Agree
  <1>11. LastGood
    BY <1>8, <1>10 DEF LastGood
  <1> QED BY <1>6, <1>9, <1>11 DEF CommandsInv

-----------------------------------------------------------------------------
(* Theorems *)

(* Whatever the requests do, and whatever of them fails or is lost, every  *)
(* request has steps left that show a map and save it side by side, that   *)
(* turn no page before one is shown, and that still say something when     *)
(* nothing was said.                                                       *)
THEOREM CommandsInvariant == Spec => []CommandsInv
  <1>1. Init => CommandsInv
    BY InitGood
  <1>2. CommandsInv /\ [Next]_cvars => CommandsInv'
    <2> SUFFICES ASSUME CommandsInv, [Next]_cvars
                 PROVE  CommandsInv'
      OBVIOUS
    <2>1. CASE UNCHANGED cvars
      <3>1. /\ last' = last /\ messages' = messages /\ request' = request /\ faults' = faults
            /\ kept' = kept /\ newest' = newest /\ clash' = clash
        BY <2>1 DEF cvars
      <3>2. \A r \in Requests : Running(r)' <=> Running(r)
        BY <3>1 DEF Running
      <3>3. Kept'
        BY <3>1 DEF CommandsInv, Kept
      <3>4. RequestsGood'
        BY <3>1, <3>2 DEF CommandsInv, RequestsGood
      <3>5. LastGood'
        BY <3>1, <3>2 DEF CommandsInv, LastGood, Quiet
      <3> QED BY <3>3, <3>4, <3>5 DEF CommandsInv
    <2>2. ASSUME NEW r \in Requests, NEW c \in CommandsOf[r], NEW msg \in messages \cup {Nothing},
                 Start(r, c, msg)
          PROVE  CommandsInv'
      BY <2>2, StartGood
    <2>3. ASSUME NEW r \in Requests,
                 \/ Acknowledge(r) \/ Reports(r) \/ LookUpUser(r) \/ Asks(r)
                 \/ Loads(r) \/ ReadsInput(r) \/ PicksPlay(r) \/ FindsScores(r)
          PROVE  CommandsInv'
      BY <2>3, AcknowledgeGood, ReportsGood, LookUpUserGood, AsksGood, LoadsGood, ReadsInputGood, PicksPlayGood,
         FindsScoresGood
    <2>4. ASSUME NEW r \in Requests,
                 \/ Shows(r) \/ Says(r) \/ Saves(r) \/ OpensList(r) \/ Turns(r)
                 \/ Collects(r) \/ Arrives(r) \/ MakesBoard(r) \/ RanksMembers(r)
          PROVE  CommandsInv'
      BY <2>4, ShowsGood, SaysGood, SavesGood, OpensListGood, TurnsGood, CollectsGood, ArrivesGood,
         MakesBoardGood, RanksMembersGood
    <2>5. ASSUME NEW r \in Requests,
                 TakesLink(r) \/ ReadsFiles(r) \/ Confirms(r) \/ FillsForm(r)
          PROVE  CommandsInv'
      BY <2>5, TakesLinkGood, ReadsFilesGood, ConfirmsGood, FillsFormGood
    <2> QED BY <2>1, <2>2, <2>3, <2>4, <2>5 DEF Next
  <1> QED BY <1>1, <1>2, PTL DEF Spec

(* The last map of a channel is a map, messages link to maps and sets and  *)
(* have their own buttons, and a request that runs has a step to take.     *)
THEOREM CommandsTypes == Spec => []CommandsTypeOK
  <1>1. CommandsInv => CommandsTypeOK
    <2> SUFFICES ASSUME CommandsInv
                 PROVE  CommandsTypeOK
      OBVIOUS
    <2>1. /\ last \in Embed \cup {Nothing}
          /\ last # Nothing => last.kind = "map"
          /\ newest.map # Nothing => newest.map \in Embed /\ newest.map.mode # NoMode
          /\ newest.saves \in BOOLEAN
          /\ kept # Nothing => kept \in Embed /\ kept.mode # NoMode
          /\ faults \in 0..MaxFaults
          /\ clash \in BOOLEAN
      BY DEF CommandsInv, Kept, OfMap
    <2>2. ASSUME NEW m \in messages
          PROVE  m.buttons \subseteq Button /\ \A i \in DOMAIN m.links : m.links[i] \subseteq Embed
      <3>1. m.buttons \subseteq Button /\ m.links \in Seq(SUBSET Embed)
        BY DEF CommandsInv, Kept, MessageGood
      <3> QED BY <3>1
    <2>3. ASSUME NEW r \in Requests
          PROVE  /\ request[r].at \in {"idle", "running", "ended", "panicked"}
                 /\ Running(r) => request[r].todo # <<>> /\ request[r].turns \in 0..MaxTurns
      <3>1. CASE Running(r)
        BY <3>1, NowGood DEF Running, RunTyped
      <3>2. CASE ~ Running(r)
        BY <3>2 DEF CommandsInv, RequestsGood, EndGood
      <3> QED BY <3>1, <3>2
    <2> QED BY <2>1, <2>2, <2>3 DEF CommandsTypeOK
  <1> QED BY <1>1, CommandsInvariant, PTL

(* When nothing runs in the channel, nothing overlapped and nothing was    *)
(* lost, its last map is the one that was shown last, for any commands,    *)
(* maps, modes and lists.  When that was the score of `/osu score`, a      *)
(* simulated one or the map of a save, which their handlers do not save,   *)
(* it is still the one shown before (save_beatmap and its callers).        *)
THEOREM LastMapShown == Spec => []LastMapIsShown
  <1>1. CommandsInv => LastMapIsShown
    <2> SUFFICES ASSUME CommandsInv, Quiet, ~ clash
                 PROVE  Agree(last, IF newest.saves THEN newest.map ELSE kept)
      BY DEF LastMapIsShown, Agree
    <2>1. Agree(last, kept)
      BY DEF CommandsInv, LastGood
    <2>2. newest.saves => newest.map = kept
      BY DEF CommandsInv, Kept
    <2> QED BY <2>1, <2>2
  <1> QED BY <1>1, CommandsInvariant, PTL

(* A command that ended has told its user something, whichever of its      *)
(* steps found nothing, or failed and was reported.  Only a report that    *)
(* was lost leaves the user without one (the handlers, after_hook and      *)
(* on_error).                                                              *)
THEOREM CommandsAnswered == Spec => []CommandsAnswer
  <1>1. CommandsInv => CommandsAnswer
    <2> SUFFICES ASSUME CommandsInv, NEW r \in Requests, request[r].at = "ended",
                        request[r].on \in {"prefix", "slash"}
                 PROVE  request[r].told \/ request[r].unheard
      BY DEF CommandsAnswer
    <2>1. ~ Running(r)
      BY DEF Running
    <2> QED BY <2>1 DEF CommandsInv, RequestsGood, EndGood
  <1> QED BY <1>1, CommandsInvariant, PTL

(* However the API answers, a leaderboard represents every play that came, *)
(* each user and mods once, and follows its order; the ranking lists by    *)
(* figure the members who pass the limit, once each; and the pages hold    *)
(* every row (get_leaderboard, do_server_ranks, display_rankings_table).   *)
THEOREM BoardsFair == Spec => []BoardsAreFair
  <1>1. CommandsInv => BoardsAreFair
    <2> SUFFICES ASSUME CommandsInv, NEW r \in Requests, Running(r),
                        NextStep(r).do \in {"say", "show"}, request[r].board # <<>>
                 PROVE  FairBoard(request[r].board)
      BY DEF BoardsAreFair, FairBoard
    <2>1. RunGood(request[r]) /\ request[r].todo # <<>> /\ NextStep(r) = request[r].todo[1]
      BY NowGood
    <2> QED BY <2>1 DEF RunGood, BoardGood, Arriving
  <1> QED BY <1>1, CommandsInvariant, PTL
=============================================================================
