---------------------------- MODULE OsuCommands ----------------------------
(***************************************************************************)
(* The osu! commands, buttons and message hooks of one channel:            *)
(* youmubot-osu/src/discord/{mod,commands,interaction,hook,display}.rs,    *)
(* and what they keep for each other, the last map that was asked for in   *)
(* the channel and the messages with maps and buttons on them.             *)
(*                                                                         *)
(* A handler is the list of the steps it awaits, one after the other.  An  *)
(* error of a step ends the request, and the framework reports it to the   *)
(* user, if it can.  Other requests run between any two steps.             *)
(***************************************************************************)
EXTENDS OsuLeaderboard

CONSTANTS
    Requests,       \* requests to the bot
    CommandsOf,     \* the commands that each may be
    Modes, Std,     \* osu! modes, and the one all maps of it can be played in others
    NoMode,         \* no mode was given
    Native,         \* the mode of each map
    SetOf,          \* the beatmapset of each map
    AnnouncerHere,  \* the channel is the one of the osu! announcer
    Nothing,        \* no map, no message
    MaxTurns,       \* bound on the pages that are turned in a list
    MaxFaults       \* bound on the messages and rows that are lost

(* A link to a map or a set, or what it led to.                            *)
Embed == [kind : {"map"}, of : BoardMaps, mode : Modes \cup {NoMode}]
         \cup [kind : {"set"}, of : {SetOf[m] : m \in BoardMaps}, mode : Modes \cup {NoMode}]

Button == {"check", "lb", "last", "mapset", "simulate", "done"}
Surface == {"prefix", "slash", "button", "message"}

(* The handlers that are registered for each.                              *)
Handlers ==
    [prefix |-> {"recent", "pins", "top", "user", "save", "forcesave", "last", "check", "clean",
                 "ranks", "leaderboard"},
     slash |-> {"recent", "pins", "top", "user", "save", "forcesave", "beatmap", "check", "ranks",
                "leaderboard", "clean", "score"},
     button |-> {"check", "last", "mapset", "simulate", "lb"},
     message |-> {"hook", "score_hook", "dot_osu_hook"}]

(* A command with its arguments, a button, or a message with its links.    *)
Command ==
    {c \in [name : STRING, on : Surface, style : {"", "table", "grid", "file"}, nth : BOOLEAN,
            mode : Modes \cup {NoMode}, input : Embed \cup {Nothing}, set : BOOLEAN,
            reply : BOOLEAN, remove : BOOLEAN, links : SUBSET Embed, short : BOOLEAN] :
        c.name \in Handlers[c.on]}

ASSUME CommandsAssumption ==
    /\ Std \in Modes /\ NoMode \notin Modes
    /\ Native \in [BoardMaps -> Modes]
    /\ Nothing \notin Embed
    /\ AnnouncerHere \in BOOLEAN
    /\ MaxTurns \in Nat /\ MaxFaults \in Nat
    /\ \A r \in Requests : CommandsOf[r] \subseteq Command

VARIABLES
    last,           \* the row of the channel in osu_last_beatmaps
    messages,       \* every state a message of the bot was in
    request,        \* the run of each request
    faults,         \* number of faults so far
    newest,         \* history: the map shown last, and whether by one that saves
    kept,           \* history: the one shown last by what should save it
    clash           \* history: two requests ran at once, or something failed

cvars == <<last, messages, request, faults, newest, kept, clash>>

(* A message has texts with links in them, in the order they are read, and *)
(* buttons below.                                                          *)
Message == [links : Seq(SUBSET Embed), buttons : SUBSET Button]

Idle == [at |-> "idle"]

Running(r) == request[r].at = "running"

CommandsTypeOK ==
    /\ last \in Embed \cup {Nothing}
    /\ last # Nothing => last.kind = "map"
    /\ newest.map # Nothing => newest.map \in Embed /\ newest.map.mode # NoMode
    /\ newest.saves \in BOOLEAN
    /\ kept # Nothing => kept \in Embed /\ kept.mode # NoMode
    /\ \A m \in messages : m.buttons \subseteq Button /\ \A i \in DOMAIN m.links : m.links[i] \subseteq Embed
    /\ \A r \in Requests : request[r].at \in {"idle", "running", "ended", "panicked"}
    /\ \A r \in Requests : Running(r) => request[r].todo # <<>> /\ request[r].turns \in 0..MaxTurns
    /\ faults \in 0..MaxFaults
    /\ clash \in BOOLEAN

-----------------------------------------------------------------------------
(* Maps, modes and links *)

MapEmbed(m, mode) == [kind |-> "map", of |-> m, mode |-> mode]
SetEmbed(s, mode) == [kind |-> "set", of |-> s, mode |-> mode]

(* BeatmapWithMode::mode                                                   *)
ModeOf(e) == IF e.mode = NoMode THEN Native[e.of] ELSE e.mode

(* Mode::with_override: only maps of Std can be played in another mode.    *)
WithOverride(native, mode) == IF native = Std /\ mode # NoMode THEN mode ELSE native

Played(e) == MapEmbed(e.of, WithOverride(Native[e.of], e.mode))

(* The modes a map was played in.                                          *)
Playable == {e \in Embed : e.kind = "map" /\ e.mode # NoMode /\ e = Played(e)}

(* What is read again from short_link: a mode that is not native, and none *)
(* otherwise.                                                              *)
ShortLink(e) == MapEmbed(e.of, IF e.mode = Native[e.of] THEN NoMode ELSE e.mode)

MapsOfSet(s) == {m \in BoardMaps : SetOf[m] = s}

AsSet(e, mode) == SetEmbed(SetOf[e.of], mode)

(* score_components and beatmap_components                                 *)
ScoreButtons == {"check", "lb", "last"}
MapButtons(mode) == {"check", "lb", "mapset"} \cup (IF mode = Std THEN {"simulate"} ELSE {})

(* collect_referenced: the first text with a link of the kind asked for    *)
(* decides, in any order within it.  For a set, a map will do.             *)
Referenced(kind, msg) ==
    LET first(es) == {e \in es : \E i \in DOMAIN msg.links :
                         e \in msg.links[i] /\ \A j \in 1..(i - 1) : msg.links[j] \cap es = {}}
        hits == first({e \in Embed : kind \in {"any", e.kind}})
        maps == first({e \in Embed : e.kind = "map"})
    IN  IF hits # {} \/ kind # "set" THEN hits ELSE {AsSet(e, e.mode) : e \in maps}

(* load_beatmap_from_channel, which does not look at the kind.             *)
FromChannel == IF last = Nothing THEN {} ELSE {last}

-----------------------------------------------------------------------------
(* Steps *)

Step(do, how, e) == [do |-> do, how |-> how, e |-> e]

Ack == Step("ack", "", Nothing)             \* the interaction is deferred
Who == Step("who", "", Nothing)             \* the osu! user is looked up
Ask == Step("ask", "", Nothing)             \* the API, a map's file or a cache is asked
AskChannel == Step("ask", "channel", Nothing) \* the channel of the announcer is looked up
Load(kind) == Step("load", kind, Nothing)   \* the map of a message or the channel
Input == Step("input", "", Nothing)         \* the map that a slash command is given
Plays(then) == Step("plays", then, Nothing) \* a play is picked
Scores(e) == Step("scores", "", e)          \* a user's scores, of which there may be none
Show(how, e) == Step("show", how, e)        \* a message is sent
Say(e) == Step("say", "", e)                \* a message with a link is sent
Save(e) == Step("save", "", e)              \* the last map of the channel is replaced
List(how, e) == Step("list", how, e)        \* a list is shown page by page
Report(failed) == Step("report", failed, Nothing) \* the framework says what failed

(* The style that was asked for, or the one of the command.                *)
StyleOr(c, style) == IF c.style = "" THEN style ELSE c.style

(* find_save_requirements: the account, its modes one after the other until*)
(* one has plays, and the map of a play.                                   *)
SaveRequirements == <<Ask, Plays("prompt")>>

(* UserExtras::from_user: the best scores and the figures of their maps.   *)
UserExtras == <<Ask>>

(* The plays of an account, one of them or all.                            *)
Listing(c, style) ==
    IF c.nth THEN <<Plays("score")>>
    ELSE <<Say(Nothing), List(StyleOr(c, style), Nothing)>>

(* The commands by prefix of mod.rs.  A listing parses its user first.     *)
Recent(c) == <<Who, Ask>> \o Listing(c, "table")
Pins(c) == <<Who, Ask>> \o Listing(c, "grid")
Top(c) == <<Who, Ask>> \o Listing(c, "table")
GetUser == <<Who, Scores(Nothing)>> \o UserExtras \o <<Show("profile", Nothing)>>
PrefixSave == SaveRequirements
PrefixForcesave == <<Scores(Nothing), Ask>> \o UserExtras \o <<Show("profile", Nothing)>>
LastCommand(c) == <<Load(IF c.set THEN "set" ELSE "any")>>
PrefixCheck == <<Load("any")>>
CleanCache == <<Ask, Show("text", Nothing)>>

(* The commands by prefix of server_rank.rs.                               *)
RankMembers == <<Ask, Step("members", "", Nothing)>>
ServerRank == RankMembers
ShowLeaderboard == <<Load("any")>>

(* The slash commands of commands.rs, which are deferred once they know    *)
(* their user, and before they ask for more.                               *)
SlashTop(c) == <<Who, Ack, Ask>> \o Listing(c, "table")
SlashRecent(c) == <<Who, Ack, Ask>> \o Listing(c, "table")
SlashPinned(c) == <<Who, Ack, Ask>> \o Listing(c, "table")
Profile == <<Who, Ack, Scores(Nothing)>> \o UserExtras \o <<Show("profile", Nothing)>>
SlashSave == <<Ack>> \o SaveRequirements
SlashForcesave(c) ==
    IF c.remove THEN <<Ack, Ask, Show("text", Nothing)>>
    ELSE <<Ack, Ask, Ask>> \o UserExtras \o <<Show("profile", Nothing)>>
BeatmapCommand == <<Ack, Input>>
SlashCheck == <<Who, Ack, Input>>
Ranks == <<Ack>> \o RankMembers
SlashLeaderboard == <<Input>>
ClearCache == <<Ack>> \o CleanCache
ScoreCommand == <<Ask, Plays("linked")>>

(* The buttons of interaction.rs.                                          *)
CheckButton == <<Ack, Load("any")>>
LastButton == <<Ack, Load("any")>>
LastSetButton == <<Ack, Load("set")>>
SimulateButton == <<Load("map")>>
LbButton == <<Ack, Load("any")>>

(* The hooks of hook.rs.                                                   *)
EachLink == Step("links", "", Nothing)      \* the links, as they are resolved
LinkHook == <<AskChannel, EachLink>>
ScoreHook == <<Plays("mentioned")>>
DotOsuHook == <<Step("files", "", Nothing)>>

Script(c) ==
    CASE c.on = "prefix" /\ c.name = "recent" -> Recent(c)
      [] c.on = "prefix" /\ c.name = "pins" -> Pins(c)
      [] c.on = "prefix" /\ c.name = "top" -> Top(c)
      [] c.on = "prefix" /\ c.name = "user" -> GetUser
      [] c.on = "prefix" /\ c.name = "save" -> PrefixSave
      [] c.on = "prefix" /\ c.name = "forcesave" -> PrefixForcesave
      [] c.on = "prefix" /\ c.name = "last" -> LastCommand(c)
      [] c.on = "prefix" /\ c.name = "check" -> PrefixCheck
      [] c.on = "prefix" /\ c.name = "clean" -> CleanCache
      [] c.on = "prefix" /\ c.name = "ranks" -> ServerRank
      [] c.on = "prefix" /\ c.name = "leaderboard" -> ShowLeaderboard
      [] c.on = "slash" /\ c.name = "recent" -> SlashRecent(c)
      [] c.on = "slash" /\ c.name = "pins" -> SlashPinned(c)
      [] c.on = "slash" /\ c.name = "top" -> SlashTop(c)
      [] c.on = "slash" /\ c.name = "user" -> Profile
      [] c.on = "slash" /\ c.name = "save" -> SlashSave
      [] c.on = "slash" /\ c.name = "forcesave" -> SlashForcesave(c)
      [] c.on = "slash" /\ c.name = "beatmap" -> BeatmapCommand
      [] c.on = "slash" /\ c.name = "check" -> SlashCheck
      [] c.on = "slash" /\ c.name = "ranks" -> Ranks
      [] c.on = "slash" /\ c.name = "leaderboard" -> SlashLeaderboard
      [] c.on = "slash" /\ c.name = "clean" -> ClearCache
      [] c.on = "slash" /\ c.name = "score" -> ScoreCommand
      [] c.on = "button" /\ c.name = "check" -> CheckButton
      [] c.on = "button" /\ c.name = "last" -> LastButton
      [] c.on = "button" /\ c.name = "mapset" -> LastSetButton
      [] c.on = "button" /\ c.name = "simulate" -> SimulateButton
      [] c.on = "button" /\ c.name = "lb" -> LbButton
      [] c.on = "message" /\ c.name = "hook" -> LinkHook
      [] c.on = "message" /\ c.name = "score_hook" -> ScoreHook
      [] c.on = "message" /\ c.name = "dot_osu_hook" -> DotOsuHook

-----------------------------------------------------------------------------
(* What follows when the map is known *)

(* last, and handle_last_req of its buttons *)
ShowLast(e) ==
    IF e.kind = "map" THEN <<Ask, Show("map", e), Save(e)>>
    ELSE <<Say(e), List("set", e)>>

(* The slash command beatmap: what it says of the mode is the mode it was  *)
(* given, not that of the link.                                            *)
ShowBeatmap(c, e) ==
    IF e.kind = "map"
    THEN <<Ask, Show("map", MapEmbed(e.of, c.mode)),
           Save(MapEmbed(e.of, WithOverride(Native[e.of], c.mode)))>>
    ELSE <<Say(e), List("set", SetEmbed(e.of, c.mode))>>

(* The scores of a user, of which there may be none.                       *)
ShowScores(style, e) == <<Scores(e), Say(e), List(style, Nothing)>>

(* get_leaderboard_from_embed, up to the plays.                            *)
Board(e) == <<Ask, Step("collect", "", e)>>

Found(c, e) ==
    CASE c.name \in {"last", "mapset"} -> ShowLast(e)
      [] c.name = "beatmap" -> ShowBeatmap(c, e)
      [] c.name = "check" /\ c.on = "slash" -> ShowScores(StyleOr(c, "few"), e)
      [] c.name = "check" /\ c.on = "prefix" -> <<Who>> \o ShowScores(StyleOr(c, "grid"), e)
      [] c.name = "check" /\ c.on = "button" -> <<Who>> \o ShowScores("grid", e)
      [] c.name \in {"leaderboard", "lb"} /\ c.on # "slash" -> Board(e)
      [] c.name = "leaderboard" /\ c.on = "slash" -> <<Ack>> \o Board(e)
      [] c.name = "simulate" -> <<Ask, Step("modal", "", e)>>

(* handle_beatmap and handle_beatmapset of a link.                         *)
OfLink(e) == IF e.kind = "map" THEN <<Show("map", e), Save(e)>> ELSE <<Say(e), List("set", e)>>

(* What follows when a play of a map in a mode is known.                   *)
OfPlay(then, e) ==
    CASE then = "score" -> <<Ask, Show("score", e), Save(e)>>
      [] then = "linked" -> <<Ask, Show("linked", e)>>
      [] then = "mentioned" -> <<Ask, Show("score", e), Save(e)>>
      [] then = "prompt" -> <<Ask, Show("prompt", e), Step("confirm", "", e)>>

-----------------------------------------------------------------------------
(* Requests *)

(* How a request goes on: with some steps, and the rest.                   *)
Goes(q, steps) == [q EXCEPT !.todo = steps \o Tail(@)]

Ends(q, told) == [q EXCEPT !.todo = <<>>, !.told = @ \/ told]

(* There is nothing to show: the user is told so, and that is all.         *)
Answers(q) == [q EXCEPT !.todo = <<Show("text", Nothing)>>, !.board = <<>>]

Panics(q) == [q EXCEPT !.todo = <<>>, !.at = "panicked"]

(* A variant that saves the page with the whole set, too.                  *)
SavesEveryPage(how, e) == <<Ask, Step("save", how, e), Show(IF e.kind = "set" THEN "all" ELSE "page", e)>>

(* The pages of a list are turned until it times out, and the last one is  *)
(* rendered again without its arrows.                                      *)
PageSteps(how, e) == IF e.kind = "set" THEN <<Show("all", e)>>
                     ELSE <<Ask, Step("save", how, e), Show(IF how = "set" THEN "setpage" ELSE "page", e)>>

TurnsLater(q) == \E i \in 2..Len(q.todo) : q.todo[i].do = "turn"

(* Where a message hook goes on after an error in one of its links; one    *)
(* before them ends it.                                                    *)
NextOfHook(q) ==
    LET next == {i \in 2..Len(q.todo) : q.todo[i].do \in {"links", "plays"}}
    IN  IF Head(q.todo).how \in {"", "map", "score"} /\ Head(q.todo).do \in {"show", "save"}
        THEN Goes(q, <<>>)
        ELSE IF next = {} \/ Head(q.todo) = AskChannel THEN Ends(q, FALSE)
        ELSE [q EXCEPT !.todo = SubSeq(@, CHOOSE i \in next : \A j \in next : i <= j, Len(@))]

(* A variant in which only the commands by prefix have an error handler.   *)
ErrsUntold(q) ==
    IF q.c.on = "message" THEN NextOfHook(q)
    ELSE IF q.c.on = "prefix" THEN [q EXCEPT !.todo = <<Report(Head(@).do)>>] ELSE Ends(q, FALSE)

(* An error ends a command, and the framework reports it.  A press that    *)
(* was deferred is told nothing more.  A list that was open shows its last *)
(* page once more, and a hook goes on with its next link.                  *)
Errs(q) ==
    IF TurnsLater(q) /\ q.page # Nothing
    THEN LET i == CHOOSE i \in 2..Len(q.todo) : q.todo[i].do = "turn"
         IN  [q EXCEPT !.todo = PageSteps(q.todo[i].how, q.page) \o SubSeq(@, i + 1, Len(@))]
    ELSE IF q.c.on = "message" THEN NextOfHook(q)
    ELSE IF q.c.on = "button" THEN Ends(q, FALSE)
    ELSE [q EXCEPT !.todo = <<Report(Head(@).do)>>]

(* A request with nothing left to do has ended.                            *)
Becomes(r, q) ==
    request' = [request EXCEPT ![r] =
        IF q.todo # <<>> THEN q
        ELSE [at |-> IF q.at = "panicked" THEN q.at ELSE "ended", on |-> q.c.on,
              told |-> q.told, unheard |-> q.unheard]]

(* A save that fails takes its question back.                              *)
Fails(r) ==
    /\ Becomes(r, Errs(request[r]))
    /\ messages' = messages \ {request[r].prompt}

Does(r, step) == Running(r) /\ Head(request[r].todo).do = step

NextStep(r) == Head(request[r].todo)

Quiet == \A r \in Requests : ~Running(r)

(* A message or a row is lost on the way to Discord or the database.       *)
Lost ==
    /\ faults < MaxFaults
    /\ faults' = faults + 1
    /\ clash' = TRUE

Init ==
    /\ last \in {Nothing} \cup {MapEmbed(m, NoMode) : m \in BoardMaps}
    /\ kept = IF last = Nothing THEN Nothing ELSE Played(last)
    /\ newest = [map |-> kept, saves |-> TRUE]
    /\ messages = {}
    /\ request = [r \in Requests |-> Idle]
    /\ faults = 0
    /\ clash = FALSE

(* A command is given, in reply to a message perhaps, a button of a        *)
(* message pressed, or a message with links sent.                          *)
Start(r, c, msg) ==
    /\ request[r] = Idle
    /\ IF c.on = "button" \/ c.reply THEN msg \in messages ELSE msg = Nothing
    /\ c.on = "button" => c.name \in msg.buttons
    /\ request' = [request EXCEPT ![r] =
         [at |-> "running", c |-> c, todo |-> Script(c), msg |-> msg, told |-> FALSE,
          unheard |-> FALSE, turns |-> 0, page |-> Nothing, said |-> {}, prompt |-> Nothing,
          pending |-> IF c.short /\ ~AnnouncerHere THEN {} ELSE c.links,
          board |-> <<>>]]
    /\ clash' = (clash \/ \E o \in Requests : Running(o))
    /\ UNCHANGED <<last, messages, faults, newest, kept>>

(* expect_and_defer_button, and defer: the first answer to an interaction. *)
Acknowledge(r) ==
    /\ Does(r, "ack")
    /\ \/ Becomes(r, Goes(request[r], <<>>)) /\ UNCHANGED <<messages, faults, clash>>
       \/ Fails(r) /\ Lost
    /\ UNCHANGED <<last, newest, kept>>

(* The framework's answer to an error: a message like the others, but when *)
(* it is lost nobody tries again.  It is lost, too, when the interaction   *)
(* could not be deferred because Discord no longer takes an answer to it.  *)
Reports(r) ==
    /\ Does(r, "report")
    /\ \/ Becomes(r, Ends(request[r], TRUE)) /\ UNCHANGED <<faults, clash>>
       \/ /\ Becomes(r, [Ends(request[r], FALSE) EXCEPT !.unheard = TRUE])
          /\ \/ Lost
             \/ NextStep(r).how = "ack" /\ UNCHANGED <<faults, clash>>
    /\ UNCHANGED <<last, messages, newest, kept>>

(* user_header_or_default_id, and the saved user of who pressed a button,  *)
(* who is told when there is none.                                         *)
LookUpUser(r) ==
    /\ Does(r, "who")
    /\ \/ Becomes(r, Goes(request[r], <<>>)) /\ UNCHANGED messages
       \/ Fails(r)
       \/ request[r].c.on = "button" /\ Becomes(r, Answers(request[r])) /\ UNCHANGED messages
    /\ UNCHANGED <<last, faults, newest, kept, clash>>

(* A request to the API, a cache or a table, which may fail at any time.   *)
Asks(r) ==
    /\ Does(r, "ask")
    /\ \/ Becomes(r, Goes(request[r], <<>>)) /\ UNCHANGED messages
       \/ Fails(r)
    /\ UNCHANGED <<last, faults, newest, kept, clash>>

(* load_beatmap.  A link that cannot be resolved is none: a command says   *)
(* so, a button unwraps it.                                                *)
Loads(r) ==
    LET q == request[r]
        there == IF q.msg = Nothing THEN FromChannel ELSE Referenced(NextStep(r).how, q.msg)
    IN  /\ Does(r, "load")
        /\ \/ \E e \in there : Becomes(r, Goes(q, Found(q.c, e)))
           \/ Becomes(r, IF q.c.on = "button" THEN Panics(q) ELSE Answers(q))
        /\ UNCHANGED <<last, messages, faults, newest, kept, clash>>

(* parse_map_input: the map of the channel, or of the link that was given, *)
(* or its set.                                                             *)
ReadsInput(r) ==
    LET q == request[r]
        given == IF q.c.input = Nothing THEN FromChannel ELSE {q.c.input}
        wanted(e) == IF q.c.set /\ e.kind = "map" THEN AsSet(e, q.c.mode) ELSE e
    IN  /\ Does(r, "input")
        /\ \/ \E e \in given : Becomes(r, Goes(q, Found(q.c, wanted(e)))) /\ UNCHANGED messages
           \/ Fails(r)
        /\ UNCHANGED <<last, faults, newest, kept, clash>>

(* The nth play of a listing, a random best play of an account, or the     *)
(* plays that links lead to, one after the other.                          *)
PicksPlay(r) ==
    LET q == request[r]
        then == NextStep(r).how
        more == IF then = "mentioned" /\ q.turns < MaxTurns THEN <<Plays(then)>> ELSE <<>>
    IN  /\ Does(r, "plays")
        /\ \/ \E e \in Playable :
                 /\ q.c.mode \in {NoMode, e.mode}
                 /\ Becomes(r, [Goes(q, OfPlay(then, e) \o more)
                                 EXCEPT !.turns = IF more = <<>> THEN @ ELSE @ + 1])
                 /\ UNCHANGED messages
           \/ Fails(r)
        /\ UNCHANGED <<last, faults, newest, kept, clash>>

(* do_check, or another search of a user that may find nothing.            *)
FindsScores(r) ==
    /\ Does(r, "scores")
    /\ \/ Becomes(r, Goes(request[r], <<>>)) /\ UNCHANGED messages
       \/ Becomes(r, Answers(request[r])) /\ UNCHANGED messages
       \/ Fails(r)
    /\ UNCHANGED <<last, faults, newest, kept, clash>>

-----------------------------------------------------------------------------
(* Messages *)

(* What a message says of a map: its short link, which format_info puts in *)
(* a field of every embed, below the texts it was sent with.               *)
MessageFor(q, how, e) ==
    CASE how \in {"score", "linked", "simulated"} ->
           [links |-> <<{ShortLink(e)}>>, buttons |-> ScoreButtons]
      [] how = "map" ->
           [links |-> <<{ShortLink(e)}>>, buttons |-> MapButtons(ModeOf(e))]
      [] how = "prompt" ->
           [links |-> <<{MapEmbed(e.of, NoMode)}, {ShortLink(e)}>>,
            buttons |-> MapButtons(e.mode) \cup {"done"}]
      [] how = "page" ->
           [links |-> <<q.said, {ShortLink(e)}>>, buttons |-> ScoreButtons]
      [] how = "setpage" ->
           [links |-> <<q.said, {ShortLink(e)}>>, buttons |-> MapButtons(Native[e.of])]
      [] how = "all" ->
           [links |-> <<q.said, {ShortLink(MapEmbed(m, e.mode)) : m \in MapsOfSet(e.of)}>>,
            buttons |-> {}]

HasLinks(how) == how \notin {"profile", "text", "table"}

(* Messages with a map or a score of their own, and not a whole set.       *)
ShowsMap(how) == HasLinks(how) /\ how # "all"

(* Those whose handlers never call save_beatmap: the score of a link or an *)
(* id, a simulated one, and the map to play for a save.                    *)
SavesNothing == {"linked", "simulated", "prompt"}

NowShown(how, e) ==
    /\ newest' = IF ShowsMap(how) THEN [map |-> Played(e), saves |-> how \notin SavesNothing] ELSE newest
    /\ kept' = IF ShowsMap(how) /\ how \notin SavesNothing THEN Played(e) ELSE kept

(* A variant that forgets what it showed.                                  *)
ShowsWithoutSaving(r) ==
    LET q == request[r]
        step == NextStep(r)
    IN  /\ Does(r, "show")
        /\ Becomes(r, [q EXCEPT !.todo = SelectSeq(Tail(@), LAMBDA s : s.do # "save"), !.told = TRUE])
        /\ NowShown(step.how, step.e)
        /\ UNCHANGED <<last, messages, faults, clash>>

(* A message is sent or edited.                                            *)
Shows(r) ==
    LET q == request[r]
        step == NextStep(r)
        msg == MessageFor(q, step.how, step.e)
    IN  /\ Does(r, "show")
        /\ \/ /\ Becomes(r, [Goes(q, <<>>) EXCEPT
                                !.told = TRUE, !.board = <<>>,
                                !.page = IF step.how \in {"page", "setpage", "all"} THEN step.e ELSE @,
                                !.prompt = IF step.how = "prompt" THEN msg ELSE @])
              /\ messages' = IF HasLinks(step.how) THEN messages \cup {msg} ELSE messages
              /\ NowShown(step.how, step.e)
              /\ UNCHANGED <<faults, clash>>
           \/ Fails(r) /\ Lost /\ UNCHANGED <<newest, kept>>
        /\ UNCHANGED last

(* A reply with the header of what follows, and the link it is about.      *)
Says(r) ==
    LET q == request[r]
        e == NextStep(r).e
        link == IF e = Nothing THEN {} ELSE IF e.kind = "set" THEN {SetEmbed(e.of, NoMode)}
                ELSE {ShortLink(e)}
    IN  /\ Does(r, "say")
        /\ \/ /\ Becomes(r, [Goes(q, <<>>) EXCEPT !.told = TRUE, !.said = link, !.board = <<>>])
              /\ UNCHANGED <<messages, faults, clash>>
           \/ Fails(r) /\ Lost
        /\ UNCHANGED <<last, newest, kept>>

(* save_beatmap.  The pages of a set go on when the row is lost.           *)
Saves(r) ==
    /\ Does(r, "save")
    /\ \/ /\ last' = NextStep(r).e
          /\ Becomes(r, Goes(request[r], <<>>))
          /\ UNCHANGED <<messages, faults, clash>>
       \/ /\ IF NextStep(r).how = "set"
             THEN Becomes(r, Goes(request[r], <<>>)) /\ UNCHANGED messages
             ELSE Fails(r)
          /\ Lost
          /\ UNCHANGED last
    /\ UNCHANGED <<newest, kept>>

-----------------------------------------------------------------------------
(* Lists *)

(* What a page may show: the map of some score, or one of the set, in the  *)
(* mode it was asked for, or the whole set.                                *)
PageOf(how, e) ==
    IF how = "set"
    THEN {MapEmbed(m, e.mode) : m \in MapsOfSet(e.of)}
    ELSE {ShortLink(x) : x \in Playable}

(* display_scores and display_beatmapset up to the first page.  Tables and *)
(* files name no map that is saved, and their pages are not told apart; a  *)
(* few scores are shown one by one, many in a table.                       *)
OpensList(r) ==
    LET step == NextStep(r)
        turn == Step("turn", step.how, step.e)
    IN  /\ Does(r, "list")
        /\ \/ /\ step.how \in {"table", "file", "few"}
              /\ Becomes(r, Goes(request[r], <<Ask, Show("table", Nothing)>>))
           \/ /\ step.how \in {"grid", "few", "set"}
              /\ \E e \in PageOf(step.how, step.e), single \in BOOLEAN :
                  Becomes(r, Goes(request[r], PageSteps(step.how, e)
                                              \o (IF single THEN <<>> ELSE <<turn>>)))
        /\ UNCHANGED <<last, messages, faults, newest, kept, clash>>

(* A page is turned to, or the list times out and shows its page again.    *)
Turns(r) ==
    LET q == request[r]
        step == NextStep(r)
        turn == Step("turn", step.how, step.e)
    IN  /\ Does(r, "turn")
        /\ \/ /\ q.turns < MaxTurns
              /\ \E e \in PageOf(step.how, step.e) \cup (IF step.how = "set" THEN {step.e} ELSE {}) :
                   Becomes(r, [Goes(q, PageSteps(step.how, e) \o <<turn>>) EXCEPT !.turns = @ + 1])
           \/ Becomes(r, Goes(q, PageSteps(step.how, q.page)))
        /\ UNCHANGED <<last, messages, faults, newest, kept, clash>>

-----------------------------------------------------------------------------
(* Leaderboards and rankings *)

(* The maps of a leaderboard, and the plays that are asked for: one list   *)
(* for each member and map, in any order, without those that fail.  Who    *)
(* never played a map is not waited for here.                              *)
BoardOf(e) == IF e.kind = "map" THEN {e.of} ELSE MapsOfSet(e.of)

Collects(r) ==
    LET q == request[r]
        e == NextStep(r).e
    IN  /\ Does(r, "collect")
        /\ Becomes(r, [q EXCEPT !.pending = {k \in Members \X BoardOf(e) : PlaysOf[k] # <<>>},
                                !.todo = <<Step("arrive", "", e)>>])
        /\ UNCHANGED <<last, messages, faults, newest, kept, clash>>

Arrives(r) ==
    LET q == request[r]
    IN  /\ Does(r, "arrive")
        /\ \E k \in q.pending :
             \/ Becomes(r, [q EXCEPT !.pending = @ \ {k}, !.board = @ \o PlaysOf[k]])
             \/ Becomes(r, [q EXCEPT !.pending = @ \ {k}])
        /\ UNCHANGED <<last, messages, faults, newest, kept, clash>>

(* The answer: nothing was played, a table, a file, or score by score.     *)
Lists(q, e) ==
    LET style == StyleOr(q.c, "table")
    IN  IF style = "file" THEN <<Show("table", Nothing)>> ELSE <<Say(e), List(style, Nothing)>>

(* All plays came: the rows of the leaderboard are made.  A button asks    *)
(* for the best ones by pp, and only the slash command reverses them.      *)
MakesBoard(r) ==
    LET q == request[r]
    IN  /\ Does(r, "arrive")
        /\ q.pending = {}
        /\ \E order \in OrderBy, all, reversed \in BOOLEAN :
             /\ q.c.on = "button" => order = "pp" /\ ~all
             /\ reversed => q.c.on = "slash"
             /\ LET sorted == Leaderboard(q.board, all, order)
                    rows == IF reversed THEN Reverse(sorted) ELSE sorted
                    made == [rows |-> rows, of |-> q.board, order |-> order, all |-> all,
                             reversed |-> reversed]
                IN  IF rows = <<>> THEN Becomes(r, Answers(q))
                    ELSE Becomes(r, [Goes(q, Lists(q, NextStep(r).e)) EXCEPT !.board = made])
        /\ UNCHANGED <<last, messages, faults, newest, kept, clash>>

(* do_server_ranks: some of the members are saved.  They are listed in any *)
(* order, which decides among equals.                                      *)
RanksMembers(r) ==
    LET q == request[r]
    IN  /\ Does(r, "members")
        /\ \E saved \in SUBSET Members, query \in RankQuery, mode \in Modes, reversed \in BOOLEAN :
           \E listed \in SetToSeqs({u \in saved : PassPPLimit(query, mode, u)}) :
             /\ reversed => q.c.on = "slash"
             /\ LET users == ServerRanks(listed, query, mode, reversed)
                    made == [ranks |-> users, of |-> saved, query |-> query, mode |-> mode,
                             reversed |-> reversed]
                IN  IF users = <<>> THEN Becomes(r, Answers(q))
                    ELSE IF HasLastUpdate(users, query, mode)
                    THEN Becomes(r, [Goes(q, <<Say(Nothing), List("table", Nothing)>>)
                                     EXCEPT !.board = made])
                    ELSE Becomes(r, Panics([q EXCEPT !.told = TRUE]))
        /\ UNCHANGED <<last, messages, faults, newest, kept, clash>>

-----------------------------------------------------------------------------
(* Hooks, questions and simulations *)

(* hook: the links are resolved at once and handled as they come.          *)
TakesLink(r) ==
    LET q == request[r]
    IN  /\ Does(r, "links")
        /\ \/ /\ q.pending = {}
              /\ Becomes(r, Ends(q, FALSE))
           \/ \E e \in q.pending :
                \/ Becomes(r, [Goes(q, OfLink(e) \o <<EachLink>>) EXCEPT !.pending = @ \ {e}])
                \/ Becomes(r, [q EXCEPT !.pending = @ \ {e}])
        /\ UNCHANGED <<last, messages, faults, newest, kept, clash>>

(* dot_osu_hook: none, one or several of the attached maps can be read.    *)
ReadsFiles(r) ==
    LET q == request[r]
    IN  /\ Does(r, "files")
        /\ \E steps \in {<<>>, <<Show("table", Nothing)>>, <<Say(Nothing), Show("table", Nothing)>>} :
             Becomes(r, Goes(q, steps))
        /\ UNCHANGED <<last, messages, faults, newest, kept, clash>>

(* handle_save_respond: until the button is pressed and the most recent    *)
(* play is the one asked for.  Every press starts the time again; a press  *)
(* too early changes nothing.                                              *)
Confirms(r) ==
    LET q == request[r]
    IN  /\ Does(r, "confirm")
        /\ \/ Becomes(r, Goes(q, <<Ask>> \o UserExtras \o <<Show("profile", Nothing)>>))
              /\ UNCHANGED messages
           \/ Becomes(r, Goes(q, <<Show("text", Nothing)>>)) /\ UNCHANGED messages
           \/ Fails(r)
        /\ UNCHANGED <<last, faults, newest, kept, clash>>

(* handle_simulate_button: the form is only for maps in Std.  It is closed *)
(* or times out, or it is sent and the simulated score shown, or what is   *)
(* wrong with it.                                                          *)
FillsForm(r) ==
    LET q == request[r]
        e == NextStep(r).e
    IN  /\ Does(r, "modal")
        /\ IF ModeOf(e) # Std THEN Becomes(r, Panics(q))
           ELSE \E steps \in {<<>>, <<Ask, Show("simulated", e)>>, <<Show("text", Nothing)>>} :
                  Becomes(r, Goes(q, steps))
        /\ UNCHANGED <<last, messages, faults, newest, kept, clash>>

-----------------------------------------------------------------------------

Next ==
    \E r \in Requests :
        \/ \E c \in CommandsOf[r], msg \in messages \cup {Nothing} : Start(r, c, msg)
        \/ Acknowledge(r) \/ Reports(r) \/ LookUpUser(r) \/ Asks(r)
        \/ Loads(r) \/ ReadsInput(r) \/ PicksPlay(r) \/ FindsScores(r)
        \/ Shows(r) \/ Says(r) \/ Saves(r)
        \/ OpensList(r) \/ Turns(r)
        \/ Collects(r) \/ Arrives(r) \/ MakesBoard(r) \/ RanksMembers(r)
        \/ TakesLink(r) \/ ReadsFiles(r) \/ Confirms(r) \/ FillsForm(r)

Spec == Init /\ [][Next]_cvars

-----------------------------------------------------------------------------
(* Properties *)

(* When nothing runs in the channel, its last map is the one that was      *)
(* shown last, in the mode it was shown in: the commands, buttons, hooks   *)
(* and pages with a map or a score leave it for those that ask for the     *)
(* last one.  Three kinds of messages do not, the score that `/osu score`  *)
(* is given, a simulated one and the map of a save: after them it is still *)
(* the one shown before, as after what shows no map of its own, a table, a *)
(* file or a whole set.  Requests that overlap, and rows or messages that  *)
(* are lost, may leave another (save_beatmap and its callers).             *)
LastMapIsShown ==
    Quiet /\ ~clash =>
        LET shown == IF newest.saves THEN newest.map ELSE kept
        IN  IF shown = Nothing THEN last = Nothing
            ELSE last # Nothing /\ Played(last) = shown

(* A command that ended has told its user something, whichever of its      *)
(* steps failed or found nothing, unless it failed and the report of that  *)
(* was lost (the handlers, after_hook and on_error).                       *)
CommandsAnswer ==
    \A r \in Requests :
        request[r].at = "ended" /\ request[r].on \in {"prefix", "slash"} =>
            request[r].told \/ request[r].unheard

(* A score is only simulated for a map in osu! mode, which                 *)
(* handle_simulate_button asserts: only messages with such a map have its  *)
(* button.                                                                 *)
SimulatesOnlyStd ==
    \A r \in Requests :
        Running(r) /\ NextStep(r).do = "modal" => ModeOf(NextStep(r).e) = Std

(* However the API answers, a leaderboard represents every play that came  *)
(* and follows its order; the ranking lists members by figure, all of them *)
(* when the query has no limit (get_leaderboard, do_server_ranks).         *)
BoardsAreFair ==
    \A r \in Requests : Running(r) /\ request[r].c.name \in {"leaderboard", "lb", "ranks"}
                         /\ NextStep(r).do \in {"say", "show"} /\ request[r].board # <<>> =>
        LET b == request[r].board
        IN  IF "rows" \in DOMAIN b
            THEN /\ RepresentsAll(b.rows, b.of, b.all)
                 /\ FollowsOrder(IF b.reversed THEN Reverse(b.rows) ELSE b.rows, b.order)
                 /\ PagesCover(b.rows, RowsPerPage)
            ELSE RanksFollow(b)
=============================================================================
