# Youmubot in TLA+

Youmubot is a Discord bot written in Rust on top of tokio, serenity and poise.
This directory holds TLA+ models of the parts of it where concurrency, failure
and ordering matter, the TLC configurations that check them on small instances,
and proofs, checked with TLAPS, of what holds for instances of every size.

    tlc -config OsuTable.cfg MCOsuAnnouncer.tla      # one model-checking run
    tlapm OsuAnnouncerProofs.tla                     # the proofs of a module

`PROJECT.json` relates every definition of a model to the lines of the source
it stands for, and lists the runs, the hazards of the code and the theorems.

Contents: [inventory](#inventory), [models](#the-models), [runs](#the-runs),
[bounds](#bounds), [fairness](#fairness), [proofs](#proofs),
[disagreements with the code's own words](#where-the-code-does-something-else-than-it-says),
[what is left out](#what-is-not-modelled), [plan](#plan).


## Inventory

One process hosts everything. Tasks run on the threads of one tokio runtime and
share a type map of long-lived values behind an `RwLock`, an SQL database
(sqlite, through sqlx) and a few YAML files (rustbreak) that are rewritten when
a write guard is dropped. Discord, osu! and Codeforces are reached by HTTP.

| part | source | state it keeps | operations | interacts with |
|---|---|---|---|---|
| osu! saved users | `youmubot-osu/src/discord/db.rs`, `youmubot-db-sql/src/models/osu_user.rs` | tables `osu_users`, `osu_user_mode_stats` | `all`, `by_user_id`, `save`, `new_user`, `remove_user` | commands, announcer |
| osu! announcer | `youmubot-osu/src/discord/announcer.rs` | a copy of each row during a scan | `updates`, `update_user`, `send_all` | saved users, osu! API, channels |
| mapping announcer | same file | `mapping_events`, the channel `filled` | `updates`, `update_user` | filled by the osu! announcer |
| osu! save commands | `youmubot-osu/src/discord/mod.rs`, `commands.rs` | nothing beyond a call | `save`, `forcesave`, `add_user` | saved users, interaction collector |
| osu! score buffers | `youmubot-osu/src/request/scores.rs` | fetched items, offset, whether the list ended | `get`, `get_range`, `get_all`, `find`, `length_fetched` | osu! API, score lists |
| score and beatmap lists | `youmubot-osu/src/discord/display.rs`, `hook.rs` | pagers | `render`, `len`, `handle_reaction` | pagination, buffers |
| map and metadata caches | `beatmap_cache.rs`, `oppai_cache.rs`, `cache.rs`, `youmubot-db-sql/src/models/osu.rs` | cache tables | get or fetch and store, `clear` | osu! API, SQL |
| server leaderboards | `server_rank.rs` | none | queries | saved users, caches, member cache |
| pagination | `youmubot-prelude/src/pagination.rs` | page, message | first rendering, reactions, last rendering | interaction collector, pagers |
| interaction collector | `youmubot-prelude/src/interaction_collector.rs` | map from messages to channels | `create_collector`, drop, hook | pagination, save command |
| member cache | `youmubot-prelude/src/member_cache.rs` | two tables with timeouts | `query`, `query_members` | announcers, leaderboards, live contests |
| announcer runner | `youmubot-prelude/src/announcer.rs` | announcers, table of channels | scan loop, register, remove, list | all announcers |
| rate limiter | `youmubot-prelude/src/ratelimit.rs` | tokens in a channel | `borrow`, drop | map cache, Codeforces client |
| file database | `youmubot-db/src/lib.rs`, `youmubot-core/src/db.rs` | YAML files and their copy in memory | `borrow`, `borrow_mut`, save on drop | role messages, Codeforces users, channels |
| Codeforces announcer | `youmubot-cf/src/announcer.rs`, `db.rs` | `CfSavedUsers`, a clone of it during a scan | `updates`, `update_user` | save command, Codeforces API |
| Codeforces contest cache | `youmubot-cf/src/hook.rs` | contests, list with its age | `get`, `get_from_list` | info hook, live contests |
| Codeforces live contests | `youmubot-cf/src/live.rs` | set of watched contests, rows | `watch`, `scan_changes` | contest cache, member cache |
| role messages | `youmubot-core/src/community/roles.rs` | stored messages, watchers, handler tasks | `init`, `add`, `setup`, `remove`, `handle_reaction` | file database, Discord events |
| votes | `youmubot-core/src/community/votes.rs` | reactions of one poll | `vote` | Discord events |
| ignore list | `youmubot-core/src/admin/ignore.rs`, `youmubot-db-sql/src/models/ignore_list.rs` | table and copy in memory | `add`, `remove`, `query` | every command |
| dispatch | `youmubot/src/main.rs`, `compose_framework.rs` | hooks | `message`, `interaction_create`, `ready` | everything |
| models, embeds, parsing, fun, admin | the remaining files | none | conversions, formatting, single calls | commands |

What is hard, and what makes each part correct:

* **Announcers.** A scan works for minutes on a copy of rows that commands
  change meanwhile, with requests that fail one by one, and remembers what it
  announced by times (osu!) or by the last contest (Codeforces). They are
  correct when nothing is announced twice or passed over, when nobody gets the
  scores of an account that is not theirs, and when a user's saving is not lost.
* **Saved users.** A Discord user has at most one osu! account and an osu!
  account at most one Discord user, whatever commands and scans interleave.
* **Mapping announcer.** It sleeps on a channel of one token; events that were
  collected must not be stranded by a wake-up that was dropped.
* **Role messages.** Tasks in the background serve messages that commands
  post, update and delete on other threads; a message must have one handler,
  roles must follow reactions, and cancelling must neither panic nor block.
* **Buffers and pagination.** Lists grow while they are read by offset, pages
  are bytes, lengths are estimates, presses come while a page is rendered. The
  page counted from must be the page shown, and the end must be found.
* **Interaction collector.** A map that blocks threads, in asynchronous code.
* **Member cache.** Entries dated before a wait for a mutex, kept after they
  expired, and failures that are cached too.
* **Beatmap caches, rate limiter.** Only what is final may be kept; a set must
  not be answered in part; downloads must keep a rate over failures.
* **osu! commands.** Thirty handlers leave a last map and messages with buttons
  for each other, in several awaited steps each of which may fail.
* **Leaderboards.** Plays come member by member in any order.
* **Codeforces contests.** A list that several callers find too old at once, a
  watch that judges changes by what it saw a scan before.
* **Ignore list, file database.** A table, or a file, and a copy in memory that
  change one after the other, with failures and restarts in between.
* **Dispatch.** Every hook sees every interaction. **Votes** end at once.

The full list of hazards, each at its line, is under `hazards` in
`PROJECT.json`, with the properties that cover it.


## The models

All models have the same shape: `CONSTANTS` with a named assumption,
`VARIABLES` for the state of the code, and some *history* variables (marked so
where they are declared) that only the properties read. A definition bears the
source's name where it can. Faults are a constant set: a request that may fail
has an action of its own whose guard looks whether its fault is in `Faults`
(CfAnnouncer counts them up to `MaxFaults` instead).
Definitions commented as *variants* are not part of a model: each is a plausible
mistake in the definition after it, kept to show that a property notices it.

### OsuSavedUsers and OsuAnnouncer

`OsuSavedUsers` is the table: `link` (the account of each Discord user),
`failures`, `stats` (the last update of each mode) and one operator for each
transaction: `SaveUser` and `NewUser` with the races they refuse, `RemoveUser`.
A time is stored in whole seconds (`Seconds`); a clock may tick several times a
second.

`OsuAnnouncer` composes the table with everybody who uses it.

| action | code |
|---|---|
| `BeginSaving`, `FetchForSaving`, `CommitSaving` | the save commands and `add_user`: modes are fetched concurrently, the ones that failed left out, and the row stored |
| `Forget` | `forcesave` of the operator, which unlinks first |
| `ListUsers`, `ListModes` | `OsuUser::all`, two queries between which the table may change |
| `BeginUpdate` ... `SkipUser` | `update_user` on its copy: the modes in turn with their windows, the recent events, the store and what follows from its answer |
| `EndScan`, `WakeMapping`, `TakeMapping` | the end of `updates`, which puts a token into `filled`, and the mapping announcer |
| `Crash` | a restart: only the table survives |
| `Tick`, `Happen` | the clock, and new scores and events in the answers of the osu! API |

An item of the world has a date, an account and a topic (a mode, or a
beatmapset); what a score says is left out. "Announced" means handed over to
`send_all` or to the loop that posts mapping events.

`RepeatsNeedAMishap` (no best score is announced twice within one saving, other
events only after something went wrong that explains it), `NoTopScoreSkipped`
(consecutive windows of a mode leave no gap, whatever fails; a score set in the
very second of an update, but after it began, is `late`: the stored second has
passed it, and the next window begins behind it),
`OnlyLinkedAccountAnnounced`, `OneUserPerAccount` and
`MappingEventsAreTaken` are its properties.

`AccountLinks` is the abstract specification: who holds which account, and which
link an update in flight has read. `Claim` and `Release` are the commands;
an update, whatever its modes, windows and failures, can only `Land` (bring the
link it read back, if nobody has claimed the account since) or be abandoned.
`OsuAnnouncer` implements it: `Links == INSTANCE AccountLinks WITH holder <- link,
underway <- ...`, property `LinksAreClaims`, checked by OsuTable and proved.

### ScorePosts

What `SaveAndAnnounce` hands over, from `merge` to the last message. Which scores
there are is a constant (`Collections`); `Merge` and `Chunks` are functions;
maps arrive (`LoadMap`), messages are sent (`Send`) and last maps saved
(`SaveBeatmap`) in any order, and each may fail.
`EveryScoreIsTold`: of every play that was collected, or of one that is nowhere
worse, something is announced, and what is announced is in exactly one message to
each channel, unless its own map or message failed.

### CfAnnouncer

The clone of the table is `job[u].row`; `BeginScan` takes it, `UserInfo`,
`Send` and their failures are `update_user`, `EndScan` writes back.
`BeginSave` and `CommitSave` are the save command, whose reply comes before its
write. Times occur only in one comparison, the stored `last_update` against the
clone's; the model keeps its result (`newer`) instead of the times. Rating
changes are a sequence for each handle that grows (`Rate`) and from which
changes disappear for a while (`RollBack`, `Restore`), as a comment in
`update_user` says they do.

The history `mishaps` says what may explain a repetition: several changes at
once where there was no last contest (`first`: the changes are then not
reversed and the oldest is remembered), a change that was rolled back when its
handle was updated (`hidden`), failures that reached the limit, a
saving before (`early`) or after (`late`) the update's answers, a restart.

### ContestWatch

The contest cache (`known`, `list` with the time it was taken and the time it was
stored, `writer` for the write lock) and the watches, each a call that goes
through `Recall`, `AskStandings`, `CheckListAge`, `LockList`, `FetchList`,
`StoreList`, `ReadList` and, for a watch, `WakeToWatch`, `StartWatching` and
`ScanChanges`. A link in a message (`BeginLink`) asks the same cache. Codeforces
postpones a contest, moves it from phase to phase and changes results: a
submission, a rejection, a solution put into the queue of the system tests, and
its verdict. `AnalyzeChange` compares two results as `analyze_change` does.
Abstractions: one problem; a handle stands for the member that was found for it;
a later solution is worth less; results are not rejudged once final.

### OsuLeaderboard and OsuCommands

`OsuLeaderboard` are pure functions of server_rank.rs: which play of a member
represents it (`KeepBest`), the orders, the tables' pages and the ranking of
members, with reference definitions (`RepresentsAll`, `FollowsOrder`,
`PagesCover`, `RanksFollow`) that `BoardsAreFair` compares them with. Plays come in
any order, and so do the members of a ranking, whose sort is not stable: that
decides among equals. An order is the set of its pairs, so that the lemmas about
sorting can quantify over it.

`OsuCommands` is one channel. A handler is the list of the steps it awaits
(`todo`): acknowledge, look a user up, ask the API, load the map of a message,
pick a play, send, save the last map. `Script` gives the list of each command,
button and hook, one operator for each handler; one action for each kind of
step takes the head of the list, and a step that finds nothing or fails ends
it, as `?` does. The framework then reports the failure of a command (`Report`,
`Reports`): one more message, by `after_hook` or poise's `on_error`, which may be
lost like any other, and is not sent again. When it was the first answer to an
interaction that failed, the report goes to the same interaction and may be lost
with it. `unheard` notes that. `Handlers` are the handlers that are registered,
and `Command` what each may be given. Other requests run between any two steps.
`last` is the row of the channel, `messages` every state a message of the bot was
in, because a button can be pressed on any of them; `newest`, `kept` and `clash`
are history.

`LastMapIsShown` names what it leaves out. The score of `/osu score`, a simulated
score and the map of a save are shown, with buttons, and no handler saves them
(`SavesNothing`): what asks for the last map after them gets the one before
(`kept`). Tables, attached .osu files and the page with a whole set show no map
of their own.

### RoleWatchers

A handler task is *spawned*, *idle* in its `select`, fetching a member,
changing a role, or *ended*; `watchers` maps messages to handlers. The channel
of capacity zero is modelled by what it does: the drop of a watcher marks the
handler as cancelled; it returns at once when the handler has been polled, waits
when it has not (`step = "wait"`), and panics when the handler is gone. The send
blocks, so a command that waits keeps its thread of the runtime (`Blocked`), and
tasks go on only while there is another (`ThreadLeft`). On one thread, or when as
many commands wait as there are threads, nobody polls the handlers they wait for:
`CommandsReturn` says that a command ends unless that happens. Commands
go through `Forget` and `Unwatch` (the two halves of `remove`) and `Edit`,
`Store`, `Watch` (`setup`). A handler is found to be without its message only
after it fetched the member, as in the code.

`disturbed` collects the messages some reaction of which was missed, dropped or
failed, so that `RolesFollowReactions` can be exact for the others: updates and
restarts alone never make roles and reactions disagree. `contended` collects
those that two commands ever worked on at once.

### ScoreBuffer

The fetcher and the buffer over a list that the server changes between two
requests. The operators `Page`, `IsLast`, `Advance` and the action
`FetchNextPage` are the two levels of the code (`FetchPureImpl::next` under
`Fetcher::fetch_next_page`) taken together, with the order of early returns: an
empty page advances nothing and counts as the end. `get` and `get_all` are
ranges, the latter one past the longest list.

### Pagination

`paginate_with_first_message` from its first rendering to the last, with
`handle_pagination_reaction` and its byte arithmetic (`U8`). Pagers are of four
kinds: closures with a page count that look whether a page exists (`sliced`) or
do not (`indexed`, the beatmaps attached to a message), score lists over a
lazy buffer (`scores`) and the beatmapset with its page that shows all of it.
That the pager that renders first (`Len1`) is not the one that handles reactions
(`HandlerLen`) is part of the model. Arithmetic wraps, as in a release build.

### InteractionCollector

`Create` and `Drop` stop a thread in the map (`Stopped`) until `LockShard`; the
hook goes through `Acknowledge`, `Answer`, `Forward` or `Fail` and is a reader
of its shard in between. A step of a task needs a thread that is not stopped
(`ThreadFree`).

### MemberCache

`query` and `query_members` in five steps around the two mutexes, with both
times the code notes, and a table of members that changes under them. The
property compares the time an entry was fetched, which the code does not keep,
with the time of the call; a failed listing, which is remembered as unavailable,
has the shorter bound.

### Ratelimit and MapCaches

`Ratelimit` has the messages in the channel (`tokens`), the guards (`holding`)
and the tasks that sleep before they return a message (`asleep`). `MapCaches`
extends it and borrows for its downloads. osu! has one beatmapset whose maps
have a version; the mapper changes them until the set is ranked. `rows`, `links`
and `files` are the tables; a call notes what it asked for and when (`asked`),
so that `MapsAreCurrent` can say that no answer is older than its question.
Several calls run at once, and clearing takes its statements one by one.

### IgnoreList

The table, the copy in memory, owner commands that change the one and then the
other, failures, restarts; `ShouldIgnore` is the check before a command. `mixed`
collects the users about whom two commands ran at once.

### SavedFiles

Settings of two YAML files: the channels of the announcers and the assignable
roles. A command changes the data under the lock (`Change`), and the guard saves
the file when it is dropped (`SaveOnDrop`), with whatever the data are by then.
`LoadFiles`, `CreateRoles`, `CopyRoles` and `RemoveOldRoles` are the start of the
bot, the last three when there is only the older list of roles. The save itself
belongs to rustbreak, whose source is not here: it is taken to read the data and
to replace the file in one step, or to fail and leave it.

### Composed instances

OsuAnnouncer composes the table, the scan, the save commands and the mapping
announcer; MapCaches the two caches with the limiter; OsuCommands all handlers
of a channel with the leaderboards. Components that share nothing are put side
by side in one run (`MCCfAnnouncer`, `MCWatchers`, `MCCaches`, `MCScoreBuffer`):
a behaviour uses one of them, named by `used`, and leaves the others as they
were at first. That says the same as a run of each.


## The runs

| run | properties | what it shows |
|---|---|---|
| OsuTable | OneUserPerAccount, LinksAreClaims | two users saving, re-saving and removing two accounts with updates in flight and crashes: no account has two users, and the announcer implements AccountLinks |
| OsuGaps | NoTopScoreSkipped, OnlyLinkedAccountAnnounced | two ticks a second, two modes of which one may fail, two accounts, savings during updates: the windows leave no gap, no score goes to the wrong user |
| OsuEvents | TypeOK, RepeatsNeedAMishap, MappingEventsAreTaken | two ticks a second, items of every kind, every fault: rounding down repeats nothing, no wake-up is lost |
| OsuCommands | CommandsTypeOK, LastMapIsShown, CommandsAnswer, BoardsAreFair | any command or message, and a button or command before, after or between its steps, with one fault: the last map is the one shown last by what saves its map, a command answers unless its report is lost, boards of two pages follow their order |
| Watchers | WatchersTypeOK, OneHandlerPerMessage, StoredIsServed, RolesFollowReactions, FoundStays, CommandsReturn, NobodyStuck | one role message under two commands and restarts, two with a command on each and two threads; collectors under presses, shards and threads |
| CfScans | ScansTypeOK, RepeatsNeedAMishap, NoChangeSkipped, VerdictsAreTold, LateSaveWins, ListNeverGoesBack | rating changes over failures, a rollback or a restart; two watches or links, a contest that is postponed, results that change, failing requests |
| BufferPages | ScoresTypeOK, ItemsArePrefix, NoScoreSkipped, EveryScoreIsTold, CallsReturn | lists of up to four, pages of two, two changes, failing requests; collected scores in messages and summaries, any of which may fail |
| Pages | TypeOK, PageIsShown, ButtonsAreRemoved, FastNextMovesOn | every kind of pager, short and long, failing edits |
| Caches | CachesTypeOK, FoundIsFresh, MapsAreCurrent, SetsAreWhole, UsesAreLimited, IgnoredStayIgnored, ConfirmedIsKept | members, beatmaps, rate-limited files, ignored users and settings, each with two callers, failing requests and, where something is stored, restarts |
| OsuFailures | FailedUpdateIsCounted | violated, see [below](#where-the-code-does-something-else-than-it-says) |
| Simulate | SimulatesOnlyStd | violated, see there |
| MembersStale | AnswersAreFresh | violated, see there |


## Bounds

Sets of users, accounts, messages and so on are as small as they can be while
two of a kind can still interfere. Interchangeable ones are symmetric in the
runs without liveness.

* `MaxTime`, `MaxItems`, `MaxLinks` (OsuAnnouncer): three ticks let a score fall
  before, between and after two scans; a bug of the windows needs two scans of
  one mode. One saving of each user comes on top of the rows there are at first.
  OsuTable has no items: they do not affect the table.
  OsuEvents and OsuGaps have two ticks a second over two seconds, so that a date
  can be in the second of an update, before or after it.
* `MaxSaves` 2, `MaxFailures` 2, `MaxFaults` 1 (CfAnnouncer): a second save
  changes the handle or repeats it; a repetition needs a remembered contest and
  one after it; one rollback, failed post or restart at a time explains all that
  is checked. Failed requests for the rating changes are not bounded, so the
  failure count reaches its limit and is reset below it.
* `MaxReactions` 2 (RoleWatchers): two reactions queue behind one another in a
  handler and across an update; with one message, three handlers and two commands
  an old handler still runs while its successor starts.
* `Threads` 2, two messages (RoleWatchers): two commands, each on a message whose
  handler was not polled yet, can block both threads, and one alone cannot. These
  behaviours (`used = "threads"`) have no reactions and no two commands on one
  message, which those with one message (`"roles"`) have. A command or startup
  begins only while a handler of the bound is left for it (`HandlersLeft`): the
  bot spawns as many as it needs, and nothing waits for one.
* One contest, one coder, two watches, `MaxClock` 2, `ListAge` 0, `Grace` 0,
  `Worth` 2, `MaxTries` 2 (ContestWatch): a list is old one tick after it was
  taken, so that both calls find it too old; a watch may wait for a start, find
  it postponed or past; a coder can be rejected, succeed, and lose it again in
  the tests or by a hack.
* Two requests, `MaxTurns` 1, `MaxFaults` 1, two maps of one set (one of osu!,
  one of another mode), three members (OsuCommands): what comes second uses what
  the first has shown, in any interleaving; the maps differ in what a mode can
  override; the members have two plays with the same mods, calculated pp above
  official pp, and nothing. `MaxFaults` 1 loses a message, a
  row or a report; the board with all plays of the first map has a second page.
* Collections of ScorePosts: any two of five events in any order, a best score
  with an event, five best scores without known events, four quiet ones with one
  of another sort: none, one or two summaries, the last one short; ranks lie on
  both sides of 25, 50 and 100. The
  twins: a play that comes twice with another pp, and one that only the second of
  them beats. Two channels.
* `PageSize` 2 with up to four scores (ScoreBuffer): empty, short and full last
  pages; `MaxMoves` 2 lets the list change before and after a fetched page.
* `Batch` 50, `MaxQueue` 2, pagers of up to 256 items (Pagination): a press
  waits behind one that is handled; sizes surround 5 (the fast arrows), 50 (the
  step), a batch, and 256.
* Two paginated messages, two shards, two presses, `Workers` 2
  (InteractionCollector): as many collectors as threads, so that all threads can
  be stopped.
* `Valid` 3, `Invalid` 2 (MemberCache): in ticks, different and both shorter
  than the clock's range.
* Two loaders, two maps, two modes, `MaxVersion` 1 (MapCaches): a change before,
  between and after the steps of a call; a map is asked for in its mode or
  another. `Count` 1, one sleeper, `WaitTime` 1 (Ratelimit): one use is enough to
  be returned twice or too early. The proofs are for all of them.
* Two people, two owner commands (IgnoreList); two announcers, one role, two
  admins (SavedFiles): two settings share a file, two commands one setting.

`CHECK_DEADLOCK FALSE` appears where a run may end: a pagination that is over,
a buffer whose calls are used up, messages that have all been sent, presses and
requests that have all been handled, a clock at its bound.


## Fairness

* OsuAnnouncer: the scan loop and the loop of the mapping announcer never end
  (`AnnouncerRunner::scan`), and their requests answer or fail. Weak fairness of
  each loop as a whole; the commands and the world need none.
* Watchers and BufferPages assume the fairness of the components they hold; what
  a behaviour does not use is never enabled.
* RoleWatchers: a thread that does not stand still polls the tasks that can go
  on, and requests answer: weak fairness of each handler and of each command,
  whose steps are enabled only while there is such a thread (`ThreadLeft`).
  Nothing is assumed of a handler while every thread is in a drop. Reactions need
  none.
* ScoreBuffer: a call goes on when its request has answered: weak fairness of
  `New`, `FetchMore` and `Return`.
* InteractionCollector: a lock that is free is given to the thread that waits
  for it (weak); tasks that can run do so. `Forward` and `Fail` need strong
  fairness, since they are enabled only while a thread is free, which may come
  and go; tokio's queue is first in, first out, so a task that is ready whenever
  a thread turns free gets one. Presses are finitely many: under an endless
  stream of them a writer could wait for ever, as the lock does not promise
  that it prefers writers.


## Proofs

Proved with TLAPS for every value of the constants that meets the modules'
assumptions:

| module | theorems | inductive invariant |
|---|---|---|
| OsuAnnouncerProofs | `TypeCorrect`, `AccountsAreUnique`, `AnnouncedForLinkedAccount`, `UpdatesRespectClaims`, `NoScoreIsSkipped`, `ScoresAreNotRepeated` | `IInv == TypeOK /\ Progress /\ OneUserPerAccount`; the third adds `Collected`, the last two `CopyInv`, with `GapsInv` and `Repeats` |
| CfAnnouncerProofs | `CfAnnouncerTypes`, `CfRepeatsNeedAMishap`, `CfNoChangeSkipped`, `CfLateSaveWins`; `ListOnlyMovesOn`, `VerdictsTold`, `ContestsTypeCorrect`; `ScansTyped` | `ScansInv`: `TypeOK`, `RatedGood` and `UserGood` of each user; `WorldGood /\ CallsGood /\ ListGood /\ WatchingGood`, and `ToldGood` for `VerdictsTold` |
| WatchersProofs | `RoleWatchersTypes`, `RoleMessagesHaveOneHandler`, `StoredMessagesAreServed`, `RolesAreReactions`; `CollectorTypes`, `CollectorFoundStays`; `WatchersTyped` | `RoleMessagesInv == TasksInv /\ CommandsInv /\ ContendedInv /\ RolesInv`; `CollectorInv` |
| CommandsProofs | `CommandsTypes`, `LastMapShown`, `CommandsAnswered`, `BoardsFair` | `CommandsInv == Kept /\ RequestsGood /\ LastGood` |
| ScoreBufferProofs | `TypeCorrect`, `LengthCorrect`, `PrefixCorrect`, `NothingSkipped`; `EveryScoreTold`; `ScoresTyped` | `TypeOK /\ Progress /\ Fetched /\ HeldOrAhead`; `PostsInv` |
| PaginationProofs | `FastNextForward`, `TypeCorrect`, `PageShown`, `ButtonsGone`, `FastNextMoves` | `TypeOK /\ ShownFits /\ ButtonsAreRemoved` |
| CachesProofs | `RatelimitLimits`, `DownloadsAreLimited`, `AnswersAreCurrent`, `AnswersAreWhole`, `IgnoringLasts`; `MemberCacheTypes`, `MemberCacheIsFresh`; `SavedFilesTypes`, `SavedFilesKeepConfirmed`; `CachesTyped` | `RatelimitTypeOK /\ TokensAreKept /\ RecentAreAsleep`; `RowsAreFinal`, `LinksAreWhole`, `LoadsAreInPlace`; `Settled`; `MembersInv`; `SavedInv`; `AllInv`, all of them |
| FoldLemmas | lemmas that the others cite: least numbers, induction, folds, insertion | |

* **OsuAnnouncer, the table.** `TypeOK` alone is not inductive: that a count
  stays below its bound needs to know where a scan is (`Progress`). Uniqueness
  follows from the two checks of the store, `StoreRaced` and `StoreDuplicate`, in
  one lemma about the table (`WriteRowSafe`), which every transaction uses. That
  only the linked account is announced needs, besides, that an update collects
  only items of its own account (`Collected`).
* **OsuAnnouncer, the scan.** An action is first shown to be, for each user, one
  of twelve kinds of steps (`UserStep`, `StepsOfUsers`); every part of the
  invariants is then kept kind by kind. `CopyInv`: unless the user saved again,
  the copy of an update agrees with the row (`Fresh`), its finds lie in its
  windows (`InWindow`), and nothing handed over is after its start (`Heard`). On
  that rests `GapsInv`: what is dated in a window an update has moved past was
  found by it (`Covered`), and what a row has passed was sent (`NoGap`). The same
  copy bounds what was sent: a best score that was announced is behind the record
  of its mode, in the row and in the copy (`TopsBehind`), so a later window
  cannot have it; rank and mapping events are behind it until a request fails or
  the row changes under the scan (`RanksBehind`, `MapsBehind`).
  The proof attempt found an error in the property: `NoTopScoreSkipped` said
  nothing of the second of an update, and TLC refuted it as soon as the clock of
  OsuGaps was finer than a second. The property now says which scores are lost
  that way (`late`), and the run has the finer clock.
* **The refinement.** A step of OsuAnnouncer is a step of AccountLinks or leaves
  its variables as they are. `UpdatesRespectClaims` goes through the actions one
  by one; that a store is a `Land` uses that the update's copy has the account
  the scan read, and that the checks of the store leave it free.
* **CfAnnouncer.** `UserGood` has three parts besides the rows themselves.
  `LinkGood`: without an early save the clone's row is the stored one until the
  answers are there, and is that of the stored handle if it will be written back
  (`newer`, which stands for the comparison of two times); `CfLateSaveWins` is
  this part seen over a step. `CleanGood`: what was announced is not later than
  the last contest of the row, and what is about to be comes after it, unless a
  mishap explains it. `HeardGood`: the row has passed nothing that was not told,
  and the clone nothing that will not have been told when it is written back.
* **RoleWatchers.** `TasksInv`: a message in the map has a task of its own that
  was not told to end, though it may have ended by itself. `CommandsInv`: between
  the drop of a watcher and the next one a command is alone with its message. So
  no second handler can come into the map, and, for messages that are not
  `contended`, what is stored is served or about to be (`ContendedInv`).
  `RolesInv`: for a message nobody disturbed, the last reaction of a member in
  the queue says what the member wants, or, if there is none, the role does.
* **InteractionCollector.** A hook that found a collector reads its shard, and a
  task that removes it writes to it: `FoundStays` is inductive, together with
  the types and the count of the threads that stand still.
* **OsuCommands.** The invariant is about the steps a request has left, and holds
  for the script of every handler first (`Scripts`), then for whatever a step puts
  in its place (`FoundGood`, `OfPlayGood`, `PageStepsGood`). `Chained`: a message
  that shows the map is next to the save of the same map, in either order, and a
  page is only turned after one was shown. `LastGood`: between the two the row and
  the message differ by exactly that step (`Between`), and agree otherwise, as
  long as one request runs at a time; a message that saves nothing moves neither
  the row nor `kept`, which the row is compared with. `Owes`: a command that has told nothing yet
  still has a step that does, the report of a failure included (`Tells`), unless
  that report was lost (`unheard`). The search of a user's scores does not count
  as one: when it finds some, it says nothing itself. An error needs a proof of
  its own (`ErrsGood`, `ReportsGood`): a list that was open shows its page again, a
  hook goes on with its next link, and a command has its report left to send.
* **OsuCommands, the boards.** `BoardGood` is part of the same invariant: while
  answers arrive, `board` holds plays, and once nothing arrives, a board that was
  made is fair, and the next step says or shows it (`Answered`). Without the
  second half a step in between could take a board for something else; that only
  rankings list members and only leaderboards wait for plays is part of what a
  step of a command may be (`StepGood`). That a board is fair when it is made is
  about functions: inserting behind its equals keeps a list sorted
  (`PlacedInOrder`), sorting only rearranges it (`SortedGood`), and keeping
  the best play loses no play to a worse one (`RankedGood`), each by induction along
  the list.
* **MemberCache.** `EntryGood`: no entry is believed for longer than its time
  from when it was fetched, although the timeout counts from a time noted before
  the mutex was waited for; `CallGood`: the times a call notes are in order. The
  proof needs that an unavailable listing times out no later than one that is
  there (`Invalid <= Valid`: two minutes, fifteen), now part of the assumption.
* **SavedFiles.** `Certain` says where the value of a setting that is not
  `doubtful` is found in each state of the bot: on disk only, in the older file,
  or in memory; and that a command that saves it is alone with what it set.
* **ScoreBuffer.** `Progress` ties the next offset to the number of items;
  without it neither the length nor the prefix is inductive. `HeldOrAhead` is
  the heart of `NothingSkipped`: a score that was there at first is held, or
  still ahead of the offset; an insertion only moves it further ahead.
* **ScorePosts.** What `merge` leaves is shown first, in two inductions along the
  list (`UnbeatenGood`, `JoinKindsGood`): every play that was collected, or
  one that is nowhere worse, is there. Then `PostsInv`: a score is being loaded,
  waits for its batch, is in exactly one message to each channel (`ToldByNow`), or
  is lost, and its messages are made at one moment, when its map is there or the
  batch is complete. That the chunks share no score needs that a score is in the
  batch once (`BatchWaits`). `LastMapByNow`: a channel's last map is that of a
  message that was sent there alone, or none of those has its row.
  The proof attempt found an error in the property: it said that the play itself
  is announced with at least its pp. When a play comes twice, with another pp in
  the second answer, `merge` keeps both and then takes the first; if the second
  had beaten a third score in between, that one is represented by a message that
  shows less pp. TLC found it once the run had such a collection (`Twins`); the
  property now speaks of the play that is announced.
* **Pagination.** `ShownFits`: what is shown could be rendered again, so the
  last rendering of the same page succeeds unless its edit fails. `FastNextMoves`
  is the action property; its arithmetic is the lemma `FastNextForward`.
* **Caches.** That uses are limited is not inductive: no message may be lost or
  doubled (`TokensAreKept`), and a use that ended lately still has its task
  (`RecentAreAsleep`). MapCaches borrows through the same lemmas. What a call is
  about to store is final (`RowsAreFinal`), so no answer from a row is older than
  its question; a set is linked to all of its maps or to none (`LinksAreWhole`).
  `Settled`: a command about somebody who is not `mixed` runs alone.
* **ContestWatch.** The list is never older than the call that replaces it,
  because the fetch is made under the write lock (`ListGood`). What a watch has
  seen of a coder is an earlier result of the current one (`Later`), and what it
  told agrees with what it has seen (`ToldGood`), as long as no message was lost.

Each inductive invariant is one TLC agreed with before it was proved, on the
instances of the runs. Where an argument looks for the earliest position with
some property, it takes the least element of a set of numbers. What a fold along
a sequence computes is an induction: FoldLemmas states it for a set of numbers
instead of a claim (`UpTo`), and for a function instead of a step (`FoldExists`),
so that a prover can instantiate it; the models write these folds as recursive
functions. Both rest on the well-foundedness of the naturals.

A run composes several components. Their proof modules extend the module of the
run, and the specification of the run is the subject of `WatchersTyped`,
`ScansTyped`, `ScoresTyped` and `CachesTyped`: each step of the composition is one
of a component, and leaves the invariants of the others alone.

Every safety property of the passing runs is stated by a theorem. Not proved, and
checked with TLC only:

* liveness: `MappingEventsAreTaken`, `CommandsReturn`, `CallsReturn`,
  `NobodyStuck`. Out of this prover's reach, as is `ENABLED`.


## Where the code does something else than it says

Three runs end with a counterexample to what the repository says of the program.

* **OsuFailures.** `failures` counts consecutive failures (`osu_user.rs:13`),
  but is reset before every store (`announcer.rs:216`), so no user is ever
  disabled.
* **MembersStale.** An entry lives 15 minutes (`member_cache.rs:12`), but
  `or_insert` (76) keeps one that has expired and answers with it.

* **Simulate.** A set's page offers the simulation by the map's own mode
  (`display.rs:559`) while its link carries the mode the set is shown in, so the
  handler's assertion that the mode is osu! (`interaction.rs:202`) can fail.

Others were met while modelling. They are behaviours of the models, and the
reason why a property is stated with the exception it has:

* An osu! update in flight while its user is removed inserts the row again
  (`osu_user.rs:210`, against `commands.rs:280`): `OnlyLinkedAccountAnnounced`
  admits a user without a row.
* The mapping events of an osu! update that is skipped "due to raced update"
  (`announcer.rs:233`) stay queued, so `OnlyLinkedAccountAnnounced` speaks of
  scores only and `RepeatsNeedAMishap` excuses mapping events after a skip.
* A Codeforces save that ends between a scan's clone and the answers of its
  update is overwritten, because the clone's row then looks newer
  (`announcer.rs:85`): the mishap `early` of `LateSaveWins`.
* A Codeforces user with too many failures is logged as removed
  (`announcer.rs:55`) and stays, without the progress of the scan: `limit`.
* A reaction handled between the two steps of a role message's removal ends its
  handler, and the watcher's drop then panics (`roles.rs:638`): `CommandsReturn`
  holds, because a panic ends the command too.
* The same drop blocks its thread until the handler is polled: on one thread, or
  with as many such commands at once as there are threads, for ever. The
  exception of `CommandsReturn` is that every thread stands still (`ThreadLeft`).
* `/osu score` sends a score with its buttons and saves no map
  (`commands.rs:765`), so "the last seen beatmap" (`server_rank.rs:374`) is then
  another one; neither is that of a simulated score or of a save's prompt:
  `SavesNothing` in `LastMapIsShown`.
* The report of a failure is sent and forgotten (`main.rs:281`, `main.rs:460`):
  when it is lost, or goes to an interaction that has expired, nobody is told.
  `CommandsAnswer` admits it as `unheard`.
* Two commands on one role message interleave without an order: it may end
  stored without a handler, for instance (`roles.rs:531`). That is why
  `StoredIsServed` leaves out the messages in `contended`.
* A closure with a page count is asked for pages it does not have, and its fast
  arrow has no length to count with: both panic (`hook.rs:195`,
  `pagination.rs:338`, against the comment at 119). The phase is `panicked`.
* The hook keeps a lock of the collectors' map across an await
  (`interaction_collector.rs:89`): when the map stops every thread there is,
  nothing goes on, which is the exception of `NobodyStuck`.
* `merge` first drops a score that is nowhere better than one before it in its
  map's list (`announcer.rs:290`), and joins the kinds of one play only after
  (312): the event of a play that is also a best score is dropped, and with it
  its place on the map's leaderboard, so a play at 26 of the user and 1 of the
  map shares a quiet summary. `EveryScoreIsTold` says that it is told, not how.
* The batch is sorted by date (`announcer.rs:389`) and its maps then arrive in any
  order (417). The row is stored before anything is posted: a restart in between
  loses the posts, which `RepeatsNeedAMishap` does not call a repetition and
  `NoTopScoreSkipped` counts as announced.
* The files of unranked maps are cached like those of ranked ones
  (`oppai_cache.rs`), so a mapper's change never reaches the computed pp:
  `MapsAreCurrent` speaks of maps and sets only.
* Two commands about one user leave the ignore list different in table and
  memory until the next one, or a restart (`ignore.rs:126`): `mixed`.
* A YAML file that cannot be written is only printed (`youmubot-db/src/lib.rs:88`):
  `unwritten` of `ConfirmedIsKept`. The older list of roles is removed even when
  the write of the new one failed (`db.rs:53`), and a stop between the making of
  the new file and the write loses the list, since the new file is then found.
* Two callers that find the contest list too old fetch it one after the other
  (`cf/hook.rs:97`). A contest is never fetched again once its problems are known.
* A watch panics when the list it read is from before a postponement
  (`live.rs:127`), and one that finds its contest postponed ends without a word;
  a finished contest whose last scan fails ends with the table of the scan before.
  Messages that fail are not sent again: `lost` of `VerdictsAreTold`.
* The arithmetic of a simulated play wraps or panics when more judgements are
  given than the map has notes (`interaction.rs:275`).
* The prompt of the save command links the map of the play it asks for without
  its mode (`/b/{id}`), and the last rendering of a list saves again what was
  shown: the scripts say so.
* `do_server_ranks` unwraps a date that a member without modes does not have
  (`server_rank.rs:167`); ranked-only boards by score keep the play with the
  higher pp (549).


## What is not modelled

Regular expressions, argument parsing, embeds, tables and all other formatting;
conversions between data types (`models/`); random choices and pictures
(`fun/`, of whose lines most are lists of names); calls that only pass something
to Discord (`admin/`, `toggle`); the SQL pool and migrations, which run before
anything else. None of them keeps state. Votes end at once: the time limit is
around a future that is ready (`votes.rs:119`), so there is no collection of
votes to model. In the parts that are modelled, what a score, message or member
contains is left out, and a transaction of sqlite is one step. A YAML file is
written in one step, too: if rustbreak lets another save in between reading the
data and writing the file, an older state could be written last, which
SavedFiles does not show.


## Plan

What the models do not answer yet:

1. `SaveFlow`: `handle_save_respond` over the collector, with the timeout that
   starts again at each press, composed with the saved users.
2. `InteractionDispatch`: all hooks see one interaction (`main.rs:126`), one
   response is accepted.
