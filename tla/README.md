# mind_craft in TLA+

mind_craft runs Minecraft servers and lets the members of a Discord guild manage them.
`sv_manage` is a daemon with one thread per game server; `mcayb` is the Discord bot that
talks to it over one encrypted connection per request; `yapper` holds what they share
(packets, config files, the parser of mods); `spam` is a small HTTP server for zips of
mods. This directory holds a model of it: modules checked by TLC on small instances, and
proofs checked by TLAPS.

Source lines are given as `file:line` of the file's name; the table `map` in
`PROJECT.json` gives the lines of every definition.

## Inventory

| Component | State | Operations | Interacts through |
|---|---|---|---|
| Supervisor thread (`server_loop.rs`: `server_main`, `start_server`, `cleanup`) | place in its loops, the game process, RCON, `Shared::status`, the command in hand, deferred work | idle loop, game loop, every `Command`, start, reboot, stop | atomics `should_run` and `reboot_queued`, two mpsc channels, NOTIFICATIONS |
| Client threads (`client_loop.rs`, `Server::start/stop/reboot/send`) | one request each | toggles, admission on the status, send and wait five seconds | the mutex around the client's channel ends, the config |
| Files (`server_loop.rs`, `sv_fs.rs`) | working folder, `.bak`, mods folder, mods cache, zip and their flags | backup, restore, list, install, update, uninstall, zip | the disk; the flags are in `Shared` |
| Notifications (`server_loop.rs:74-108`, `client_loop.rs`, `bot.rs:1582-1672`) | a queue per account, the bot's messages | `push_notif`, `replace_notif_if`, `get_notifs`, showing | one global mutex, one request per second |
| Polls (`bot.rs:1715-2042`) | `GuildData::polls`, Discord's messages and votes, temporary files | `create_poll`, `check_poll`, `poll_deleted`, start-up check | tasks, the config, events of Discord |
| Mod downloads (`process_mods.rs`, `bot.rs:1675`) | slots of an `AllocVec`, temporary files | download, parse, hand over to `guild_loop` | a mutex around the slots |
| Server list events (`bot.rs:1600-1630`) | `last_status` | announce created and deleted servers | config |
| Config store (`yapper/conf.rs`) | the parsed config, the file and its position | `init`, `with_config`, `with_config_mut` | a lock, the disk |
| Questions about mods (`resolve_deps`, `list_mods_paged`, `query_mod`, `mod_parser.rs`) | none | resolve, page, look up, read the metadata of a jar | the mods folder; asked by the bot |
| Menus (`bot.rs:38-146`, `:444-821`, `:948-1267`) | `MENUS`: the histories that ids of buttons stand for | show a menu, press, send a form | Discord, commands to `sv_manage` |
| Assets (`spam`) | files by uuid | post, serve once | HTTP, the disk |
| Packets (`yapper/lib.rs`, `comm.rs`, `ctxt.rs`) | a session per connection | handshake, one request | TCP |

What is hard here. *Interleaving*: atomics, a config under its own lock and two channels
without ids are shared by many client threads and one server thread; the bot's tasks
interleave at every `await`. *Stale reads*: a status or a poll is looked at, then used
some awaits or a channel later. *Failure half way*: backup, restoration and update
delete before they copy. *Timeouts*: a client that gives up leaves its command, and
later its answer, behind. *Loss*: a queue is emptied before its answer has arrived.
*Crashes*: only the config and the disk survive. *Locks taken twice*: the callback of a
restoration. *Errors nobody hears of*: much of the code is `let _ = ...`, for writes of
the config and for calls to Discord, or `Err(_) => continue`. *A game that does not
answer*: RCON and the pipe have no timeout. `PROJECT.json` lists the hazards by line
with the properties that look at them.

What makes each part correct:

- Supervisor: exclusive work and a game never share the folder; wishes of users are not
  applied to a later game, and are lost only where that can be named; the status is true
  but for two cases; stops, reboots and starts take effect while the game answers.
- Channels: answers in order, nothing astray without a timeout.
- Files: a whole copy of the data survives; what is remembered about the mods is what is
  on the disk, but for jars that can be named; no mod twice that a list has shown.
- Notifications: status changes arrive whole, in order and in the end, unless one was
  lost or its message refused; progress does not pile up and does not outlive its work
  on the screen.
- Downloads: slots and temporary files have one owner, and each download ends in one
  poll or one error.
- Config: what was acknowledged is read, by this process and the next one; the file is
  never read half written.
- Questions about mods: dependencies are declared satisfied exactly when they are, but
  for what a union of ranges says; turning pages shows every mod.
- Menus: an id stands for a way the pages offer and keeps its meaning; nothing is
  carried out that was not asked for.
- Polls: a poll takes effect at most once, has its file while it can still win, and
  leaves the config when it is over, and only then, as long as tasks do not overlap and
  the config can be written.

## Modules

`ServerLoop` is the supervisor of one server with its clients. An action is one step of
one thread between two accesses to state another thread can see, so `Toggle`, `Persist`
and `Mark` are the three stores of `reboot`, and the thread's `pc` is its place in the
nested loops: `CheckRun`/`Poll`/`BeginWork`/`EndWork` are the idle loop with its
deferred work, `Enter` to `Leave` is `start_server`, and `exec`/`modding`/`reply` are
the command in hand, with `site` telling which loop took it. A command is told apart
only by how it moves the thread, the status and the channels: `Read` stands for all that
only look (list, paging, dependencies), `Mods` for install, update and uninstall. A
toggle changes the config in memory (`running`) and then its file (`saved`); the write
can fail, which the code ignores, and any later write of the config (`ConfigWritten`,
for another server) makes up for it. `Failing` says which system calls of the daemon
fail: that write, `path()`, `spawn` and `try_wait`. In `Calls` the thread waits for the
game without a timeout: `GameHangs` takes it there from an attempt at RCON, a console
command or a line "stop" into the pipe, and only the game takes it out again
(`GameAnswers`). Answers in `resps` carry the id of the command they answer so that
properties can speak of it; the code has no such id and no action reads it. History
variables (`abandoned`, `freshReboot`, `intent`, `raced`, `modTouched`, `startFailed`)
are written, and read by no guard; `unsaved` is read by `ConfigWritten` alone.

`WorldOwner` is the abstract specification: one owner of the folder, a game or one
activity at a time, mods beside a game allowed. `ServerLoop` implements it under `gameUp
<- child = "alive"` and `activity <- Activity`.

`ServerFiles` is what the commands do to the disk and to the flags about it, one action
per group of system calls that can fail separately, with the daemon dying between any
two. It does not interleave commands: `ServerLoop` shows that one thread runs them, and
the toggles do not touch files. A folder is `missing`, `partial` or `whole`; a jar is
the mod id in it, and the names it can get are its preferred one and one variant, as in
the code, whose search stops at the second. A list made anew may pass over any jars
(`Listing`), which counts as one failure; it is kept like a complete one. Two history
variables say by what the memory may err: `lost` are the jars that have gone from the
folder without a flag being reset, `unseen` the mods of which a list has passed over a
jar.

`Notifications` composes the queue, the threads that push into it and the bots that
empty it. A thread is there only with its statuses and what it has still to push, in the
code's order (`Idle` before the outcome). `open` are the messages the bot edits, under
the group names the bot uses. Four things are lost at times: an answer with all that was
taken out of the queue, a message that Discord refuses (`Refused`, which nobody
repeats), what the bot had in hand when it died, and with the daemon queues, threads and
the mutex. `told` is the status that was last shown, `unseen` the servers with a later
one whose message was refused.

`Polls` has one action per stretch between two awaits of `create_poll`, `check_poll` and
`poll_deleted`; Discord is the environment: it keeps messages and votes and delivers
events, once, in any order, and takes votes back in silence. A request of the user and
its message and file share a number. The polls are in the config in memory (`tracked`)
and in its file (`saved`); each change ends in `Flush`, which may fail and leaves the
memory changed, and a restart begins from the file. `create_poll` takes a failed flush
for a failed request and drops the poll's file, while the poll stays in memory.
`check_poll` removes the key twice (`CheckForget`, `CheckAgain`) and lets go of the
config in between; `squeezed` are keys a poll of which was stored there, `unwritten` the
polls whose storing or removal did not reach the file. Members that cannot be listed are
not counted, so that a quorum may be anything below the right one, down to nought.

`ModPipeline` is the download of mods before a poll is asked for. A task (`Allocate` to
`Publish`) keeps its state in a slot; `LoopBegin`, one `Visit...` per slot and `LoopEnd`
are a round of `guild_loop`, which holds the mutex of the slots all the time, while
tasks go on with what needs no mutex. The hand-over to `create_poll` is
`VisitProcessed`, with the three things `Polls` shows can happen to the file. `message`
and `orphans` are what Discord shows, not what the bot believes: calls about messages of
the servers in `Unreliable` may be refused, which leaves an old text standing
(`refused`), and `delete_msg` and `clear` forget a message whether it is gone or not.
One life of the bot is modelled.

`ConfigStore` is `yapper/conf.rs`: `Change` takes the write lock and changes the memory,
and `SetLen`, `SeekStart`, `WriteAll` and `Acknowledge` are the calls after it, each of
which can fail (`Fail`, which is the `?`: the memory keeps the change) or be the last
before the process ends (`Crash`). A configuration is one value per kind of writer,
which is what tells a lost change from an overwritten one. An empty file or a part of
one is `Torn`: it does not parse, and the process does not start. `AtomicConfig` is what
callers rely on: a configuration that changes at once, and survives whatever happens
while no change is under way or has failed. `ServerLoop` and `Polls` take a write of the
config as one step that is made or fails; what they leave to this module is a write that
fails or ends half way in the file, from which no process starts again.

`ModRules` holds, as operators, what is decided without changing anything: the bounds
read from a range of versions, which jars are read at all, how a page is cut and how
dependencies are resolved. `ModQueries` asks them, with the folder changing in between,
and lets one reader turn pages. `opened` are the jars of the folder that could be read
when the list was made; the others are passed over. A range is kept as written; a union
of ranges, which has more than one comma, is told apart by its form and by the places of
the two texts it is split into, which mean no version its author named. A version is its
place in the order of `ComparableVersion`, 0 the empty one; `Width` is where a `usize`
wraps around.

`Menus` is the bot's buttons. `MENUS` is a set of ids; an id carries the history it was
drawn for and the life of the bot it was drawn in, since the numbers are random and
never meet. A press is a step that sends its command (`PressPage`, `PressAction`,
`SendForm`) and a later one that changes the message (`Answer`); `Show` lets `sv_manage`
answer anything, and `Put` lets the change of the message fail. A press whose handler
reads an argument that is not there is a step too (`PressPanics`), and `died` records
it. A button keeps, as history, what it was shown for; no action reads that.

`MC*` modules give the constants of the runs. Operators marked *variant* are plausible
mistakes in the operator they precede or follow; no specification uses them, they serve
to show that each property can fail.

## Runs

| Run | Question | Bounds |
|---|---|---|
| `server_world` | Are game and exclusive work apart, reboots fresh, wishes durable, statuses true? | 2 clients, 1 command of any kind but `Read` in any state, all toggles, 1 failing call or write, 1 crash |
| `server_live` | Do stop, reboot and start take effect, is `WorldOwner` implemented, what can come out of the channels? | 1 client, 2 commands of any kind but `Restore`, all toggles, 1 failing call; the game may leave any call unanswered |
| `server_files` | What of the disk and the flags survives failures and a crash? | 3 mods, 1 name (2 files), 3 failures, skipped jars among them, 1 crash |
| `notifications` | Is what the bot shows a consistent history, and is every lasting status shown? | 2 servers of one account, 2 changes among all works and a running game, 1 answer, message, bot or daemon lost |
| `restore_hangs` | Does a restoration end? (It does not.) | 2 accounts, 1 restoration |
| `polls` | Do overlapping tasks count, apply and forget polls correctly? | 1 key, 2 requests, 2 tasks, 1 voter, 1 failing call or write, 1 restart |
| `polls_live` | Does a finished or deleted poll leave the config, across a restart? | 1 poll, 2 tasks, 2 voters, 1 vote taken back, 1 restart, no failing call |
| `mods` | Do slots, files and messages of downloads have one owner, and is each reported once? | 3 downloads for 2 servers, 2 slots, 2 file names; messages of one server may be refused |
| `config` | What do readers get after failures and crashes, and is a change atomic? | 2 writers, 2 values, 2 failing calls, 2 crashes |
| `menus` | Do ids, buttons and commands mean what they should, whatever is pressed when? | 2 servers, 2 mods, 1 message, 2 pages, 5 presses, 1 restart |
| `mod_rules` | Are questions about mods answered right, and does turning pages show all? | 8 jars of 3 mods, 1 of the folder passed over, 4 sizes and 5 numbers of pages, 6 turns, batches of 2, all modes |
| `poll_deleted` | Is a deleted poll overwritten by a new request? (No.) | 2 requests |

Why the bounds suffice. The thread handles one command at a time and no command leaves
anything in the thread but the status and `modTouched`, so one command in every state of
thread, flags and status shows the pairs that matter; in the channels two are enough for
an abandoned answer to meet another command. `Read` moves the thread like `Mods` that is
refused, and `Restore`, which in the thread may hang for ever, would only stop what
`server_live` asks about; the other run of `ServerLoop` has it. Two clients overlap as
three do. Two failures make a torn copy and the failed repair of it, or a mod installed
twice because a list passed over it, and the third is one more on top. Three mods under
one name fill both files of it and leave one to collide; jars of different names do not
meet, except one whose own name is another's variant, which is left out. Two servers are
needed for progress to be replaced across servers, two changes to have an old and a new
work in one queue. Two tasks overlap; two requests are the old poll and the new; one
voter can already make a vote and the end of a poll coincide, and two make half of the
votes not enough. Three downloads reuse two slots and two names, and two of them share a
message. Two writers are one who is told that his change is kept and one who fails at
his. Five presses go from the dashboard to a mod and press there, or go back, forward
and back again; one message is enough since ids, not messages, hold the state that
presses share, and a handler can be late for it. The eight jars hold an absent range,
single ones, pairs with either side left out, a union, and one in no brackets, a mod
that is not read, a version that is empty, and mods that need each other in versions
that exclude each other; with at most five mods in the list, pages of one to three end
before, at and after its end, and `Width = 16` lets numbers of pages overflow.

Counters that would be unbounded (`nextId`, `faults`, `crashes`, `changes`, `losses`,
`restarts`, `unvotes`) stop at `MaxSends` or `MaxPolls`, `MaxFaults`, `MaxCrashes`,
`MaxChanges`, `MaxLosses`, `MaxRestarts` and `MaxUnvotes`, the jars a list passes over
in `ModQueries` at `MaxSkips`, `presses` at `MaxPresses`, the pages a reader turns at
`MaxTurns` and those of a menu at `MaxPage`; timeouts need no bound of their own, since
each uses up a command. Deadlock is checked in the runs of `ServerLoop`, `ModPipeline`
and `ModQueries`. It is not in the others: there the bounded environment comes to rest,
or a thread is stuck where the code is (the search for a free name, the callback of
`Restore`).

Symmetry is used for clients, mods, servers and tasks, in safety runs only.

## Fairness

- `ServerLoop!FairSpec`: weak fairness of the thread as a whole. The operating system
  schedules it, copies of finitely many files end, and `cleanup` gives up after five
  minutes. Three places do block on the game: connecting to RCON and logging in
  (`server_loop.rs:1012-1015`), a console command by RCON or into the pipe (`:1097`,
  `:1101`), and the line "stop" into the pipe (`:1075`), none with a timeout. The thread
  is then in one of `Calls`; `GameAnswers`, which takes it out, is no step of the thread
  and gets no fairness. `Hung` is one of these or the search and the callback that never
  end, and `StopHonoured`, `RebootHonoured` and `StartHonoured` except it: they say that
  nothing *else* keeps a wish from taking effect. The same holds of what `WorldOwner`
  demands, that copies end, which no call into a game delays. Two things are taken for
  granted: the upload of a zip ends (its client has the default timeout of thirty
  seconds), and no other server of the daemon is stuck in the callback of `Restore`,
  which would keep this thread from pushing notifications (`restore_hangs`). Nothing is
  assumed of the clients or of choices inside the thread: a client may toggle for ever,
  so the liveness properties say what happens to a wish *unless it is taken back*.
- `Notifications!FairSpec`: weak fairness of each thread's pushes and of the end of each
  work, and of each bot, which asks every second. `Callback` gets none. When the mutex
  is taken for good, `StatusShown` says so (`Hung`).
- `Polls!FairSpec`: weak fairness of each task and of the delivery of events. The
  runtime polls every task; that Discord delivers is an assumption about a service, and
  a restart still loses what was on its way. No call fails in this run: after a failed
  fetch (`bot.rs:864`, `:1914`) a poll waits for another event or a restart.
- `ModPipeline!FairSpec`: weak fairness of the rounds and of `Parse`, strong fairness of
  `Publish`, because tokio's mutex serves waiters in order. A download has none: its
  request has no timeout. That rounds go on assumes that `sv_manage` answers:
  `send_command` blocks without a timeout (`comm.rs:27`), and a daemon stuck in the
  callback of `Restore` stops the rounds too.

## What the runs found

1. `restore_hangs`: the progress callback of `Restore` locks `NOTIFICATIONS` and calls
   `replace_notif_if`, which locks it again (`server_loop.rs:349`, `:94`). The folder
   has been deleted by then; the thread and the notifications of all accounts hang.
2. `poll_deleted`: the comment at `bot.rs:1726` says that a deleted poll is overwritten;
   the code refuses the new one.

What is known without a run of its own, because no doc says otherwise:

- Answers carry no id, so after a timeout the next client takes the abandoned command's
  answer and everyone after it the previous one's (`server_loop.rs:219-228`);
  `StrayOnlyAfterTimeout` shows that only a timeout starts this.
- `start` and `stop` answer Ok whether the config was written or not
  (`server_loop.rs:202`, `:209`): the wish is obeyed, and a crash brings the old one
  back unless the config was written again since.
- A start that fails at `path()?` after it was announced leaves the status `Starting`
  until something else is done (`server_loop.rs:993`).
- `list_mods` passes over a jar that it cannot open, read or parse, and keeps the
  shorter list (`server_loop.rs:434`, `:520`): the mod is taken for missing and can be
  installed a second time.
- After a poll was applied the bot reboots the server unless it is idle (`bot.rs:2049`),
  but `install_mod` and `uninstall_mod` have just set the status to `Idle` beside the
  running game: the game goes on without the change.
- A poll that was stored but could not be written loses its file and stays tracked
  (`bot.rs:1826-1838`), so that it can be won and not be carried out.
- `check_poll` removes the key twice (`bot.rs:1957`, `:1960`): a poll stored between the
  two is forgotten, although no other task had to do with the older one.
- A failed listing of the members makes the quorum nought (`bot.rs:1930`).
- A message about a status that Discord refuses is never repeated (`bot.rs:1652`), and a
  status message of a download that could not be deleted stays for ever (`bot.rs:1293`).
- A union of ranges is split at its first comma (`mod_parser.rs:386`), which makes a
  version out of the text `2),[3,4`; `(,x]` is read as excluding the empty version,
  because `mod_parser.rs:394` compares with `[`.
- The menu of `/mods` is made with one argument (`bot.rs:317`) and read with two
  (`:996`), so that Refresh on it panics.
- A process that ends between `set_len` and `write_all` (`conf.rs:66-70`) leaves a file
  that it never starts from again.

Properties that hold only with an exception name it. The exceptions are: different
wishes that overlap (`raced`) and a failed write of the config (`unsaved`); `Idle`
beside a game that a mod command has touched, and `Starting` after a failed start; the
endless search for a free file name, the callback of `Restore` and calls into a game
that does not answer; a torn folder that is backed up over a whole backup; jars that a
restoration or an update has taken away unnoticed (`lost`), and jars passed over
(`unseen`); notifications lost with an answer, the bot or the daemon, and messages that
Discord refused; two tasks that overlap (`overlapped`), a poll stored between two
removals (`squeezed`), and polls that did not reach the config's file (`unwritten`); the
menu of `/mods`; a bare parenthesis and unions; pages turned while a mod is removed or
added; numbers of pages that overflow.

## Proofs

`ServerLoopProofs` proves, for any set of clients, any subset of commands and wishes and
any bounds:

- `TypeCorrect`: `Spec => []TypeOK`. `TypeOK` is inductive as it stands, since it says
  that a command is in hand wherever one is used.
- `WorldExclusive`: `Spec => []WorldExclusion`. The property is not inductive: where the
  thread serves commands (`exec`, `modding`, `reply`), whether a game is there depends
  on the loop that took the command. `WorldInv` adds that at those places `site =
  "game"` exactly when a game is supervised, so that `Defer`, which needs the idle loop,
  finds none. A call that a game has left unanswered is a place of the thread like
  others, so `ServerStep`, the thread's step or the game's answer, is what the lemmas
  are about.
- `StatusIsHonest`: `Spec => []StatusHonest`, which speaks of every status. `StatusInv`
  adds, for the places that need it, the status that holds there, so that a place the
  thread goes to next finds what its predecessor left; an error after the announced
  start, and the mod commands that return early, with or without an update of the
  status, are among the steps.
- `SupervisorOwnsWorld`: `Spec => WO!WOSafety`, the safety part of the refinement: each
  step, under `WorldInv` and `StatusInv`, is a step of `WorldOwner` or leaves it alone.

- `RebootsAreFresh`: `Spec => []NoStaleReboot`. `RebootInv` drops the place of the
  thread: a queued reboot is fresh everywhere, which is what the clearing of the flag at
  an announced start gives.
- `WishesAreDurable`: `Spec => []IntentDurable`. `IntentInv` adds what a wish has stored
  when only some of its stores are made, that without a race all wishes under way are
  the same, and that memory and file of the config differ only after a failed write.
- `AnswersKeepOrder`: `Spec => []AnswersInOrder`. `ChannelInv` adds that all ids in the
  channels are below `nextId` and that whoever holds the mutex waits for the last id
  given out. To the channels every step of the thread is one of three: it takes a
  command (`Takes`), answers the one in its hand (`Replies`) or leaves them alone
  (`Leaves`).
- `StrayNeedsTimeout`: `Spec => []StrayOnlyAfterTimeout`. The property speaks of the
  first answer only; `StrayInv` says of everything in flight that it is awaited or was
  sent no earlier than a command some client gave up on. When a client takes a stray
  answer, what it leaves behind was sent later than that answer, by `AnswersInOrder`.

`ServerFilesProofs` proves, for any mods and names and any number of failures and
crashes, everything the run `server_files` checks:

- `FilesTypeCorrect`: `Spec => []FilesTypeOK`.
- `CopySurvives`: `Spec => []WholeCopySomewhere`. `CopyInv` adds that the source of a
  copy is whole, or known to be torn, from the moment its target is cleared.
- `BeliefsAreRight`: `Spec => []MemoryHonest`, which is inductive as it stands once it
  says by which jars the memory may err: a list made anew errs only by jars passed over
  (`ListErrs`), and whatever takes a jar away either resets the flags or puts it among
  `lost`.
- `ModsAreUnique`: `Spec => []NoModTwice`. The check for a duplicate reads a list that
  may be stale, so the proof uses in which direction `MemoryHonest` lets it be wrong.
  `ListInv` adds that no mod is in the list twice, unless a jar of it was passed over
  (`CacheUnique`), and that a mod whose update is between removal and rename is in no
  file (`UpdateInv`), which is where `NoModTwice` itself is used.

`ModPipelineProofs` proves, for any downloads, servers, names and number of slots,
`ModsTypeCorrect`, `SlotsAreOwned`, `FilesAreAccounted`, `ReportsOnce` and
`StatusHasReason` (`StatusHasDownload`). None of the first four properties is inductive
alone, and they need each other: one invariant, `ModsInv`, is their conjunction with
four more parts. `SlotsKnown`: a slot in use was given to the download in it.
`RemoveDone`: what a round will free is over and was visited. `ReportedDone`: a download
that was reported has no slot but one about to be freed, so that no later round reports
it again. `NamesKnown` and `OwnersApart`: a download has a file exactly between its
request and the hand-over, and polls and abandoned files are apart. It has one lemma per
action. `StatusInv` carries `StatusHasDownload` through a round: a message that says
"status" has a slot that the round is not going to free, unless Discord has refused to
change it, and messages nobody edits any more (`orphans`) are all of servers of which it
has.

`PollsProofs` proves all of the run `polls`, for any keys, tasks, members, failures and
restarts: `PollsTypeCorrect`, `PollsApplyOnce`, `TrackedKeepFiles` and
`ForgottenByOverlap`. The invariant says who may still touch a poll. `Creators`: only
the task that creates a poll knows it, and it is not in the config yet. `Decided`: a
task that weighs the votes, or is between its two removals, has taken the poll out;
`Between`: the key is still free there, unless a poll was squeezed in. `Holds`: a task
on its way there finds its poll in the config, unless two tasks overlap or a poll was
squeezed in, and `Apart` says that tasks for one poll do overlap. `Written`: where the
config's file differs from the memory, both polls are among the `unwritten`, so that a
restart brings back no other. `Spent`: the jar of an applied Install poll is gone, and
an applied Remove poll without overlap is out of the config and of everyone's hands.
Actions that only move tasks on share one lemma (`WorkGoesOn`).

`NotificationsProofs` proves all safety of the run `notifications`, for any servers,
accounts, kinds of work and losses: `NotificationsTypeCorrect`, `ChangesInOrder`
(`StatusChain`), `ProgressBounded` (`OneProgressPerKind`) and `MessagesAreClosed`
(`MessagesSettle`). The first lemmas are about `Leads` alone: the way from one status to
another along a queue is composed by `\o`, extended by a push of that server, cut by
taking the head, and kept by whatever another server or a progress does to the queue.
What a message that is refused leaves behind is the same chain with something handled
that was not told; a restart of the daemon puts every account among the `lost`.
`Shutting` is what `MessagesSettle` needs: what opens a message is followed, on its part
of the way or on a later one, by what closes it.

`ConfigStoreProofs` proves everything the run `config` checks, for any writers and
values and any number of failures and crashes: `ConfigTypeCorrect`, `ReadsAreDurable`,
`AcknowledgedSurvives` and `StoreIsAtomic`, the refinement of `AtomicConfig`. The
invariant says what the file holds at each place of the writer (the old configuration
until `SetLen`, nothing until `WriteAll`, then the memory) and that the position is at
the start when it writes; `AcknowledgedSurvives` needs that what is kept differs from
the memory only in the part of the writer at work or one that was told of nothing.

`MenusProofs` proves what the run `menus` checks, for any servers, mods, messages,
presses and restarts: `HistoriesAreWays`, `ButtonsKeepMeaning` and `CommandsAskedFor`.
The argument is one about menus: every button of every menu leads from a well-formed
history to another (`MenuGood` and its companions, one per menu), because `ExitPage`
cuts a way at a page and a part of a way is one. A press that panics is at the page that
`/mods` shows (`PanicsOnlyAtMods`). The invariant adds that what is shown, awaited or
open stands for an id of its life.

`ModQueriesProofs` proves what the run `mod_rules` checks, for any jars, sizes and
numbers of pages, batches and turns. First come two facts about operators, for versions,
lists and pages of any size: `RangesMeanWhatTheySay`, which says of each text the parser
accepts which versions its bounds admit, and for a union that they are those of the one
pair it is taken for, and `PagesAreCutRight`. The rest needs to know what sorting
yields. The model sorts without recursion: the mod at place `i` is the one with `i - 1`
smaller ids. So no induction is needed, only counting: the rank of an id in a finite set
of ids grows with the id (`RankOrder`) and with the set (`RankGrows`), and every number
below the size of the set is the rank of exactly one id (`RankOnto`, since an injection
between finite sets of one size is a bijection). Hence the list is complete and has one
place for each id (`ListedFacts`, `ListedHas`), and a page holds just the ids whose
ranks are on it (`PageFacts`).

- `ReadersSeeAll`: `Spec => []WalkSeesAll`. The property speaks of a reader who is
  through (or of one whose list held still); `WalkInv` says of every reader, between any
  two pages, that he saw what was listed all the while and has a rank on the pages
  turned, unless a mod went, and only that, unless one came. A mod that comes only
  pushes others to later pages and one that goes only pulls them to earlier ones: this
  is `RankGrows`, and why `came` and `gone` excuse one half of the property each. The
  pages turned never exceed the mods there can be, so the bounds of his next page do not
  overflow.
- `AnswersAreRight`: `Spec => []AnswersRight`. It rests on the folder having one jar of
  a mod (`FolderInv`). For `ResolveDeps`: a list that holds one place for each jar of a
  set (`Lists`) finds just these jars (`FindsJars`); the list `resolve_deps` looks at is
  such a list of the folder as the change would leave it, in each of the three modes
  (`InstallationLists`, `RemovalLists`, `UpdateLists`); and in such a list nothing is
  unmet just if the set is complete as the texts are read (`UnmetIsIncomplete`, by
  `RangesMeanWhatTheySay`), which is what they mean as far as no union is among them
  (`ReadIsMeant`). The set is that of the jars that could be opened when the list was
  made.

The assumptions are those the modules name: `Nobody` is no client, `NoMod` no mod,
`NoName` no name and `NoDownload` no download; `Requests`, `Wishes` and `Failing` are
among the known ones; each download has a server and each server an account; jobs and
quiet statuses are among those the code has; the default is among the values, and the
marks `Torn`, `Absent` and `Unsure` are none; reserved mods are mods; the bounds are
natural numbers. For `ModQueries`: the list always has one `minecraft` and one `forge`,
which can be read, since `list_mods` fails without them, and no jar of the folder takes
their ids; jars hold what `ModInfo` holds, and ranges of any form, unions among them;
sizes of pages are below the width of a `usize`, and so is twice the number of mods,
which no machine would have the memory to break (`SizeAssumption`). The runs evaluate
all of them. The proofs of `ServerLoop` have one step per action of the thread; the
clients are handled by one lemma, which says that they leave thread, status and game
alone.

Only model-checked: liveness (`StopHonoured`, `RebootHonoured`, `StartHonoured`,
`StatusShown`, `PollsResolve`, `DownloadsReported`, and with it the fairness part of the
refinement), which is out of the prover's reach; and that the two disagreements are
reached. Every safety property of a passing run is proved.

## Plan

In this order:

1. `ServerLoop`, `WorldOwner`, `ServerFiles`, `Notifications`, `Polls`, `ModPipeline`,
   `ConfigStore`, `AtomicConfig`, `ModRules`, `ModQueries`, `Menus` — done.
2. Proofs of every safety property the passing runs check — done.
3. `ServerEvents`: `last_status` and the announcements of `guild_loop`; `SpamAssets`.
4. `Polls` extended with `reboot_server`.

## Not modelled

- The contents of answers, packets, logs, embeds and jars: no property is about them.
- Encryption and login: one exchange on a fresh connection; for the models it means that
  an answer can be lost.
- What RCON replies and the game prints: that a reply may never come is modelled. How
  `server.properties` is read: `Spawn` finds RCON enabled or not.
- How long a killed game lives on after `kill()`, and a game orphaned by a crash of the
  daemon: the code does not see either.
- Slash commands whose answer has no buttons: each sends one command of a kind `Menus`
  and `ServerLoop` have, and keeps nothing. Autocompletion and the look of menus.
- Reading TOML and zip, the two dialects of `mods.toml`, and logos: pure parsing.
- `Shared::wait_for`, which nothing calls.
- Restore polls, which no code creates, and `reboot_server` after a poll was applied.
- A restart of the bot in `ModPipeline`: its slots and messages are gone with it, its
  temporary files stay.
- The parts of the plan that are still to be written; `PROJECT.json` says so for each.
