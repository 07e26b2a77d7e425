----------------------------- MODULE ServerLoop -----------------------------
(***************************************************************************)
(* The supervisor of one game server in sv_manage (server_loop.rs): the    *)
(* thread of server_main, the game process it spawns, and the client       *)
(* threads of client_loop.rs that reach it, either by storing into the     *)
(* atomics should_run and reboot_queued or by sending a command through    *)
(* the pair of mpsc channels behind Server::send.                          *)
(*                                                                         *)
(* One action is one step of one thread between two accesses to state that *)
(* another thread can see.  What a command does to files is left to        *)
(* ServerFiles; here a command is told apart only by how it moves the      *)
(* thread, the status and the channels.                                    *)
(***************************************************************************)
EXTENDS Integers, Sequences

CONSTANTS Clients,     \* connections served at the same time
          Nobody,      \* "the comm mutex is free"
          Requests,    \* the kinds of commands the clients send
          Wishes,      \* which of start, stop and reboot they ask for
          MaxSends,    \* bound: commands ever sent to the thread
          Failing,     \* which system calls of the daemon fail at times
          MaxFaults,   \* bound: how often they do
          MaxCrashes   \* bound: crashes of the daemon

AllRequests == {"Console", "Backup", "Restore", "Zip", "Mods", "Read"}
Toggles     == {"Start", "Stop", "Reboot"}
SystemCalls == {"write", "path", "spawn", "wait"}

ASSUME NobodyAssumption  == Nobody \notin Clients
ASSUME RequestAssumption == Requests \subseteq AllRequests
ASSUME WishAssumption    == Wishes \subseteq Toggles
ASSUME FailAssumption    == Failing \subseteq SystemCalls
ASSUME BoundAssumption   == /\ MaxSends \in Nat
                            /\ MaxFaults \in Nat
                            /\ MaxCrashes \in Nat

VARIABLES
  shouldRun, rebootQueued,  \* the atomics of Shared
  running,                  \* ServerConf::running in the config in memory ...
  saved,                    \* ... and in its file
  status,                   \* Shared::status
  pc,                       \* where the server thread is
  cur,                      \* the command it is processing
  deferred,                 \* the long command it runs after the answer
  site,                     \* the loop that took it: "idle" or "game"
  child,                    \* the game process it supervises
  rcon,                     \* the RCON client of the current game
  cmds, resps,              \* the two channels; answers carry the id of the
                            \* command they answer, which the code does not
  comm,                     \* who holds the mutex around the channel ends
  client,                   \* what each client thread is doing
  nextId,                   \* the id of the next command
  abandoned,                \* history: commands whose client timed out
  freshReboot,              \* history: a reboot was asked for since "Starting"
  intent,                   \* history: the last acknowledged wish
  raced,                    \* history: two different wishes have overlapped
  unsaved,                  \* history: the last write of the config has failed
  modTouched,               \* history: a mod command ran beside this game
  startFailed,              \* history: the last start ended in an error
  faults, crashes           \* counters for the bounds

flags   == <<shouldRun, rebootQueued, running, saved>>
work    == <<cur, deferred, site>>
game    == <<child, rcon>>
queues  == <<cmds, resps>>
callers == <<comm, client, nextId, abandoned>>
touched == <<modTouched, startFailed>>
history == <<freshReboot, touched>>
wishes  == <<intent, raced, unsaved>>
thread  == <<status, pc, work, game, touched, crashes>>
server  == <<thread, faults>>
vars == <<flags, status, pc, work, game, queues, callers,
          history, wishes, faults, crashes>>

Status == {"Idle", "Starting", "Running", "Stopping",
           "BackingUp", "Restoring", "Modding", "Packaging"}

Ids       == 1 .. MaxSends
Command   == [id : Ids, op : Requests]
NoCommand == [id |-> 0, op |-> "none"]

\* Where the thread waits for the game, without a timeout: it connects to RCON, it
\* sends a console command, it writes "stop" into a pipe that may be full.
Calls == {"connecting", "sending", "asking"}
CallFrom == [connecting |-> "rcon", sending |-> "exec", asking |-> "cleanup"]

\* The thread's places: outside the game's loop, inside it, and for ever stuck.
IdlePcs == {"outer", "poll", "defer", "backup", "restore", "zip",
            "enter", "start", "announce", "starting", "spawn", "leave"}
GamePcs == {"loop", "rcon", "swap", "take", "wait", "stop", "cleanup"} \union Calls
BothPcs == {"exec", "modding", "reply", "stuck"}

\* The command came through the 'server loop: process_command_inloop has it.
InLoop == site = "game"

FreeClient == [pc |-> "free", op |-> "none", id |-> 0]

\* Server::new: the thread starts with the persisted wish, no command pending.
Init ==
  /\ running \in BOOLEAN
  /\ saved = running /\ shouldRun = running
  /\ rebootQueued = FALSE
  /\ status = "Idle"
  /\ pc = "outer" /\ cur = NoCommand /\ deferred = "none" /\ site = "idle"
  /\ child = "none" /\ rcon = "off"
  /\ cmds = << >> /\ resps = << >>
  /\ comm = Nobody
  /\ client = [c \in Clients |-> FreeClient]
  /\ nextId = 1 /\ abandoned = {}
  /\ freshReboot = FALSE /\ modTouched = FALSE /\ startFailed = FALSE
  /\ intent = running /\ raced = FALSE /\ unsaved = FALSE
  /\ faults = 0 /\ crashes = 0

-----------------------------------------------------------------------------
(***************************************************************************)
(* The client threads.                                                     *)
(***************************************************************************)
Fault(call) == call \in Failing /\ faults < MaxFaults /\ faults' = faults + 1

Wish(op) == op # "Stop"
Toggling == {c \in Clients : client[c].pc \in {"persist", "mark"}}

\* Server::start, stop and reboot begin with a store into should_run.
Toggle(c, op) ==
  /\ client[c].pc = "free"
  /\ shouldRun' = Wish(op)
  /\ client' = [client EXCEPT ![c] = [pc |-> "persist", op |-> op, id |-> 0]]
  /\ raced' = ((raced /\ Toggling # {})
               \/ \E d \in Toggling : Wish(client[d].op) # Wish(op))
  /\ UNCHANGED <<rebootQueued, running, saved, server, queues, comm, nextId, abandoned,
                 freshReboot, intent, unsaved>>

\* ... then the same wish is put into the config, under its own lock, and all of the
\* config is written to its file.  A failed write is ignored and the client told Ok.
PersistAs(c, value) ==
  /\ client[c].pc = "persist"
  /\ running' = value
  /\ \/ saved' = value /\ unsaved' = FALSE /\ UNCHANGED faults
     \/ Fault("write") /\ unsaved' = TRUE /\ UNCHANGED saved
  /\ IF client[c].op = "Reboot"
     THEN /\ client' = [client EXCEPT ![c] = [pc |-> "mark", op |-> "Reboot", id |-> 0]]
          /\ UNCHANGED intent
     ELSE /\ client' = [client EXCEPT ![c] = FreeClient]
          /\ intent' = Wish(client[c].op)
  /\ UNCHANGED <<shouldRun, rebootQueued, thread, queues, comm, nextId,
                 abandoned, freshReboot, raced>>

PersistForgets(c) == PersistAs(c, running)   \* variant: it is not put there
Persist(c)        == PersistAs(c, Wish(client[c].op))

\* ... and reboot ends with a store into reboot_queued.
Mark(c) ==
  /\ client[c].pc = "mark"
  /\ rebootQueued' = TRUE
  /\ freshReboot' = TRUE
  /\ intent' = TRUE
  /\ client' = [client EXCEPT ![c] = FreeClient]
  /\ UNCHANGED <<shouldRun, running, saved, server, queues, comm, nextId, abandoned,
                 raced, unsaved>>

\* Console, Backup and Restore are refused on the status the client thread read
\* before it sends anything; the others always go ahead.
Admitted(op) ==
  /\ op = "Console" => status = "Running"
  /\ op \in {"Backup", "Restore"} => status = "Idle"

Admit(c, op) ==
  /\ client[c].pc = "free"
  /\ Admitted(op)
  /\ nextId <= MaxSends
  /\ client' = [client EXCEPT ![c] = [pc |-> "lock", op |-> op, id |-> 0]]
  /\ UNCHANGED <<flags, server, queues, comm, nextId, abandoned, freshReboot,
                 wishes>>

\* Server::send takes the mutex and sends the command ...
Send(c) ==
  /\ client[c].pc = "lock"
  /\ comm = Nobody
  /\ nextId <= MaxSends
  /\ comm' = c
  /\ cmds' = Append(cmds, [id |-> nextId, op |-> client[c].op])
  /\ client' = [client EXCEPT ![c] =
                    [pc |-> "await", op |-> client[c].op, id |-> nextId]]
  /\ nextId' = nextId + 1
  /\ UNCHANGED <<flags, server, resps, abandoned, freshReboot, wishes>>

\* ... and, still holding it, takes whatever answer is next in the channel
ReceiveLeaving(c, rest) ==
  /\ client[c].pc = "await"
  /\ resps # << >>
  /\ resps' = rest
  /\ comm' = Nobody
  /\ client' = [client EXCEPT ![c] = FreeClient]
  /\ UNCHANGED <<flags, server, cmds, nextId, abandoned, freshReboot, wishes>>

ReceivePeeks(c) == ReceiveLeaving(c, resps)   \* variant: it is not taken out
Receive(c)      == ReceiveLeaving(c, Tail(resps))

\* ... or gives up after five seconds, leaving its command behind.
Timeout(c) ==
  /\ client[c].pc = "await"
  /\ resps = << >>
  /\ abandoned' = abandoned \union {client[c].id}
  /\ comm' = Nobody
  /\ client' = [client EXCEPT ![c] = FreeClient]
  /\ UNCHANGED <<flags, server, queues, nextId, freshReboot, wishes>>

ClientStep(c) ==
  \/ \E op \in Wishes : Toggle(c, op)
  \/ Persist(c)
  \/ Mark(c)
  \/ \E op \in Requests : Admit(c, op)
  \/ Send(c)
  \/ Receive(c)
  \/ Timeout(c)

-----------------------------------------------------------------------------
(***************************************************************************)
(* The server thread.                                                      *)
(***************************************************************************)
Goto(from, to) == pc = from /\ pc' = to

\* What a step of the thread leaves alone: v, and all that is not its own.
Keep(v) ==
  UNCHANGED v /\ UNCHANGED <<shouldRun, running, saved, callers, wishes, crashes>>

JustMoves    == Keep(<<rebootQueued, status, work, game, queues, history, faults>>)
SetStatus(s) == status' = s /\ Keep(<<rebootQueued, work, game, queues, history, faults>>)

\* while !should_run of server_main: idle, or go and run the game.
CheckRun == Goto("outer", IF shouldRun THEN "enter" ELSE "poll") /\ JustMoves

\* try_recv: the oldest command is taken by the loop `s`.
TakeFor(from, s) ==
  /\ cmds # << >>
  /\ Goto(from, "exec")
  /\ cur' = Head(cmds) /\ cmds' = Tail(cmds) /\ site' = s
  /\ Keep(<<rebootQueued, status, deferred, game, resps, history, faults>>)

\* In the idle loop; an empty channel sends the thread to sleep.
PollBlocks == TakeFor("poll", "idle")      \* variant: recv, not try_recv

Poll == \/ TakeFor("poll", "idle")
        \/ cmds = << >> /\ Goto("poll", "outer") /\ JustMoves

\* In the game's loop, which has already looked at reboot_queued.
TakeAsIdle == \/ TakeFor("take", "idle")   \* variant: process_command_idle
              \/ cmds = << >> /\ Goto("take", "wait") /\ JustMoves

Take == \/ TakeFor("take", "game")
        \/ cmds = << >> /\ Goto("take", "wait") /\ JustMoves

\* A command is done.  On an error the idle loop answers Response::Err; the
\* game's loop propagates it with `?`, drops the command and stops the game.
Done   == pc' = "reply" /\ UNCHANGED cur
Failed == IF InLoop THEN pc' = "stop" /\ cur' = NoCommand ELSE Done

KeepAnswering ==
  Keep(<<rebootQueued, deferred, site, game, queues, freshReboot, startFailed, faults>>)

\* A command that neither changes files nor the status: it is answered, or it
\* fails.  Console fails only with a game whose RCON or stdin is broken;
\* Backup, Restore and Zip are answered InvalidState or Err beside a game.
Answer ==
  /\ pc = "exec"
  /\ \/ cur.op \in {"Read", "Console", "Restore"}
     \/ cur.op \in {"Backup", "Zip"} /\ InLoop
  /\ \/ Done
     \/ Failed /\ (cur.op = "Read" \/ (cur.op = "Console" /\ InLoop))
  /\ UNCHANGED <<status, modTouched>>
  /\ KeepAnswering

\* The idle loop answers Backup, Restore (when it finds a backup directory) and
\* Zip at once and does the work afterwards.
Defer ==
  /\ ~InLoop
  /\ cur.op \in {"Backup", "Restore", "Zip"}
  /\ Goto("exec", "reply")
  /\ deferred' = cur.op
  /\ Keep(<<rebootQueued, status, cur, site, game, queues, history, faults>>)

\* install_mod, update_mod, uninstall_mod: refused or failed before anything is
\* changed -- and still they end with update_status(Idle), game or no game.  Only
\* the error of a reserved mod id leaves the function at once ...
ModEarly ==
  /\ pc = "exec" /\ cur.op = "Mods"
  /\ \/ (Done \/ Failed) /\ status' = "Idle" /\ modTouched' = TRUE
     \/ Failed /\ UNCHANGED <<status, modTouched>>
  /\ KeepAnswering

\* ... or they go ahead and say so ...
ModBegin ==
  /\ cur.op = "Mods"
  /\ Goto("exec", "modding")
  /\ status' = "Modding"
  /\ modTouched' = TRUE
  /\ UNCHANGED cur
  /\ KeepAnswering

\* ... move the files, which may fail ...
ModEnd ==
  /\ pc = "modding"
  /\ Done \/ Failed
  /\ status' = "Idle"
  /\ UNCHANGED modTouched
  /\ KeepAnswering

\* ... or search a free file name for ever, when both `f` and `f-2.jar` exist.
ModHang == Goto("modding", "stuck") /\ JustMoves

\* send_resp.send: the answer enters the channel whoever is still waiting.
Respond(queue) ==
  /\ Goto("reply", IF InLoop THEN "wait" ELSE "defer")
  /\ resps' = queue
  /\ cur' = NoCommand
  /\ Keep(<<rebootQueued, status, deferred, site, game, cmds, history, faults>>)

\* Variants: cur is forgotten first; the answer is sent twice.
ReplyTooLate == Respond(Append(resps, NoCommand.id))
ReplyTwice   == Respond(resps \o <<cur.id, cur.id>>)

Reply == Respond(Append(resps, cur.id))

\* match deferred: a zip that is up to date is uploaded without Packaging, and
\* Restore looks at the backup directory again before it says Restoring.
BeginWork ==
  /\ pc = "defer"
  /\ \/ deferred = "none" /\ pc' = "outer" /\ UNCHANGED status
     \/ deferred = "Backup" /\ pc' = "backup" /\ status' = "BackingUp"
     \/ deferred = "Restore" /\ pc' = "restore" /\ status' = "Restoring"
     \/ deferred = "Restore" /\ pc' = "outer" /\ status' = "Idle"
     \/ deferred = "Zip" /\ pc' = "zip" /\ status' = "Packaging"
     \/ deferred = "Zip" /\ pc' = "zip" /\ UNCHANGED status
  /\ deferred' = "none"
  /\ Keep(<<rebootQueued, cur, site, game, queues, history, faults>>)

\* The copy, the restoration or the zip is over, well or not.
EndWork ==
  /\ pc \in {"backup", "restore", "zip"} /\ pc' = "outer"
  /\ SetStatus("Idle")

\* The progress callback of Restore locks NOTIFICATIONS and then calls
\* replace_notif_if, which locks it again: the first file copied is the last.
RestoreHang == Goto("restore", "stuck") /\ JustMoves

\* start_server: without the server's directory it returns its error at once.
Enter ==
  \/ Goto("enter", "start") /\ JustMoves
  \/ /\ Goto("enter", "outer") /\ Fault("path")
     /\ Keep(<<rebootQueued, status, work, game, queues, history>>)

\* 'start: while should_run
StartCheck == Goto("start", IF shouldRun THEN "announce" ELSE "leave") /\ JustMoves

\* reboot_queued is cleared for the new game ...
ClearWith(queued) ==
  /\ Goto("announce", "starting")
  /\ rebootQueued' = queued
  /\ freshReboot' = FALSE
  /\ Keep(<<status, work, game, queues, touched, faults>>)

ClearNot    == ClearWith(rebootQueued)   \* variant: it is not
ClearReboot == ClearWith(FALSE)

\* ... and the start is announced.
Announce ==
  /\ Goto("starting", "spawn")
  /\ status' = "Starting"
  /\ startFailed' = FALSE
  /\ Keep(<<rebootQueued, work, game, queues, freshReboot, modTouched, faults>>)

\* The game is spawned; without RCON it counts as Running from then on.
Spawn ==
  /\ Goto("spawn", "loop")
  /\ child' = "alive"
  /\ rcon' \in {"off", "down"}
  /\ status' = IF rcon' = "off" THEN "Running" ELSE status
  /\ modTouched' = FALSE
  /\ Keep(<<rebootQueued, work, queues, freshReboot, startFailed, faults>>)

\* spawn() failed: sleep and retry; or path()? failed: leave start_server
\* without the update_status(Idle) at its end.
SpawnFails ==
  /\ \/ Goto("spawn", "start") /\ Fault("spawn") /\ UNCHANGED startFailed
     \/ Goto("spawn", "outer") /\ Fault("path") /\ startFailed' = TRUE
  /\ Keep(<<rebootQueued, status, work, game, queues, freshReboot, modTouched>>)

\* 'server: while should_run
LoopNeverChecks  == Goto("loop", "rcon") /\ JustMoves   \* variants
LoopSkipsCleanup == Goto("loop", IF shouldRun THEN "rcon" ELSE "leave") /\ JustMoves

LoopCheck == Goto("loop", IF shouldRun THEN "rcon" ELSE "stop") /\ JustMoves

\* An attempt to connect and log in, if there is RCON and no client yet.
RconConnect ==
  /\ Goto("rcon", "swap")
  /\ \/ UNCHANGED <<rcon, status>>
     \/ rcon = "down" /\ rcon' = "up" /\ status' = "Running"
  /\ Keep(<<rebootQueued, work, child, queues, history, faults>>)

\* reboot_queued.swap(false)
SwapThenGo(to) ==
  /\ Goto("swap", to)
  /\ rebootQueued' = FALSE
  /\ Keep(<<status, work, game, queues, history, faults>>)

RebootSwapIgnores == SwapThenGo("take")   \* variant: the game goes on
RebootSwap        == SwapThenGo(IF rebootQueued THEN "stop" ELSE "take")

\* try_wait, whose error ends the game's loop like its end.
TryWait ==
  \/ Goto("wait", IF child = "exited" THEN "stop" ELSE "loop") /\ JustMoves
  \/ /\ Goto("wait", "stop") /\ Fault("wait")
     /\ Keep(<<rebootQueued, status, work, game, queues, history>>)

Stopping == Goto("stop", "cleanup") /\ SetStatus("Stopping")

\* cleanup: the game obeys one of the "stop" lines and is waited for, or, when
\* stdin is broken or five minutes have passed, it is killed and not waited for.
Cleanup ==
  /\ Goto("cleanup", "start")
  /\ child' = "none" /\ rcon' = "off"
  /\ Keep(<<rebootQueued, status, work, queues, history, faults>>)

\* The end of start_server.
LeaveSilently == Goto("leave", "outer") /\ JustMoves   \* variant: no Idle
Leave         == Goto("leave", "outer") /\ SetStatus("Idle")

\* A call into a game that does not answer: neither the RCON client nor the pipe
\* has a timeout.
Calling(place) ==
  \/ place = "connecting" /\ rcon = "down"
  \/ place = "sending" /\ cur.op = "Console" /\ InLoop
  \/ place = "asking"

GameHangs ==
  \E place \in Calls :
    Calling(place) /\ Goto(CallFrom[place], place) /\ JustMoves

ThreadStep ==
  \/ CheckRun \/ Poll \/ Take \/ Answer \/ Defer
  \/ ModEarly \/ ModBegin \/ ModEnd \/ ModHang \/ Reply
  \/ BeginWork \/ EndWork \/ RestoreHang
  \/ Enter \/ StartCheck \/ ClearReboot \/ Announce \/ Spawn \/ SpawnFails
  \/ LoopCheck \/ RconConnect \/ RebootSwap \/ TryWait
  \/ Stopping \/ Cleanup \/ Leave \/ GameHangs

-----------------------------------------------------------------------------
\* The game ends on its own: it crashed, or an operator typed "stop".
GameExits ==
  /\ child = "alive"
  /\ child' = "exited"
  /\ UNCHANGED <<flags, status, pc, work, rcon, queues, callers, history,
                 wishes, faults, crashes>>

\* A game that did not answer does at last, or its end breaks the connection.
GameAnswers ==
  /\ pc \in Calls
  /\ pc' = CallFrom[pc]
  /\ JustMoves

\* The config is written again for another server of the daemon.
ConfigWritten ==
  /\ unsaved
  /\ saved' = running /\ unsaved' = FALSE
  /\ UNCHANGED <<shouldRun, rebootQueued, running, server, queues, callers,
                 freshReboot, intent, raced>>

\* The daemon dies and is started again: every thread, channel and atomic is
\* new, only the config survives.  A game left behind is nobody's child.
CrashRestart ==
  /\ crashes < MaxCrashes
  /\ crashes' = crashes + 1
  /\ running' = saved /\ shouldRun' = saved
  /\ rebootQueued' = FALSE
  /\ status' = "Idle"
  /\ pc' = "outer" /\ cur' = NoCommand /\ deferred' = "none"
  /\ site' = "idle"
  /\ child' = "none" /\ rcon' = "off"
  /\ cmds' = << >> /\ resps' = << >>
  /\ comm' = Nobody
  /\ client' = [c \in Clients |-> FreeClient]
  /\ freshReboot' = FALSE /\ modTouched' = FALSE /\ startFailed' = FALSE
  /\ intent' = IF raced \/ unsaved \/ Toggling # {} THEN saved ELSE intent
  /\ raced' = FALSE /\ unsaved' = FALSE
  /\ UNCHANGED <<saved, nextId, abandoned, faults>>

Next ==
  \/ \E c \in Clients : ClientStep(c)
  \/ ThreadStep
  \/ GameExits
  \/ GameAnswers
  \/ ConfigWritten
  \/ CrashRestart

Spec == Init /\ [][Next]_vars

\* The operating system keeps scheduling the server thread.  Nothing makes a game
\* answer that has not: GameAnswers is not a step of the thread.
FairSpec == Spec /\ WF_vars(ThreadStep)

-----------------------------------------------------------------------------
(***************************************************************************)
(* Properties.                                                             *)
(***************************************************************************)
ClientStates ==
  {FreeClient}
    \union [pc : {"persist"}, op : Wishes,     id : {0}]
    \union [pc : {"mark"},    op : {"Reboot"}, id : {0}]
    \union [pc : {"lock"},    op : Requests,   id : {0}]
    \union [pc : {"await"},   op : Requests,   id : Ids]

\* The shape of the state.
TypeOK ==
  /\ shouldRun \in BOOLEAN /\ rebootQueued \in BOOLEAN
  /\ running \in BOOLEAN /\ saved \in BOOLEAN
  /\ status \in Status
  /\ pc \in IdlePcs \union GamePcs \union BothPcs
  /\ cur \in Command \union {NoCommand}
  /\ pc \in {"exec", "modding", "reply", "sending"} => cur # NoCommand
  /\ deferred \in {"none", "Backup", "Restore", "Zip"}
  /\ site \in {"idle", "game"}
  /\ child \in {"none", "alive", "exited"}
  /\ rcon \in {"off", "down", "up"}
  /\ cmds \in Seq(Command)
  /\ resps \in Seq(Ids)
  /\ comm \in Clients \union {Nobody}
  /\ client \in [Clients -> ClientStates]
  /\ nextId \in 1 .. MaxSends + 1
  /\ abandoned \subseteq Ids
  /\ freshReboot \in BOOLEAN /\ modTouched \in BOOLEAN /\ startFailed \in BOOLEAN
  /\ intent \in BOOLEAN /\ raced \in BOOLEAN /\ unsaved \in BOOLEAN
  /\ faults \in 0 .. MaxFaults /\ crashes \in 0 .. MaxCrashes

\* No backup, restoration or zip is made of a folder in which the supervised
\* game runs, and no game is spawned beside one that is still supervised:
\* however stale the status a client was admitted on (client_loop.rs:115-150),
\* the loop that takes the command decides (server_loop.rs:907, 1090).
WorldExclusion ==
  /\ pc \in IdlePcs => child = "none"
  /\ deferred # "none" => child = "none"
  /\ pc \in GamePcs => child # "none"

\* A game is only rebooted for a request made since the flag was cleared for its
\* start: a reboot_queued that outlives a stop does not hit the next game
\* (server_loop.rs:214, 958, 1026).
NoStaleReboot == (pc \in GamePcs /\ rebootQueued) => freshReboot

Increasing(s) == \A i, j \in DOMAIN s : i < j => s[i] < s[j]

\* Commands are answered in the order they were sent, each at most once: the
\* answers waiting, the command in hand and those waiting are in send order.
AnswersInOrder ==
  /\ Increasing(resps)
  /\ \A i, j \in DOMAIN cmds : i < j => cmds[i].id < cmds[j].id
  /\ \A i \in DOMAIN resps :
       /\ cur # NoCommand => resps[i] < cur.id
       /\ \A j \in DOMAIN cmds : resps[i] < cmds[j].id
  /\ \A j \in DOMAIN cmds :
       /\ cur # NoCommand => cur.id < cmds[j].id
       /\ cmds[j].id < nextId

\* A client is handed the answer to another command only after some client gave
\* up on an earlier one: until the first timeout no answer goes astray, though
\* the channel carries no ids (server_loop.rs:219-228).  From then on it may go
\* on for ever: each client takes the answer the previous one has left behind.
Explained(id, c) == id = client[c].id \/ \E a \in abandoned : a <= id

StrayOnlyAfterTimeout ==
  (comm # Nobody /\ resps # << >>) => Explained(Head(resps), comm)

\* When no start, stop or reboot is half done and no two different ones overlapped,
\* the thread's flag and the config hold the last wish that was answered Ok, and so
\* does the file, across crashes too, unless the last write has failed: that wish is
\* obeyed, but a crash loses it (server_loop.rs:178, 200-217).
IntentDurable ==
  (Toggling = {} /\ ~raced) =>
    /\ shouldRun = intent /\ running = intent
    /\ saved = intent \/ unsaved

\* The status a client sees tells the truth about the thread, with two exceptions:
\* beside a game that a mod command has touched it may say Idle, since the mod commands
\* end in update_status(Idle); and after a start that ended in an error it says Starting
\* until something else is done (server_loop.rs:712, 993).
StatusHonest ==
  /\ status = "BackingUp" <=> pc = "backup"
  /\ status = "Restoring" => pc \in {"restore", "stuck"}
  /\ status = "Packaging" => pc = "zip"
  /\ status = "Modding" => pc \in {"modding", "stuck"}
  /\ status = "Running" => child # "none"
  /\ status = "Stopping" => pc \in {"cleanup", "asking", "start", "announce", "starting", "leave"}
  /\ status = "Starting" => \/ child # "none" \/ startFailed
                            \/ pc \in {"spawn", "start", "announce", "starting", "leave"}
  /\ (status = "Idle" /\ child # "none") => modTouched

\* The thread is stuck for ever, or waits for a game that does not answer.
Hung == pc \in {"stuck"} \union Calls

\* A stop brings the game down, unless it is taken back or the thread hangs
\* (should_run is looked at in every round of the game's loop, server_loop.rs:1009).
StopHonoured == (~shouldRun /\ child = "alive") ~> (shouldRun \/ child # "alive" \/ Hung)

\* A reboot that is queued beside a game brings that game down, unless the thread
\* hangs (server_loop.rs:1026).
RebootHonoured == (rebootQueued /\ child = "alive") ~> (child # "alive" \/ Hung)

\* A start brings a game up, once the folder and run.sh are in order again,
\* whatever commands are queued before it (server_loop.rs:290, 957).
StartHonoured == shouldRun ~> (~shouldRun \/ child = "alive" \/ Hung)

\* The folder's owner as WorldOwner sees it.
Activity ==
  CASE pc = "backup"                                   -> "backup"
    [] pc = "zip"                                      -> "zip"
    [] pc \in {"restore", "stuck"} /\ status = "Restoring" -> "restore"
    [] pc \in {"modding", "stuck"} /\ status = "Modding"   -> "mods"
    [] OTHER                                           -> "none"

WO == INSTANCE WorldOwner WITH gameUp <- (child = "alive"),
                               activity <- Activity

\* The supervisor implements the abstract owner of the folder, the end of every
\* backup and zip included.
ImplementsWorldOwner == WO!WOSpec

=============================================================================
