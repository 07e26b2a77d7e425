-------------------------------- MODULE Polls --------------------------------
(***************************************************************************)
(* The polls of one guild (mcayb/src/bot.rs): create_poll, check_poll and  *)
(* poll_deleted run as tasks that interleave at every await, and share the *)
(* map of ongoing polls in the config.  Discord keeps the poll messages    *)
(* and the votes, and the bot learns of them through events.               *)
(*                                                                         *)
(* A request for a poll has a number; its message and the temporary file   *)
(* with the mod to install go by the same number.  The config is kept in   *)
(* memory and in a file that has all of it; a failed write leaves the file *)
(* behind until the next one (ConfigStore has the writes themselves).      *)
(***************************************************************************)
EXTENDS Integers

CONSTANTS Keys,         \* PollKey::Mod: a server and a mod id
          Tasks,        \* tasks that run at the same time
          Members,      \* how many members may vote
          MaxPolls,     \* bound: requests for polls
          MaxUnvotes,   \* bound: votes taken back
          MaxFaults,    \* bound: calls to Discord or sv_manage, and writes, that fail
          MaxRestarts   \* bound: restarts of the bot

ASSUME PollBoundAssumption == /\ Members \in Nat /\ MaxPolls \in Nat
                              /\ MaxUnvotes \in Nat
                              /\ MaxFaults \in Nat /\ MaxRestarts \in Nat

VARIABLES
  tracked,     \* GuildData::polls: the poll of each key, 0 for none
  saved,       \* what the config's file has of it
  key, kind,   \* what each request is about: a mod to install or to remove
  message,     \* the poll's message in Discord
  yes, no,     \* its votes
  unvotes,     \* votes taken back
  file,        \* the temporary file of an Install poll
  installed,   \* keys whose mod the server has
  events,      \* events the bot has yet to handle
  task,        \* what each task is doing
  nextId,      \* the number of the next request
  applied,     \* history: how often a poll has changed the server
  overlapped,  \* history: keys a poll of which two tasks have handled at once
  squeezed,    \* history: keys a poll of which was stored between two removals
  forgotten,   \* history: polls removed from the config by a task for another one
  unwritten,   \* history: polls that were stored or removed without reaching the file
  faults, restarts

config   == <<tracked, saved>>
requests == <<key, kind, nextId>>
discord  == <<message, yes, no, unvotes>>
history  == <<applied, overlapped, squeezed, forgotten, unwritten>>
vars == <<config, requests, discord, file, installed, events, task, history,
          faults, restarts>>

Ids   == 1 .. MaxPolls
Kinds == {"install", "remove"}

\* The message whose tracked poll a new request found, and whether the votes that a
\* check has read are enough to win, are kept across the task's awaits.
NewTask(op, at, n) == [op |-> op, at |-> at, id |-> n, old |-> 0, won |-> FALSE]
Free == NewTask("free", "none", 0)

Become(t, to)  == task' = [task EXCEPT ![t] = to]
Proceed(t, at) == Become(t, [task[t] EXCEPT !.at = at])
Is(t, op, at)  == task[t].op = op /\ task[t].at = at

Init ==
  /\ tracked = [k \in Keys |-> 0] /\ saved = tracked
  /\ key \in [Ids -> Keys] /\ (\A m, n \in Ids : key[m] = key[n])
  /\ kind = [n \in Ids |-> "install"]
  /\ message = [n \in Ids |-> "unsent"]
  /\ yes = [n \in Ids |-> 0] /\ no = [n \in Ids |-> 0] /\ unvotes = 0
  /\ file = [n \in Ids |-> "none"]
  /\ installed \in SUBSET Keys
  /\ events = {}
  /\ task = [t \in Tasks |-> Free]
  /\ nextId = 1
  /\ applied = [n \in Ids |-> 0]
  /\ overlapped = {} /\ squeezed = {} /\ forgotten = {} /\ unwritten = {}
  /\ faults = 0 /\ restarts = 0

Fault == faults < MaxFaults /\ faults' = faults + 1
Sound == UNCHANGED faults

\* with_config_mut: what was changed in memory stays, whether it could be written
\* or not.
Flush(changed) ==
  \/ Sound /\ saved' = tracked' /\ UNCHANGED unwritten
  \/ Fault /\ UNCHANGED saved /\ unwritten' = unwritten \union (changed \ {0})

\* guild_loop writes the config for reasons of its own, polls and all.
ConfigWritten ==
  /\ saved # tracked
  /\ saved' = tracked
  /\ UNCHANGED <<tracked, requests, discord, file, installed, events, task, history,
                 faults, restarts>>

-----------------------------------------------------------------------------
(***************************************************************************)
(* Discord and its members.                                                *)
(***************************************************************************)
Vote(n) ==
  /\ message[n] = "open"
  /\ yes[n] + no[n] < Members
  /\ \/ yes' = [yes EXCEPT ![n] = @ + 1] /\ UNCHANGED no
     \/ no' = [no EXCEPT ![n] = @ + 1] /\ UNCHANGED yes
  /\ events' = events \union {<<"vote", n>>}
  /\ UNCHANGED <<config, requests, message, unvotes, file, installed, task, history,
                 faults, restarts>>

\* A vote is taken back, of which the bot is not told.
Unvote(n) ==
  /\ unvotes < MaxUnvotes /\ unvotes' = unvotes + 1
  /\ message[n] = "open"
  /\ \/ yes[n] > 0 /\ yes' = [yes EXCEPT ![n] = @ - 1] /\ UNCHANGED no
     \/ no[n] > 0 /\ no' = [no EXCEPT ![n] = @ - 1] /\ UNCHANGED yes
  /\ UNCHANGED <<config, requests, message, file, installed, events, task, history, faults,
                 restarts>>

\* The 24 hours of the poll are over: Discord posts its result.
Expire(n) ==
  /\ message[n] = "open"
  /\ message' = [message EXCEPT ![n] = "ended"]
  /\ events' = events \union {<<"result", n>>}
  /\ UNCHANGED <<config, requests, yes, no, unvotes, file, installed, task, history,
                 faults, restarts>>

\* The votes go with the message.
Delete(n) ==
  /\ message[n] \in {"open", "ended"}
  /\ message' = [message EXCEPT ![n] = "deleted"]
  /\ yes' = [yes EXCEPT ![n] = 0] /\ no' = [no EXCEPT ![n] = 0]
  /\ events' = events \union {<<"deleted", n>>}
  /\ UNCHANGED <<config, requests, unvotes, file, installed, task, history, faults,
                 restarts>>

-----------------------------------------------------------------------------
(***************************************************************************)
(* create_poll.  guild_loop asks for the Install polls one after another,  *)
(* holding its locks; a Remove poll is asked for by an interaction, after  *)
(* the server has told it about the mod.                                   *)
(***************************************************************************)
CreateKept == UNCHANGED <<requests, yes, no, unvotes, installed, applied, overlapped,
                          forgotten, restarts>>
NotStored  == UNCHANGED <<config, squeezed, unwritten>>

NeverBusy == FALSE   \* variant: the locks are not held

InstallRequested == \E t \in Tasks : task[t].op = "create" /\ kind[task[t].id] = "install"

\* The temporary file is deleted when a DelOnDrop goes out of scope.
DropFile(n) == file' = [file EXCEPT ![n] = IF kind[n] = "install" THEN "gone" ELSE @]

\* The config is read once, and a poll found there is remembered.
CreateBegin(t) ==
  /\ task[t] = Free
  /\ nextId \in Ids
  /\ \E k \in Keys, what \in Kinds :
       /\ IF what = "install"
          THEN ~InstallRequested /\ file' = [file EXCEPT ![nextId] = "kept"]
          ELSE k \in installed /\ UNCHANGED file
       /\ key' = [key EXCEPT ![nextId] = k]
       /\ kind' = [kind EXCEPT ![nextId] = what]
       /\ Become(t, [NewTask("create", IF tracked[k] # 0 THEN "look" ELSE "ask", nextId)
                        EXCEPT !.old = tracked[k]])
  /\ nextId' = nextId + 1
  /\ UNCHANGED <<config, discord, installed, events, history, faults, restarts>>

\* If its message is there, the request is refused, and the file left behind.
CreateLook(t) ==
  /\ Is(t, "create", "look")
  /\ \/ message[task[t].old] # "deleted" /\ Become(t, Free) /\ Sound
     \/ message[task[t].old] = "deleted" /\ Proceed(t, "ask") /\ Sound
     \/ Fault /\ Proceed(t, "ask")
  /\ UNCHANGED <<message, events, file>> /\ NotStored /\ CreateKept

\* The server is asked for its mods: one it has already is updated at once.
CreateAsk(t) ==
  /\ Is(t, "create", "ask")
  /\ LET n == task[t].id IN
       \/ /\ kind[n] = "install" => key[n] \notin installed
          /\ Proceed(t, "send") /\ Sound /\ UNCHANGED file
       \/ /\ kind[n] = "install"
          /\ Fault \/ (key[n] \in installed /\ Sound)
          /\ Become(t, Free) /\ DropFile(n)
  /\ UNCHANGED <<message, events>> /\ NotStored /\ CreateKept

CreateSend(t) ==
  /\ Is(t, "create", "send")
  /\ LET n == task[t].id IN
       \/ /\ message' = [message EXCEPT ![n] = "open"]
          /\ Proceed(t, "store") /\ Sound /\ UNCHANGED file
       \/ Fault /\ Become(t, Free) /\ DropFile(n) /\ UNCHANGED message
  /\ UNCHANGED events /\ NotStored /\ CreateKept

\* The poll goes into the config, unless the key has one by now: then it stays
\* in Discord, but nobody will count it.  If the config cannot be written the poll
\* stays in memory, but the request has failed and the file is dropped.
Removing(k) == \E u \in Tasks : task[u].at = "again" /\ key[task[u].id] = k

StoreIf(t, vacant, thenFile) ==
  /\ Is(t, "create", "store")
  /\ LET n == task[t].id
         k == key[n]
     IN \/ /\ vacant
           /\ tracked' = [tracked EXCEPT ![k] = n]
           /\ squeezed' = IF Removing(k) THEN squeezed \union {k} ELSE squeezed
           /\ Flush({n})
           /\ IF saved' = tracked' THEN file' = thenFile ELSE DropFile(n)
        \/ /\ ~vacant
           /\ UNCHANGED <<tracked, squeezed>>
           /\ Flush({})
           /\ DropFile(n)
  /\ Become(t, Free)
  /\ UNCHANGED <<message, events>> /\ CreateKept

Vacant(t) == tracked[key[task[t].id]] = 0

\* Variants: the older poll is overwritten; the file is deleted all the same.
StoreOver(t) == StoreIf(t, TRUE, file)
StoreDrop(t) == StoreIf(t, Vacant(t), [file EXCEPT ![task[t].id] = "gone"])

CreateStore(t) == StoreIf(t, Vacant(t), file)

-----------------------------------------------------------------------------
(***************************************************************************)
(* check_poll and poll_deleted.                                            *)
(***************************************************************************)
Handling(n) == {t \in Tasks : task[t].op # "create" /\ task[t].id = n}

\* An event is handled: the first thing both functions do is to look in the
\* config for a poll with this message.
Handle(t, e) ==
  /\ task[t] = Free
  /\ e \in events
  /\ e[1] = "start" => \A u \in Tasks : task[u].op # "start"
  /\ LET n == e[2] IN
       IF tracked[key[n]] = n
       THEN /\ Become(t, CASE e[1] = "deleted" -> NewTask("delete", "look", n)
                           [] e[1] = "start"   -> NewTask("start", "look", n)
                           [] OTHER            -> NewTask("check", "fetch", n))
            /\ overlapped' = IF Handling(n) = {} THEN overlapped
                             ELSE overlapped \union {key[n]}
       ELSE UNCHANGED <<task, overlapped>>
  /\ events' = events \ {e}
  /\ UNCHANGED <<config, requests, discord, file, installed, applied, squeezed, forgotten,
                 unwritten, faults, restarts>>

HandleKept == UNCHANGED <<requests, yes, no, unvotes, overlapped, squeezed, restarts>>
NoEffect   == UNCHANGED <<installed, applied>>
NotRemoved == UNCHANGED <<config, forgotten, unwritten>>

\* Half of the members, rounded up.  Members that cannot be listed are not
\* counted.
Quorum(count) == (count \div 2) + (count % 2)

\* Enough have voted, and more of them for the poll than against it.
Won(for, against, min) == for > against /\ for + against >= min

\* The message is fetched with its results.  A poll that is still open is ended
\* if enough have voted, and left alone otherwise.
CheckFetch(t) ==
  /\ Is(t, "check", "fetch")
  /\ LET n == task[t].id IN
       \/ /\ (message[n] = "deleted" /\ Sound) \/ Fault
          /\ Become(t, Free)
       \/ /\ message[n] # "deleted"
          /\ \E count \in 0 .. Members :
               LET over   == message[n] = "ended"
                   enough == yes[n] + no[n] >= Quorum(count)
               IN /\ IF count = Members THEN Sound ELSE Fault
                  /\ Become(t, IF over \/ enough
                               THEN [task[t] EXCEPT !.at = IF over THEN "forget" ELSE "end",
                                                    !.won = Won(yes[n], no[n], Quorum(count))]
                               ELSE Free)
  /\ UNCHANGED <<message, events, file>> /\ NotRemoved /\ HandleKept /\ NoEffect

\* end_poll; an error is ignored.
CheckEnd(t) ==
  /\ Is(t, "check", "end")
  /\ LET n == task[t].id IN
       \/ /\ message[n] = "open" /\ Sound
          /\ message' = [message EXCEPT ![n] = "ended"]
          /\ events' = events \union {<<"result", n>>}
       \/ /\ (message[n] # "open" /\ Sound) \/ Fault
          /\ UNCHANGED <<message, events>>
  /\ Proceed(t, "forget")
  /\ UNCHANGED file /\ NotRemoved /\ HandleKept /\ NoEffect

\* The key is removed from the config, whichever poll it has there; that it could
\* not be written is ignored.
ForgetKeeping(t, op, at, next, left) ==
  /\ Is(t, op, at)
  /\ LET n == task[t].id
         found == tracked[key[n]]
     IN /\ tracked' = [tracked EXCEPT ![key[n]] = left]
        /\ Flush({found})
        /\ forgotten' = IF found \in {0, n} THEN forgotten ELSE forgotten \union {found}
  /\ next

ForgetNothing(t, op, at, next) ==   \* variant: the poll stays in the config
  ForgetKeeping(t, op, at, next, tracked[key[task[t].id]])

Forget(t, op, at, next) == ForgetKeeping(t, op, at, next, 0)

CheckGoesOn(t, at) ==
  /\ Proceed(t, at)
  /\ UNCHANGED <<message, events, file>> /\ HandleKept /\ NoEffect

\* check_poll does so twice, and lets go of the config in between.
CheckForget(t) == Forget(t, "check", "forget", CheckGoesOn(t, "again"))
CheckAgain(t)  == Forget(t, "check", "again", CheckGoesOn(t, "decide"))

\* What the server does with the mod if the votes that were read say so.  The
\* jar is moved, so it is installed once at most; whatever goes wrong, and
\* whoever lost, the file is deleted at the end.
ServerObeys(n) == IF kind[n] = "install"
                  THEN file[n] = "kept" /\ key[n] \notin installed
                  ELSE key[n] \in installed

Decide(t, obeys, thenFile) ==
  /\ Is(t, "check", "decide")
  /\ LET n == task[t].id IN
       \/ /\ task[t].won /\ obeys
          /\ installed' = IF kind[n] = "install" THEN installed \union {key[n]}
                          ELSE installed \ {key[n]}
          /\ applied' = [applied EXCEPT ![n] = @ + 1]
          /\ Sound
       \/ /\ (~(task[t].won /\ obeys) /\ Sound) \/ Fault
          /\ NoEffect
  /\ thenFile
  /\ Become(t, Free)
  /\ UNCHANGED <<message, events>> /\ NotRemoved /\ HandleKept

DecideCopies(t) == Decide(t, TRUE, UNCHANGED file)   \* variant: the jar is copied

CheckDecide(t) == Decide(t, ServerObeys(task[t].id), DropFile(task[t].id))

\* poll_deleted: any failure to fetch the message counts as its deletion.  In
\* init a poll that is still there is then checked.
DeletedLook(t) ==
  /\ task[t].op \in {"delete", "start"} /\ task[t].at = "look"
  /\ LET n == task[t].id IN
       \/ ((message[n] = "deleted" /\ Sound) \/ Fault) /\ Proceed(t, "forget")
       \/ /\ message[n] # "deleted" /\ Sound
          /\ Become(t, IF task[t].op = "start" /\ tracked[key[n]] = n
                       THEN NewTask("check", "fetch", n) ELSE Free)
  /\ UNCHANGED <<message, events, file>> /\ NotRemoved /\ HandleKept /\ NoEffect

DeletedForget(t) ==
  LET cancel == /\ DropFile(task[t].id)
                /\ Become(t, Free)
                /\ UNCHANGED <<message, events>> /\ HandleKept /\ NoEffect
  IN \E op \in {"delete", "start"} : Forget(t, op, "forget", cancel)

-----------------------------------------------------------------------------
\* The bot is started again: its tasks are gone, what Discord had to tell is not
\* told again, and init looks at every poll of the config's file.
Restart ==
  /\ restarts < MaxRestarts /\ restarts' = restarts + 1
  /\ task' = [t \in Tasks |-> Free]
  /\ tracked' = saved
  /\ events' = {<<"start", saved[k]>> : k \in {k \in Keys : saved[k] # 0}}
  /\ UNCHANGED <<saved, requests, discord, file, installed, history, faults>>

TaskStep(t) ==
  \/ CreateLook(t) \/ CreateAsk(t) \/ CreateSend(t) \/ CreateStore(t)
  \/ CheckFetch(t) \/ CheckEnd(t) \/ CheckForget(t) \/ CheckAgain(t)
  \/ CheckDecide(t)
  \/ DeletedLook(t) \/ DeletedForget(t)

HandleAny == \E t \in Tasks, e \in events : Handle(t, e)

Next ==
  \/ \E n \in Ids : Vote(n) \/ Unvote(n) \/ Expire(n) \/ Delete(n)
  \/ \E t \in Tasks : CreateBegin(t) \/ TaskStep(t)
  \/ HandleAny
  \/ ConfigWritten
  \/ Restart

Spec == Init /\ [][Next]_vars

\* The runtime polls every task, and Discord delivers every event.
FairSpec == Spec /\ WF_vars(HandleAny) /\ \A t \in Tasks : WF_vars(TaskStep(t))
-----------------------------------------------------------------------------
(***************************************************************************)
(* Properties.                                                             *)
(***************************************************************************)
\* The shape of the state; Install polls are asked for one at a time, each with
\* its file.
PollsTypeOK ==
  /\ tracked \in [Keys -> Ids \union {0}] /\ saved \in [Keys -> Ids \union {0}]
  /\ key \in [Ids -> Keys] /\ kind \in [Ids -> Kinds]
  /\ message \in [Ids -> {"unsent", "open", "ended", "deleted"}]
  /\ yes \in [Ids -> 0 .. Members] /\ no \in [Ids -> 0 .. Members]
  /\ unvotes \in 0 .. MaxUnvotes
  /\ file \in [Ids -> {"none", "kept", "gone"}]
  /\ installed \subseteq Keys
  /\ events \subseteq ({"vote", "result", "deleted", "start"} \X Ids)
  /\ task \in [Tasks -> [op  : {"free", "create", "check", "delete", "start"},
                         at  : {"none", "look", "ask", "send", "store", "fetch",
                                "end", "forget", "again", "decide"},
                         id  : Ids \union {0}, old : Ids \union {0},
                         won : BOOLEAN]]
  /\ \A t, u \in Tasks :
       (task[t].op = "create" /\ kind[task[t].id] = "install") =>
         /\ file[task[t].id] = "kept"
         /\ (task[u].op = "create" /\ kind[task[u].id] = "install") => t = u
  /\ nextId \in 1 .. MaxPolls + 1
  /\ applied \in [Ids -> Nat]
  /\ overlapped \subseteq Keys /\ squeezed \subseteq Keys
  /\ forgotten \subseteq Ids /\ unwritten \subseteq Ids
  /\ faults \in 0 .. MaxFaults /\ restarts \in 0 .. MaxRestarts

\* A poll takes effect once, though several tasks may have counted its votes
\* before the first of them removed it (bot.rs:1896-2042): always if it installs,
\* because the jar is gone, and if it removes, unless two tasks did overlap or the
\* config was not written when it was removed, and a restart brought it back.
AppliedOnce ==
  \A n \in Ids : \/ applied[n] <= 1
                 \/ kind[n] = "remove" /\ (key[n] \in overlapped \/ n \in unwritten)

\* While the config has an Install poll its temporary file is there, so that a
\* poll that is won can be carried out (bot.rs:1753-1850) -- but not if the config
\* was not written when the poll was stored or removed: the first drops the file
\* of a poll that stays (bot.rs:1826-1838), the second brings back one without.
TrackedHasFile ==
  \A k \in Keys : LET n == tracked[k] IN
    (n # 0 /\ kind[n] = "install") => file[n] = "kept" \/ n \in unwritten

\* A task removes the key without looking at the poll it has, and check_poll does
\* so twice (bot.rs:1874, 1957-1962).  So the config can lose a poll to a task for
\* an older one with the same key, but only if two tasks had handled one poll of
\* that key at once, or one was stored between the two removals of a task.
ForgottenOnlyByOverlap == \A n \in forgotten : key[n] \in overlapped \union squeezed

\* When the bot has yet to handle the end of a poll that is in the config and was
\* not deleted since, or its deletion, the poll leaves the config -- decided,
\* cancelled or forgotten -- whatever other tasks do, and across a restart
\* (bot.rs:835-866, 1511-1519).
\* What is handled before the poll is stored is lost on it (bot.rs:1824-1830).
PollsResolve ==
  \A n \in Ids :
    /\ (tracked[key[n]] = n /\ message[n] = "ended" /\ <<"result", n>> \in events)
         ~> tracked[key[n]] # n
    /\ (tracked[key[n]] = n /\ <<"deleted", n>> \in events) ~> tracked[key[n]] # n

\* "Edge case where the poll has been deleted: The second check will fail, and
\* the poll will be overwritten in the config" (bot.rs:1726): a request that got
\* past the deleted poll it found is not refused because of that same poll.
DeletedPollOverwritten ==
  [][\A t \in Tasks :
       (CreateStore(t) /\ task[t].old # 0 /\ tracked[key[task[t].id]] = task[t].old) =>
         tracked'[key[task[t].id]] = task[t].id]_vars
=============================================================================
