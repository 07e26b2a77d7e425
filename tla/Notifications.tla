---------------------------- MODULE Notifications ----------------------------
(***************************************************************************)
(* How the bot learns what happens to the servers: the threads of          *)
(* server_loop.rs put notifications into one queue per account, under one  *)
(* global mutex, and once a second guild_loop (bot.rs) asks for the queue  *)
(* of its account and shows what was in it.                                *)
(*                                                                         *)
(* A thread is seen here only through the statuses it sets and the         *)
(* notifications it pushes; ServerLoop has the rest.  The progress of a    *)
(* copy or a zip is one notification that is replaced where it stands.     *)
(***************************************************************************)
EXTENDS Integers, Sequences

CONSTANTS Servers, Accounts,
          AccountOf,   \* the account a server belongs to
          Nobody,      \* "the mutex is free"
          Jobs,        \* the long works asked for
          Quiet,       \* statuses without progress that threads go through
          MaxChanges,  \* bound: times the threads leave their rest
          MaxLosses    \* bound: answers lost, messages refused, bots and daemons restarted

Works == {"BackingUp", "Restoring", "Packaging"}

ASSUME AccountAssumption == AccountOf \in [Servers -> Accounts]
ASSUME NobodyAssumption  == Nobody \notin Servers
ASSUME JobsAssumption    == Jobs \subseteq Works
ASSUME QuietAssumption   == Quiet \subseteq {"Starting", "Running", "Stopping", "Modding"}
ASSUME BoundAssumption   == MaxChanges \in Nat /\ MaxLosses \in Nat

VARIABLES
  status,   \* Shared::status of each server
  pc,       \* each thread: "rest", "work", or "locked" in the callback of Restore
  todo,     \* what each thread has still to push
  lock,     \* who holds the mutex NOTIFICATIONS for longer than one call
  queue,    \* NOTIFICATIONS, by account
  batch,    \* the notifications taken out for the bot
  open,     \* the bot's groups in which each server has a message to edit
  told,     \* history: the last status of each server that was shown in its channel
  unseen,   \* history: servers with a later status, whose message was refused
  lost,     \* history: accounts some of whose notifications were lost
  changes, losses

threads == <<status, pc, todo, changes>>
bot     == <<batch, open, told, unseen, lost, losses>>
vars    == <<threads, lock, queue, bot>>

Status == Works \union Quiet \union {"Idle"}

Changed(s, old, new) == [kind |-> "status", server |-> s, old |-> old, new |-> new]
Progress(s, w)       == [kind |-> "progress", server |-> s, old |-> w, new |-> w]
Outcome(s, w)        == [kind |-> "outcome", server |-> s, old |-> w, new |-> "Idle"]

Notices == {Changed(s, o, n) : s \in Servers, o \in Status, n \in Status}
             \union {Progress(s, w) : s \in Servers, w \in Works}
             \union {Outcome(s, w) : s \in Servers, w \in Works}

Init ==
  /\ status = [s \in Servers |-> "Idle"]
  /\ pc = [s \in Servers |-> "rest"]
  /\ todo = [s \in Servers |-> << >>]
  /\ lock = Nobody
  /\ queue = [a \in Accounts |-> << >>]
  /\ batch = [a \in Accounts |-> << >>]
  /\ open = [s \in Servers |-> {}]
  /\ told = [s \in Servers |-> "Idle"]
  /\ unseen = {}
  /\ lost = {}
  /\ changes = 0 /\ losses = 0

-----------------------------------------------------------------------------
(***************************************************************************)
(* The threads.  todo is what the code pushes next, in order; a thread     *)
(* does nothing else until it has.                                         *)
(***************************************************************************)
Waiting(s) == todo[s] # << >>

\* update_status: the new status is swapped in; the notification is still to come.
Swap(s, new, andThen) ==
  /\ status' = [status EXCEPT ![s] = new]
  /\ todo' = [todo EXCEPT ![s] =
                 (IF status[s] = new THEN << >> ELSE <<Changed(s, status[s], new)>>)
                   \o andThen]

Spend == changes < MaxChanges /\ changes' = changes + 1

\* A thread at rest begins a backup, a restoration or a zip.
Begin(s, w) ==
  /\ pc[s] = "rest" /\ ~Waiting(s)
  /\ Spend
  /\ Swap(s, w, << >>)
  /\ pc' = [pc EXCEPT ![s] = "work"]
  /\ UNCHANGED <<lock, queue, bot>>

\* Or it moves to a status without progress: the game starts, runs, stops ...
Move(s, new) ==
  /\ pc[s] = "rest" /\ ~Waiting(s)
  /\ new # status[s]
  /\ IF new = "Idle" THEN UNCHANGED changes ELSE Spend
  /\ Swap(s, new, << >>)
  /\ UNCHANGED <<pc, lock, queue, bot>>

\* A zip that is up to date, or a restoration without a backup: no status, only
\* the outcome.
Skip(s, w) ==
  /\ pc[s] = "rest" /\ ~Waiting(s)
  /\ w \in {"Packaging", "Restoring"}
  /\ Spend
  /\ Swap(s, "Idle", <<Outcome(s, w)>>)
  /\ UNCHANGED <<pc, lock, queue, bot>>

\* push_notif, one critical section; the variant pushes into an empty queue only.
PushIfQuiet(s) ==
  /\ Waiting(s)
  /\ lock = Nobody
  /\ queue' = [queue EXCEPT ![AccountOf[s]] =
                  IF @ = << >> THEN Append(@, Head(todo[s])) ELSE @]
  /\ todo' = [todo EXCEPT ![s] = Tail(@)]
  /\ UNCHANGED <<status, pc, changes, lock, bot>>

Push(s) ==
  /\ Waiting(s)
  /\ lock = Nobody
  /\ queue' = [queue EXCEPT ![AccountOf[s]] = Append(@, Head(todo[s]))]
  /\ todo' = [todo EXCEPT ![s] = Tail(@)]
  /\ UNCHANGED <<status, pc, changes, lock, bot>>

SameProgress(n, w) == n.kind = "progress" /\ n.old = w

\* replace_notif_if with is_backup_progress or is_package_progress: the first
\* such notification is replaced, whichever server of the account it is about.
AlwaysPush(q, n) == Append(q, n)   \* variant

ReplaceOrPush(q, n) ==
  IF \E i \in DOMAIN q : SameProgress(q[i], n.old)
  THEN LET i == CHOOSE i \in DOMAIN q : /\ SameProgress(q[i], n.old)
                                        /\ \A j \in DOMAIN q : SameProgress(q[j], n.old) => i <= j
       IN [q EXCEPT ![i] = n]
  ELSE Append(q, n)

Callback(s) ==
  /\ pc[s] = "work" /\ ~Waiting(s)
  /\ status[s] \in {"BackingUp", "Packaging"}
  /\ lock = Nobody
  /\ queue' = [queue EXCEPT ![AccountOf[s]] =
                  ReplaceOrPush(@, Progress(s, status[s]))]
  /\ UNCHANGED <<threads, lock, bot>>

\* The callback of Restore locks the mutex and calls replace_notif_if, which
\* locks it again: what would come next is never enabled.
RestoreCallback(s) ==
  /\ pc[s] = "work" /\ ~Waiting(s)
  /\ status[s] = "Restoring"
  /\ lock = Nobody
  /\ lock' = s
  /\ pc' = [pc EXCEPT ![s] = "locked"]
  /\ UNCHANGED <<status, todo, changes, queue, bot>>

\* The work ends: Idle first, then its outcome -- a failure, or for a zip either.
EndFirst(s, next) ==
  /\ pc[s] = "work" /\ ~Waiting(s)
  /\ \E result \in {<<Outcome(s, status[s])>>} \union
                     (IF status[s] = "Packaging" THEN {} ELSE {<< >>}) :
       Swap(s, "Idle", result)
  /\ pc' = [pc EXCEPT ![s] = next]
  /\ UNCHANGED <<changes, lock, queue, bot>>

End(s) == EndFirst(s, "rest")

-----------------------------------------------------------------------------
(***************************************************************************)
(* The bot of an account.                                                  *)
(***************************************************************************)
\* get_notifs in a client thread: the queue is taken and replaced by an empty one;
\* the bot gets what was in it.
DrainLeaving(a, rest) ==
  /\ lock = Nobody
  /\ batch[a] = << >> /\ queue[a] # << >>
  /\ batch' = [batch EXCEPT ![a] = queue[a]]
  /\ queue' = [queue EXCEPT ![a] = rest]
  /\ UNCHANGED <<threads, lock, open, told, unseen, lost, losses>>

DrainCopies(a) == DrainLeaving(a, queue[a])   \* variant: clone, not replace
Drain(a)       == DrainLeaving(a, << >>)

GroupUnknown(w) == "copy"   \* variant: a group that does not exist

\* The group in which a work's progress is shown: those of backup and restore
\* are swapped.
Group(w) == CASE w = "BackingUp" -> "restore"
              [] w = "Restoring" -> "backup"
              [] w = "Packaging" -> "zip"

\* What the reset after a StatusChanged leaves open.
BackupReset(groups, new) == IF new # "BackingUp" THEN groups \ {"backup"} ELSE groups  \* variant

Reset(groups, new) ==
  {g \in groups : /\ g = "backup" => new = "BackingUp"
                  /\ g = "restore" => new = "Restoring"}

OpenAfter(n) ==
  CASE n.kind = "progress" -> open[n.server] \union {Group(n.old)}
    [] n.kind = "outcome"  -> open[n.server] \ (IF n.old = "Packaging" THEN {"zip"} ELSE {})
    [] n.kind = "status"   -> Reset(open[n.server], n.new)

Fault == losses < MaxLosses /\ losses' = losses + 1

Sent(n) ==
  /\ open' = [open EXCEPT ![n.server] = OpenAfter(n)]
  /\ IF n.kind = "status"
     THEN told' = [told EXCEPT ![n.server] = n.new] /\ unseen' = unseen \ {n.server}
     ELSE UNCHANGED <<told, unseen>>
  /\ UNCHANGED losses

\* Discord refuses the message or the edit: the error is dropped and nothing is
\* sent again.  No message is there to edit if there was none, the rest goes on.
Refused(n) ==
  /\ Fault
  /\ open' = IF n.kind = "progress" THEN open
             ELSE [open EXCEPT ![n.server] = OpenAfter(n)]
  /\ unseen' = IF n.kind = "status" THEN unseen \union {n.server} ELSE unseen
  /\ UNCHANGED told

\* One round of the loop over the notifications.
Show(a) ==
  /\ batch[a] # << >>
  /\ Sent(Head(batch[a])) \/ Refused(Head(batch[a]))
  /\ batch' = [batch EXCEPT ![a] = Tail(@)]
  /\ UNCHANGED <<threads, lock, queue, lost>>

\* The queue was taken, but the answer never reaches the bot.
LoseAnswer(a) ==
  /\ lock = Nobody
  /\ queue[a] # << >>
  /\ Fault
  /\ lost' = lost \union {a}
  /\ queue' = [queue EXCEPT ![a] = << >>]
  /\ UNCHANGED <<threads, lock, batch, open, told, unseen>>

\* The bot dies, with what it had still to show and its messages.
BotDies(a) ==
  /\ Fault
  /\ lost' = lost \union {a}
  /\ batch' = [batch EXCEPT ![a] = << >>]
  /\ open' = [s \in Servers |-> IF AccountOf[s] = a THEN {} ELSE open[s]]
  /\ UNCHANGED <<threads, lock, queue, told, unseen>>

\* The daemon starts again: queues, the mutex and threads were only in memory, and
\* nobody is told that the statuses are back to Idle.
DaemonRestarts ==
  /\ Fault
  /\ lost' = Accounts
  /\ status' = [s \in Servers |-> "Idle"]
  /\ pc' = [s \in Servers |-> "rest"]
  /\ todo' = [s \in Servers |-> << >>]
  /\ lock' = Nobody
  /\ queue' = [a \in Accounts |-> << >>]
  /\ UNCHANGED <<changes, batch, open, told, unseen>>

-----------------------------------------------------------------------------
ThreadStep(s) == Push(s) \/ Callback(s) \/ RestoreCallback(s) \/ End(s)
BotStep(a)    == Drain(a) \/ Show(a)

Next ==
  \/ \E s \in Servers : \/ \E w \in Jobs : Begin(s, w)
                        \/ \E new \in Quiet \union {"Idle"} : Move(s, new)
                        \/ \E w \in Jobs : Skip(s, w)
                        \/ ThreadStep(s)
  \/ \E a \in Accounts : BotStep(a) \/ LoseAnswer(a) \/ BotDies(a)
  \/ DaemonRestarts

Spec == Init /\ [][Next]_vars

\* Threads and bots keep running, and a copy has finitely many files.
FairSpec ==
  /\ Spec
  /\ \A s \in Servers : WF_vars(Push(s)) /\ WF_vars(End(s))
  /\ \A a \in Accounts : WF_vars(BotStep(a))
-----------------------------------------------------------------------------
(***************************************************************************)
(* Properties.                                                             *)
(***************************************************************************)
\* The shape of the state.
NotifTypeOK ==
  /\ status \in [Servers -> Status]
  /\ pc \in [Servers -> {"rest", "work", "locked"}]
  /\ todo \in [Servers -> Seq(Notices)]
  /\ lock \in Servers \union {Nobody}
  /\ queue \in [Accounts -> Seq(Notices)]
  /\ batch \in [Accounts -> Seq(Notices)]
  /\ open \in [Servers -> SUBSET {"backup", "restore", "zip"}]
  /\ told \in [Servers -> Status]
  /\ unseen \subseteq Servers
  /\ lost \subseteq Accounts
  /\ changes \in 0 .. MaxChanges /\ losses \in 0 .. MaxLosses

\* The changes of s in q lead from one status to another: the first starts at
\* the one, each starts where the one before it ended, the last ends at the other.
Leads(q, s, from, to) ==
  LET steps == {i \in DOMAIN q : q[i].kind = "status" /\ q[i].server = s}
  IN /\ steps = {} => from = to
     /\ \A i \in steps : /\ (\A j \in steps : i <= j) => q[i].old = from
                         /\ (\A j \in steps : j <= i) => q[i].new = to
     /\ \A i, j \in steps :
          (i < j /\ \A k \in steps : k <= i \/ j <= k) => q[i].new = q[j].old

\* No status change is skipped, doubled or overtaken by another of its server:
\* what the bot has handled, what is on its way -- taken by the bot, queued, or
\* still to be pushed -- and the status itself form one chain, as long as nothing
\* was lost (server_loop.rs:78-97, 130-136).  What was handled last is what the
\* channel shows, except for a message that Discord refused (bot.rs:1652).
StatusChain ==
  \A s \in Servers : AccountOf[s] \notin lost =>
    \E handled, taken, queued \in Status :
      /\ s \notin unseen => handled = told[s]
      /\ Leads(batch[AccountOf[s]], s, handled, taken)
      /\ Leads(queue[AccountOf[s]], s, taken, queued)
      /\ Leads(todo[s], s, queued, status[s])

\* However many files and servers there are, a queue nobody asks for holds at
\* most one progress notification of each kind (server_loop.rs:93-108).
OneProgressPerKind ==
  \A a \in Accounts : \A i, j \in DOMAIN queue[a] :
    (SameProgress(queue[a][i], queue[a][j].old) /\ queue[a][j].kind = "progress") => i = j

\* Replacing a notification where it stands shows progress too early, never too
\* late: behind a server's last notification that its work has ended there is
\* none about its progress.  So once the bot has shown all there is, it has no
\* message of a resting server left to edit -- although it keeps the messages of
\* backups and restorations under each other's name (bot.rs:1632-1664).
Settled(s) ==
  LET a == AccountOf[s] IN
    /\ pc[s] = "rest" /\ ~Waiting(s)
    /\ a \notin lost
    /\ \A i \in DOMAIN queue[a] : queue[a][i].server # s
    /\ \A i \in DOMAIN batch[a] : batch[a][i].server # s

MessagesSettle == \A s \in Servers : Settled(s) => open[s] = {}

\* The mutex is only ever held across calls by the callback of a restoration,
\* and then for ever.
Hung == lock # Nobody

\* Again and again the channel shows the status each server has: changes are
\* bounded, so this is the last one.  Nothing is ever sent twice, so it does not
\* when the message with the latest status was refused (bot.rs:1652), when an
\* answer, the bot or the daemon was lost with notifications in it, or when a
\* restoration has taken the mutex for good.
StatusShown ==
  \A s \in Servers :
    []<>(told[s] = status[s] \/ s \in unseen \/ AccountOf[s] \in lost \/ Hung)

\* What the notification "restore progress" and the bot's "Restoring backup!"
\* promise: a restoration that was begun comes to an end.
RestoreCompletes ==
  \A s \in Servers : (status[s] = "Restoring") ~> (status[s] # "Restoring")
=============================================================================
