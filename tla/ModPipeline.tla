----------------------------- MODULE ModPipeline -----------------------------
(***************************************************************************)
(* Downloads of mods in the bot (mcayb/src/process_mods.rs): each runs as  *)
(* a task of its own that keeps its state in a slot of SharedMin::mods,    *)
(* and guild_loop (bot.rs) goes over the slots once a second, shows what   *)
(* it finds, asks for polls and frees the slots that are done with.        *)
(*                                                                         *)
(* The mutex around the slots is held by guild_loop for a whole round,     *)
(* awaits included; the tasks hold it for one read or write.  What becomes *)
(* of a poll is left to Polls; here its file is kept, left behind or       *)
(* deleted.                                                                *)
(***************************************************************************)
EXTENDS Integers

CONSTANTS Downloads,   \* interactions that ask for a mod
          Servers,
          ServerOf,    \* the server each of them is for
          Names,       \* names a temporary file can get
          NoDownload,  \* "the slot is free"
          Unreliable,  \* bound: servers whose messages Discord may refuse
          MaxSlots     \* bound: the slots that are ever in use

ASSUME ServerOfAssumption   == ServerOf \in [Downloads -> Servers]
ASSUME NoDownloadAssumption == NoDownload \notin Downloads
ASSUME SlotsAssumption      == MaxSlots \in Nat

VARIABLES
  pc,        \* where each task is
  slot,      \* the slot it was given
  name,      \* its temporary file
  slots,     \* SharedMin::mods
  disk,      \* the temporary files there are
  polled,    \* temporary files that belong to polls
  left,      \* temporary files nobody will delete any more
  message,   \* what the message about installations that the bot edits says in
             \* Discord, by server
  orphans,   \* servers with a message that says "status" and is edited no more
  refused,   \* history: servers with a message that Discord left as it was, and
             \* that the bot has not edited since
  visiting,  \* the slot guild_loop looks at next, 0 while the mutex is free
  remove,    \* to_remove: the slots it is going to free
  reported   \* history: how often each download led to a poll or to an error

tasks == <<pc, slot, name>>
files == <<disk, polled, left>>
chat  == <<message, orphans, refused>>
loop  == <<visiting, remove, reported>>
vars  == <<tasks, slots, files, chat, loop>>

Slots    == 1 .. MaxSlots
Unlocked == visiting = 0
NoEntry  == [of |-> NoDownload, state |-> "free"]
States   == {"Idle", "Downloaded", "Processed", "FuckedUp"}
NoName   == "none"

ASSUME NamesAssumption == NoName \notin Names

Init ==
  /\ pc = [d \in Downloads |-> "new"]
  /\ slot = [d \in Downloads |-> 0]
  /\ name = [d \in Downloads |-> NoName]
  /\ slots = [i \in Slots |-> NoEntry]
  /\ disk = {} /\ polled = {} /\ left = {}
  /\ message = [s \in Servers |-> "none"] /\ orphans = {} /\ refused = {}
  /\ visiting = 0 /\ remove = {}
  /\ reported = [d \in Downloads |-> 0]

-----------------------------------------------------------------------------
(***************************************************************************)
(* The task of a download.                                                 *)
(***************************************************************************)
Goto(d, from, to) == pc[d] = from /\ pc' = [pc EXCEPT ![d] = to]

TaskKept == UNCHANGED <<polled, left, chat, loop>>

\* mods_allocate: any slot that is free.
Allocate(d) ==
  /\ Goto(d, "new", "fetch")
  /\ Unlocked
  /\ \E i \in Slots :
       /\ slots[i] = NoEntry
       /\ slots' = [slots EXCEPT ![i] = [of |-> d, state |-> "Idle"]]
       /\ slot' = [slot EXCEPT ![d] = i]
  /\ UNCHANGED <<name, disk>> /\ TaskKept

\* The request is sent; if it is answered, a file with a name that is not taken
\* is created.
FetchInto(d, free) ==
  /\ \/ Goto(d, "fetch", "failing") /\ UNCHANGED <<name, disk>>
     \/ /\ Goto(d, "fetch", "copy")
        /\ \E n \in free :
             /\ name' = [name EXCEPT ![d] = n]
             /\ disk' = disk \union {n}
  /\ UNCHANGED <<slot, slots>> /\ TaskKept

FetchOver(d) == FetchInto(d, Names)   \* variant: create, not create_new
Fetch(d)     == FetchInto(d, Names \ disk)

\* A step that fails drops the DelOnDrop and with it the file.
DropFile(d) == disk' = disk \ {name[d]} /\ name' = [name EXCEPT ![d] = NoName]
KeepFile    == UNCHANGED <<disk, name>>

\* io::copy of the body to the file.
Copy(d) ==
  /\ \/ Goto(d, "copy", "downloaded") /\ KeepFile
     \/ Goto(d, "copy", "failing") /\ DropFile(d)
  /\ UNCHANGED <<slot, slots>> /\ TaskKept

\* mods_set: the task writes into the slot it was given, whatever it holds.
Write(d, from, to, state) ==
  /\ Goto(d, from, to)
  /\ Unlocked
  /\ slots' = [slots EXCEPT ![slot[d]] = [of |-> d, state |-> state]]
  /\ UNCHANGED <<slot, name, disk>> /\ TaskKept

\* parse_mod reads the jar; only then the file is forgiven.
ParseOr(d, failure) ==
  /\ \/ Goto(d, "parse", "processed") /\ KeepFile
     \/ Goto(d, "parse", "failing") /\ failure
  /\ UNCHANGED <<slot, slots>> /\ TaskKept

ParseForgiven(d) == ParseOr(d, disk' = disk /\ name' = [name EXCEPT ![d] = NoName])  \* variant
Parse(d)         == ParseOr(d, DropFile(d))

PublishSuccess(d) ==   \* variant: mod_thread does not pass the error on
  \/ Write(d, "downloaded", "parse", "Downloaded")
  \/ Write(d, "processed", "done", "Processed")

Publish(d) ==
  \/ Write(d, "downloaded", "parse", "Downloaded")
  \/ Write(d, "processed", "done", "Processed")
  \/ Write(d, "failing", "done", "FuckedUp")

-----------------------------------------------------------------------------
(***************************************************************************)
(* guild_loop.                                                             *)
(***************************************************************************)
\* The bot forgets these messages, whatever they say.
Forget(servers) ==
  /\ message' = [s \in Servers |-> IF s \in servers THEN "none" ELSE message[s]]
  /\ orphans' = orphans \union {s \in servers : message[s] = "status"}

\* The slots are locked; if there is nothing in them, the messages are forgotten.
LoopBegin ==
  /\ Unlocked
  /\ Forget(IF \A i \in Slots : slots[i] = NoEntry THEN Servers ELSE {})
  /\ visiting' = 1
  /\ UNCHANGED <<tasks, slots, files, refused, remove, reported>>

Entry == slots[visiting]

\* The message of a server is sent, edited or deleted, if Discord does so.
Becomes(s, text) ==
  /\ message' = [message EXCEPT ![s] = text]
  /\ refused' = refused \ ({s} \ orphans)
  /\ UNCHANGED orphans

Refused(s) ==
  s \in Unreliable /\ refused' = refused \union (IF message[s] = "none" THEN {} ELSE {s})

\* send_msg edits the message there is, or tries to send one.
Showing(text) ==
  LET s == ServerOf[Entry.of] IN
    \/ Becomes(s, text)
    \/ Refused(s) /\ UNCHANGED <<message, orphans>>

Visit(states) ==
  /\ visiting \in Slots
  /\ Entry.state \in states
  /\ visiting' = visiting + 1
  /\ UNCHANGED <<pc, slot, slots>>

VisitFree == Visit({"free"}) /\ UNCHANGED <<name, files, chat, remove, reported>>

VisitUnderWay ==
  /\ Visit({"Idle", "Downloaded"})
  /\ Showing("status")
  /\ UNCHANGED <<name, files, remove, reported>>

Settle(text) ==
  /\ remove' = remove \union {visiting}
  /\ reported' = [reported EXCEPT ![Entry.of] = @ + 1]
  /\ text

VisitFailed ==
  /\ Visit({"FuckedUp"})
  /\ Settle(Showing("error"))
  /\ UNCHANGED <<name, files>>

\* The file is handed to create_poll: the poll keeps it, or it is deleted there,
\* or the request is refused before create_poll has a DelOnDrop for it.
VisitProcessedAnd(text) ==
  /\ Visit({"Processed"})
  /\ Settle(text)
  /\ LET d == Entry.of
         n == name[d]
     IN /\ name' = [name EXCEPT ![d] = NoName]
        /\ \/ polled' = polled \union {n} /\ UNCHANGED <<disk, left>>
           \/ left' = left \union {n} /\ UNCHANGED <<disk, polled>>
           \/ disk' = disk \ {n} /\ UNCHANGED <<polled, left>>

\* delete_msg forgets the message whether or not it is gone.
Deleted ==
  LET s == ServerOf[Entry.of] IN
    \/ Becomes(s, "none")
    \/ Refused(s) /\ Forget({s})

VisitKeepsMessage == VisitProcessedAnd(UNCHANGED chat)   \* variant: no delete_msg
VisitProcessed    == VisitProcessedAnd(Deleted)

\* The slots that are done with are freed, and the mutex with them.
LoopEndFreeing(done, listed) ==
  /\ visiting = MaxSlots + 1
  /\ visiting' = 0
  /\ slots' = [i \in Slots |-> IF i \in done THEN NoEntry ELSE slots[i]]
  /\ remove' = listed
  /\ UNCHANGED <<tasks, files, chat, reported>>

\* Variants: to_remove outlives the round; nothing is freed; a slot is freed
\* before its mod is processed.
LoopKeepsList  == LoopEndFreeing(remove, remove)
LoopKeeps      == LoopEndFreeing({}, {})
LoopFreesEarly == LoopEndFreeing(remove \union {i \in Slots : slots[i].state = "Downloaded"}, {})

LoopEnd == LoopEndFreeing(remove, {})

LoopStep == LoopBegin \/ VisitFree \/ VisitUnderWay \/ VisitFailed
              \/ VisitProcessed \/ LoopEnd

\* A poll is over and has deleted its file.
PollEnds(n) ==
  /\ n \in polled
  /\ polled' = polled \ {n} /\ disk' = disk \ {n}
  /\ UNCHANGED <<tasks, slots, left, chat, loop>>

Next ==
  \/ \E d \in Downloads : Allocate(d) \/ Fetch(d) \/ Copy(d) \/ Parse(d) \/ Publish(d)
  \/ LoopStep
  \/ \E n \in Names : PollEnds(n)

Spec == Init /\ [][Next]_vars

\* The runtime polls every task; tokio's mutex serves its waiters in the order
\* they came, so a task gets it although guild_loop takes it again and again.
\* A download may last for ever: the request has no timeout.
FairSpec ==
  /\ Spec
  /\ WF_vars(LoopStep)
  /\ \A d \in Downloads : WF_vars(Parse(d)) /\ SF_vars(Publish(d))
-----------------------------------------------------------------------------
(***************************************************************************)
(* Properties.                                                             *)
(***************************************************************************)
Working == {"fetch", "copy", "downloaded", "parse", "processed", "failing"}

\* The shape of the state; to_remove lives for one round.
ModsTypeOK ==
  /\ pc \in [Downloads -> Working \union {"new", "done"}]
  /\ slot \in [Downloads -> Slots \union {0}]
  /\ \A d \in Downloads : pc[d] # "new" => slot[d] # 0
  /\ name \in [Downloads -> Names \union {NoName}]
  /\ slots \in [Slots -> [of : Downloads, state : States] \union {NoEntry}]
  /\ disk \subseteq Names /\ polled \subseteq Names /\ left \subseteq Names
  /\ message \in [Servers -> {"none", "status", "error"}]
  /\ orphans \subseteq Servers /\ refused \subseteq Servers
  /\ visiting \in 0 .. MaxSlots + 1
  /\ remove \subseteq Slots
  /\ Unlocked => remove = {}
  /\ reported \in [Downloads -> Nat]

\* A task that may still write owns its slot: guild_loop never frees a slot,
\* or lets another task have it, before the last write of the task it belongs to
\* (process_mods.rs:72, 83; bot.rs:1675-1711).
SlotsOwned ==
  \A d \in Downloads : pc[d] \in Working =>
    /\ slots[slot[d]].of = d
    /\ slots[slot[d]].state \in {"Idle", "Downloaded"}

\* Every temporary file has one owner who will delete it -- a task, a download
\* that waits for its poll, or a poll -- except those of refused requests; and
\* no owner's file is deleted by somebody else (process_mods.rs:50-75).
FilesAccounted ==
  /\ disk = {name[d] : d \in {e \in Downloads : name[e] # NoName}} \union polled \union left
  /\ \A d \in Downloads : name[d] # NoName =>
       /\ name[d] \notin polled \union left
       /\ \A e \in Downloads \ {d} : name[e] # name[d]
       /\ pc[d] = "done" => slots[slot[d]] = [of |-> d, state |-> "Processed"]

\* A download leads to one poll or to one error message, and to nothing before
\* its task is over, though rounds and writes interleave (bot.rs:1686-1711).
ReportedOnce ==
  \A d \in Downloads : reported[d] <= (IF pc[d] = "done" THEN 1 ELSE 0)

\* Between rounds, a message in Discord that tells how a download is going is about
\* one that is still going: nobody is left with "sent for downloading", although all
\* downloads of a server share one message.  The exception is one that Discord did
\* not edit or delete, until the bot edits it again, or for ever if the bot has
\* forgotten it meanwhile (bot.rs:1278-1296, 1670-1707).
StatusHasDownload ==
  \A s \in Servers \ refused : (Unlocked /\ (message[s] = "status" \/ s \in orphans)) =>
    \E i \in Slots : slots[i] # NoEntry /\ ServerOf[slots[i].of] = s

\* A download that has ended, well or not, is reported.
DownloadsReported ==
  \A d \in Downloads : (pc[d] \in Working \ {"fetch", "copy"}) ~> reported[d] = 1
=============================================================================
