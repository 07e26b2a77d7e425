-------------------------- MODULE ModPipelineProofs --------------------------
(***************************************************************************)
(* Proofs about ModPipeline for any downloads, servers, names and slots.   *)
(***************************************************************************)
EXTENDS ModPipeline, TLAPS

USE ServerOfAssumption, NoDownloadAssumption, SlotsAssumption, NamesAssumption
USE DEF ServerOfAssumption, NoDownloadAssumption, SlotsAssumption, NamesAssumption

HasEnded == {"Processed", "FuckedUp"}

\* A slot in use belongs to a download that was given it and has started.
SlotsKnown ==
  \A i \in Slots : slots[i] # NoEntry =>
    /\ slot[slots[i].of] = i
    /\ pc[slots[i].of] # "new"

\* What a round is going to free is done with, and it has looked at it.
RemoveDone ==
  \A i \in remove : slots[i].state \in HasEnded /\ i < visiting

\* A download that was reported is over, and its slot about to be freed.
ReportedDone ==
  \A d \in Downloads :
    \/ reported[d] = 0
    \/ /\ reported[d] = 1 /\ pc[d] = "done"
       /\ \A i \in Slots : slots[i].of = d => i \in remove

\* A download has a file between its request and the hand-over to a poll.
WaitsForPoll(d) ==
  /\ pc[d] = "done"
  /\ slots[slot[d]] = [of |-> d, state |-> "Processed"]
  /\ slot[d] \notin remove

HasFile == {"copy", "downloaded", "parse", "processed"}

NamesKnown ==
  \A d \in Downloads : name[d] # NoName <=> (pc[d] \in HasFile \/ WaitsForPoll(d))

\* A file of a poll is not one that was left behind.
OwnersApart == polled \intersect left = {}

\* Together they are inductive.
ModsInv ==
  /\ ModsTypeOK
  /\ SlotsOwned
  /\ SlotsKnown
  /\ RemoveDone
  /\ ReportedDone
  /\ NamesKnown
  /\ FilesAccounted
  /\ OwnersApart

\* No slot is in use at first, and no file is there.
LEMMA ModsInit == Init => ModsInv
<1> SUFFICES ASSUME Init PROVE ModsInv
  OBVIOUS
<1> USE DEF Init, Slots, NoEntry
<1>1. ModsTypeOK
  BY DEF ModsTypeOK, Working, Unlocked
<1>2. SlotsOwned /\ SlotsKnown /\ RemoveDone /\ ReportedDone
  BY DEF SlotsOwned, SlotsKnown, RemoveDone, ReportedDone, Working
<1>3. NamesKnown /\ FilesAccounted /\ OwnersApart
  BY DEF NamesKnown, WaitsForPoll, HasFile, FilesAccounted, OwnersApart
<1> QED
  BY <1>1, <1>2, <1>3 DEF ModsInv

\* What a slot holds is a download, unless the slot is free.
LEMMA SlotEntry ==
  ASSUME ModsTypeOK, NEW i \in Slots
  PROVE  /\ slots[i] \in [of : Downloads, state : States] \/ slots[i] = NoEntry
         /\ slots[i].state # "free" => slots[i] # NoEntry /\ slots[i].of \in Downloads
BY DEF ModsTypeOK, NoEntry, States

ChatTypeOK ==
  /\ message \in [Servers -> {"none", "status", "error"}]
  /\ orphans \subseteq Servers /\ refused \subseteq Servers

LEMMA ShowingType ==
  ASSUME ChatTypeOK, Entry.of \in Downloads, NEW text \in {"status", "error"}, Showing(text)
  PROVE  ChatTypeOK'
BY DEF ChatTypeOK, Showing, Becomes, Refused

LEMMA DeletedType ==
  ASSUME ChatTypeOK, Entry.of \in Downloads, Deleted
  PROVE  ChatTypeOK'
BY DEF ChatTypeOK, Deleted, Becomes, Refused, Forget

\* A task takes a slot that was free, so it shares it with nobody.
LEMMA StepAllocate == ASSUME ModsInv, NEW d \in Downloads, Allocate(d) PROVE ModsInv'
<1> USE DEF ModsInv, Allocate, Goto, TaskKept, chat, loop
<1>1. ModsTypeOK'
  <2>1. pc' \in [Downloads -> Working \union {"new", "done"}]
    BY DEF ModsTypeOK, Working
  <2>2. slot' \in [Downloads -> Slots \union {0}] /\ name' \in [Downloads -> Names \union {NoName}]
    BY DEF ModsTypeOK
  <2>3. \A e \in Downloads : pc'[e] # "new" => slot'[e] # 0
    BY DEF ModsTypeOK, Slots
  <2>4. slots' \in [Slots -> [of : Downloads, state : States] \union {NoEntry}]
    BY DEF ModsTypeOK, SlotsOwned, Working, States
  <2>5. disk' \subseteq Names
    BY DEF ModsTypeOK
  <2> QED
    BY <2>1, <2>2, <2>3, <2>4, <2>5 DEF ModsTypeOK, Unlocked, Slots
<1>2. SlotsOwned'
  BY SlotEntry DEF ModsTypeOK, SlotsOwned, Working
<1>3. SlotsKnown'
  BY SlotEntry DEF ModsTypeOK, SlotsOwned, SlotsKnown, Working, NoEntry
<1>4. RemoveDone'
  BY SlotEntry DEF ModsTypeOK, SlotsOwned, RemoveDone, HasEnded, Working, NoEntry
<1>5. ReportedDone'
  BY SlotEntry DEF ModsTypeOK, SlotsOwned, ReportedDone, Working, NoEntry
<1>6. NamesKnown'
  <2> SUFFICES ASSUME NEW e \in Downloads
               PROVE  (name[e] # NoName <=> (pc[e] \in HasFile \/ WaitsForPoll(e)))'
    BY DEF NamesKnown
  <2>1. name[e] # NoName <=> (pc[e] \in HasFile \/ WaitsForPoll(e))
    BY DEF NamesKnown
  <2>2. CASE e = d
    BY <2>1, <2>2 DEF HasFile, WaitsForPoll, ModsTypeOK, SlotsOwned, RemoveDone, HasEnded, Working
  <2>3. CASE e # d
    <3>1. name'[e] = name[e] /\ pc'[e] = pc[e] /\ slot'[e] = slot[e]
      BY <2>3 DEF ModsTypeOK
    <3>2. pc[e] = "done" => slot[e] \in Slots
      BY DEF ModsTypeOK
    <3>3. WaitsForPoll(e)' <=> WaitsForPoll(e)
      BY <2>3, <3>1, <3>2 DEF WaitsForPoll, ModsTypeOK, SlotsOwned, Working, NoEntry
    <3> QED
      BY <2>1, <3>1, <3>3
  <2> QED
    BY <2>2, <2>3
<1>7. FilesAccounted'
  BY SlotEntry DEF ModsTypeOK, FilesAccounted, NamesKnown, WaitsForPoll, HasFile, NoEntry
<1>8. OwnersApart'
  BY SlotEntry DEF ModsTypeOK, OwnersApart
<1> QED
  BY <1>1, <1>2, <1>3, <1>4, <1>5, <1>6, <1>7, <1>8

\* A task gets a file of its own, or fails and reports in its slot.
LEMMA StepFetch == ASSUME ModsInv, NEW d \in Downloads, Fetch(d) PROVE ModsInv'
<1> USE DEF ModsInv, Fetch, FetchInto, Goto, TaskKept, chat, loop
<1>1. ModsTypeOK'
  <2>1. pc' \in [Downloads -> Working \union {"new", "done"}]
    BY DEF ModsTypeOK, Working
  <2>2. slot' \in [Downloads -> Slots \union {0}] /\ name' \in [Downloads -> Names \union {NoName}]
    BY DEF ModsTypeOK
  <2>3. \A e \in Downloads : pc'[e] # "new" => slot'[e] # 0
    BY DEF ModsTypeOK, Slots
  <2>4. slots' \in [Slots -> [of : Downloads, state : States] \union {NoEntry}]
    BY DEF ModsTypeOK, SlotsOwned, Working, States
  <2>5. disk' \subseteq Names
    BY DEF ModsTypeOK
  <2> QED
    BY <2>1, <2>2, <2>3, <2>4, <2>5 DEF ModsTypeOK, Unlocked, Slots
<1>2. SlotsOwned'
  BY SlotEntry DEF ModsTypeOK, SlotsOwned, Working
<1>3. SlotsKnown'
  BY SlotEntry DEF ModsTypeOK, SlotsOwned, SlotsKnown, Working, NoEntry
<1>4. RemoveDone'
  BY SlotEntry DEF ModsTypeOK, SlotsOwned, RemoveDone, HasEnded, Working, NoEntry
<1>5. ReportedDone'
  BY SlotEntry DEF ModsTypeOK, SlotsOwned, ReportedDone, Working, NoEntry
<1>6. NamesKnown'
  <2> SUFFICES ASSUME NEW e \in Downloads
               PROVE  (name[e] # NoName <=> (pc[e] \in HasFile \/ WaitsForPoll(e)))'
    BY DEF NamesKnown
  <2>1. name[e] # NoName <=> (pc[e] \in HasFile \/ WaitsForPoll(e))
    BY DEF NamesKnown
  <2>2. CASE e = d
    BY <2>1, <2>2 DEF HasFile, WaitsForPoll, ModsTypeOK, SlotsOwned, RemoveDone, HasEnded, Working
  <2>3. CASE e # d
    <3>1. name'[e] = name[e] /\ pc'[e] = pc[e] /\ slot'[e] = slot[e]
      BY <2>3 DEF ModsTypeOK
    <3>2. pc[e] = "done" => slot[e] \in Slots
      BY DEF ModsTypeOK
    <3>3. WaitsForPoll(e)' <=> WaitsForPoll(e)
      BY <2>3, <3>1, <3>2 DEF WaitsForPoll, ModsTypeOK, SlotsOwned, Working, NoEntry
    <3> QED
      BY <2>1, <3>1, <3>3
  <2> QED
    BY <2>2, <2>3
<1>7. FilesAccounted'
  <2>1. CASE UNCHANGED <<name, disk>>
    <3>1. pc'[d] # "done" /\ \A e \in Downloads \ {d} : pc'[e] = pc[e]
      BY DEF ModsTypeOK
    <3> QED
      BY <2>1, <3>1 DEF FilesAccounted
  <2>2. ASSUME NEW n \in Names \ disk,
               name' = [name EXCEPT ![d] = n], disk' = disk \union {n}
        PROVE  FilesAccounted'
    <3>1. pc'[d] # "done" /\ \A e \in Downloads \ {d} : pc'[e] = pc[e] /\ name'[e] = name[e]
      BY <2>2 DEF ModsTypeOK
    <3>2. name[d] = NoName /\ name'[d] = n /\ n # NoName
      BY <2>2 DEF NamesKnown, HasFile, WaitsForPoll, ModsTypeOK
    <3>3. disk' = {name'[e] : e \in {f \in Downloads : name'[f] # NoName}} \union polled \union left
      BY <2>2, <3>1, <3>2 DEF FilesAccounted
    <3> QED
      BY <2>2, <3>1, <3>2, <3>3 DEF FilesAccounted
  <2> QED
    BY <2>1, <2>2
<1>8. OwnersApart'
  BY SlotEntry DEF ModsTypeOK, OwnersApart
<1> QED
  BY <1>1, <1>2, <1>3, <1>4, <1>5, <1>6, <1>7, <1>8

\* A copy that fails deletes the file, and nobody else has it.
LEMMA StepCopy == ASSUME ModsInv, NEW d \in Downloads, Copy(d) PROVE ModsInv'
<1> USE DEF ModsInv, Copy, DropFile, KeepFile, Goto, TaskKept, chat, loop
<1>1. ModsTypeOK'
  <2>1. pc' \in [Downloads -> Working \union {"new", "done"}]
    BY DEF ModsTypeOK, Working
  <2>2. slot' \in [Downloads -> Slots \union {0}] /\ name' \in [Downloads -> Names \union {NoName}]
    BY DEF ModsTypeOK
  <2>3. \A e \in Downloads : pc'[e] # "new" => slot'[e] # 0
    BY DEF ModsTypeOK, Slots
  <2>4. slots' \in [Slots -> [of : Downloads, state : States] \union {NoEntry}]
    BY DEF ModsTypeOK, SlotsOwned, Working, States
  <2>5. disk' \subseteq Names
    BY DEF ModsTypeOK
  <2> QED
    BY <2>1, <2>2, <2>3, <2>4, <2>5 DEF ModsTypeOK, Unlocked, Slots
<1>2. SlotsOwned'
  BY SlotEntry DEF ModsTypeOK, SlotsOwned, Working
<1>3. SlotsKnown'
  BY SlotEntry DEF ModsTypeOK, SlotsOwned, SlotsKnown, Working, NoEntry
<1>4. RemoveDone'
  BY SlotEntry DEF ModsTypeOK, SlotsOwned, RemoveDone, HasEnded, Working, NoEntry
<1>5. ReportedDone'
  BY SlotEntry DEF ModsTypeOK, SlotsOwned, ReportedDone, Working, NoEntry
<1>6. NamesKnown'
  <2> SUFFICES ASSUME NEW e \in Downloads
               PROVE  (name[e] # NoName <=> (pc[e] \in HasFile \/ WaitsForPoll(e)))'
    BY DEF NamesKnown
  <2>1. name[e] # NoName <=> (pc[e] \in HasFile \/ WaitsForPoll(e))
    BY DEF NamesKnown
  <2>2. CASE e = d
    BY <2>1, <2>2 DEF HasFile, WaitsForPoll, ModsTypeOK, SlotsOwned, RemoveDone, HasEnded, Working
  <2>3. CASE e # d
    <3>1. name'[e] = name[e] /\ pc'[e] = pc[e] /\ slot'[e] = slot[e]
      BY <2>3 DEF ModsTypeOK
    <3>2. pc[e] = "done" => slot[e] \in Slots
      BY DEF ModsTypeOK
    <3>3. WaitsForPoll(e)' <=> WaitsForPoll(e)
      BY <2>3, <3>1, <3>2 DEF WaitsForPoll, ModsTypeOK, SlotsOwned, Working, NoEntry
    <3> QED
      BY <2>1, <3>1, <3>3
  <2> QED
    BY <2>2, <2>3
<1>7. FilesAccounted'
  <2>1. CASE UNCHANGED <<name, disk>>
    <3>1. pc'[d] # "done" /\ \A e \in Downloads \ {d} : pc'[e] = pc[e]
      BY DEF ModsTypeOK
    <3> QED
      BY <2>1, <3>1 DEF FilesAccounted
  <2>2. CASE DropFile(d)
    <3>1. disk' = disk \ {name[d]} /\ name' = [name EXCEPT ![d] = NoName]
      BY <2>2 DEF DropFile
    <3>2. pc'[d] # "done" /\ \A e \in Downloads \ {d} : pc'[e] = pc[e] /\ name'[e] = name[e]
      BY <3>1 DEF ModsTypeOK
    <3>3. name[d] # NoName /\ name'[d] = NoName
      BY <3>1 DEF NamesKnown, HasFile, ModsTypeOK
    <3>4. name[d] \notin polled \union left /\ \A e \in Downloads \ {d} : name[e] # name[d]
      BY <3>3 DEF FilesAccounted
    <3> DEFINE Owned(f) == {f[e] : e \in {x \in Downloads : f[x] # NoName}}
    <3>5. Owned(name') = Owned(name) \ {name[d]}
      BY <3>2, <3>3, <3>4
    <3>6. disk = Owned(name) \union polled \union left
      BY DEF FilesAccounted
    <3>7. disk' = Owned(name') \union polled \union left
      <4> HIDE DEF Owned
      <4> QED
        BY <3>1, <3>4, <3>5, <3>6
    <3> QED
      BY <3>1, <3>2, <3>3, <3>4, <3>7 DEF FilesAccounted
  <2> QED
    BY <2>1, <2>2 DEF KeepFile
<1>8. OwnersApart'
  BY SlotEntry DEF ModsTypeOK, OwnersApart
<1> QED
  BY <1>1, <1>2, <1>3, <1>4, <1>5, <1>6, <1>7, <1>8

\* A jar that cannot be read is deleted, and nobody else has it.
LEMMA StepParse == ASSUME ModsInv, NEW d \in Downloads, Parse(d) PROVE ModsInv'
<1> USE DEF ModsInv, Parse, ParseOr, DropFile, KeepFile, Goto, TaskKept, chat, loop
<1>1. ModsTypeOK'
  <2>1. pc' \in [Downloads -> Working \union {"new", "done"}]
    BY DEF ModsTypeOK, Working
  <2>2. slot' \in [Downloads -> Slots \union {0}] /\ name' \in [Downloads -> Names \union {NoName}]
    BY DEF ModsTypeOK
  <2>3. \A e \in Downloads : pc'[e] # "new" => slot'[e] # 0
    BY DEF ModsTypeOK, Slots
  <2>4. slots' \in [Slots -> [of : Downloads, state : States] \union {NoEntry}]
    BY DEF ModsTypeOK, SlotsOwned, Working, States
  <2>5. disk' \subseteq Names
    BY DEF ModsTypeOK
  <2> QED
    BY <2>1, <2>2, <2>3, <2>4, <2>5 DEF ModsTypeOK, Unlocked, Slots
<1>2. SlotsOwned'
  BY SlotEntry DEF ModsTypeOK, SlotsOwned, Working
<1>3. SlotsKnown'
  BY SlotEntry DEF ModsTypeOK, SlotsOwned, SlotsKnown, Working, NoEntry
<1>4. RemoveDone'
  BY SlotEntry DEF ModsTypeOK, SlotsOwned, RemoveDone, HasEnded, Working, NoEntry
<1>5. ReportedDone'
  BY SlotEntry DEF ModsTypeOK, SlotsOwned, ReportedDone, Working, NoEntry
<1>6. NamesKnown'
  <2> SUFFICES ASSUME NEW e \in Downloads
               PROVE  (name[e] # NoName <=> (pc[e] \in HasFile \/ WaitsForPoll(e)))'
    BY DEF NamesKnown
  <2>1. name[e] # NoName <=> (pc[e] \in HasFile \/ WaitsForPoll(e))
    BY DEF NamesKnown
  <2>2. CASE e = d
    BY <2>1, <2>2 DEF HasFile, WaitsForPoll, ModsTypeOK, SlotsOwned, RemoveDone, HasEnded, Working
  <2>3. CASE e # d
    <3>1. name'[e] = name[e] /\ pc'[e] = pc[e] /\ slot'[e] = slot[e]
      BY <2>3 DEF ModsTypeOK
    <3>2. pc[e] = "done" => slot[e] \in Slots
      BY DEF ModsTypeOK
    <3>3. WaitsForPoll(e)' <=> WaitsForPoll(e)
      BY <2>3, <3>1, <3>2 DEF WaitsForPoll, ModsTypeOK, SlotsOwned, Working, NoEntry
    <3> QED
      BY <2>1, <3>1, <3>3
  <2> QED
    BY <2>2, <2>3
<1>7. FilesAccounted'
  <2>1. CASE UNCHANGED <<name, disk>>
    <3>1. pc'[d] # "done" /\ \A e \in Downloads \ {d} : pc'[e] = pc[e]
      BY DEF ModsTypeOK
    <3> QED
      BY <2>1, <3>1 DEF FilesAccounted
  <2>2. CASE DropFile(d)
    <3>1. disk' = disk \ {name[d]} /\ name' = [name EXCEPT ![d] = NoName]
      BY <2>2 DEF DropFile
    <3>2. pc'[d] # "done" /\ \A e \in Downloads \ {d} : pc'[e] = pc[e] /\ name'[e] = name[e]
      BY <3>1 DEF ModsTypeOK
    <3>3. name[d] # NoName /\ name'[d] = NoName
      BY <3>1 DEF NamesKnown, HasFile, ModsTypeOK
    <3>4. name[d] \notin polled \union left /\ \A e \in Downloads \ {d} : name[e] # name[d]
      BY <3>3 DEF FilesAccounted
    <3> DEFINE Owned(f) == {f[e] : e \in {x \in Downloads : f[x] # NoName}}
    <3>5. Owned(name') = Owned(name) \ {name[d]}
      BY <3>2, <3>3, <3>4
    <3>6. disk = Owned(name) \union polled \union left
      BY DEF FilesAccounted
    <3>7. disk' = Owned(name') \union polled \union left
      <4> HIDE DEF Owned
      <4> QED
        BY <3>1, <3>4, <3>5, <3>6
    <3> QED
      BY <3>1, <3>2, <3>3, <3>4, <3>7 DEF FilesAccounted
  <2> QED
    BY <2>1, <2>2 DEF KeepFile
<1>8. OwnersApart'
  BY SlotEntry DEF ModsTypeOK, OwnersApart
<1> QED
  BY <1>1, <1>2, <1>3, <1>4, <1>5, <1>6, <1>7, <1>8

\* The file waits for its poll once the slot says "Processed".
LEMMA StepPublish == ASSUME ModsInv, NEW d \in Downloads, Publish(d) PROVE ModsInv'
<1> USE DEF ModsInv, Publish, Write, Unlocked, States, Goto, TaskKept, chat, loop
<1>1. ModsTypeOK'
  <2>1. pc' \in [Downloads -> Working \union {"new", "done"}]
    BY DEF ModsTypeOK, Working
  <2>2. slot' \in [Downloads -> Slots \union {0}] /\ name' \in [Downloads -> Names \union {NoName}]
    BY DEF ModsTypeOK
  <2>3. \A e \in Downloads : pc'[e] # "new" => slot'[e] # 0
    BY DEF ModsTypeOK, Slots
  <2>4. slots' \in [Slots -> [of : Downloads, state : States] \union {NoEntry}]
    BY DEF ModsTypeOK, SlotsOwned, Working, States
  <2>5. disk' \subseteq Names
    BY DEF ModsTypeOK
  <2> QED
    BY <2>1, <2>2, <2>3, <2>4, <2>5 DEF ModsTypeOK, Unlocked, Slots
<1>2. SlotsOwned'
  BY SlotEntry DEF ModsTypeOK, SlotsOwned, Working
<1>3. SlotsKnown'
  BY SlotEntry DEF ModsTypeOK, SlotsOwned, SlotsKnown, Working, NoEntry
<1>4. RemoveDone'
  BY SlotEntry DEF ModsTypeOK, SlotsOwned, RemoveDone, HasEnded, Working, NoEntry
<1>5. ReportedDone'
  BY SlotEntry DEF ModsTypeOK, SlotsOwned, ReportedDone, Working, NoEntry
<1>6. NamesKnown'
  <2> SUFFICES ASSUME NEW e \in Downloads
               PROVE  (name[e] # NoName <=> (pc[e] \in HasFile \/ WaitsForPoll(e)))'
    BY DEF NamesKnown
  <2>1. name[e] # NoName <=> (pc[e] \in HasFile \/ WaitsForPoll(e))
    BY DEF NamesKnown
  <2>2. CASE e = d
    BY <2>1, <2>2 DEF HasFile, WaitsForPoll, ModsTypeOK, SlotsOwned, RemoveDone, HasEnded, Working
  <2>3. CASE e # d
    <3>1. name'[e] = name[e] /\ pc'[e] = pc[e] /\ slot'[e] = slot[e]
      BY <2>3 DEF ModsTypeOK
    <3>2. pc[e] = "done" => slot[e] \in Slots
      BY DEF ModsTypeOK
    <3>3. WaitsForPoll(e)' <=> WaitsForPoll(e)
      BY <2>3, <3>1, <3>2 DEF WaitsForPoll, ModsTypeOK, SlotsOwned, Working, NoEntry
    <3> QED
      BY <2>1, <3>1, <3>3
  <2> QED
    BY <2>2, <2>3
<1>7. FilesAccounted'
  <2>1. slot[d] \in Slots /\ slots[slot[d]].of = d /\ UNCHANGED <<name, disk>>
    BY DEF ModsTypeOK, SlotsOwned, Working
  <2>2. \A e \in Downloads \ {d} :
          /\ pc'[e] = pc[e]
          /\ (pc[e] = "done" /\ slots[slot[e]].of = e) => slots'[slot[e]] = slots[slot[e]]
    <3> SUFFICES ASSUME NEW e \in Downloads \ {d}
                 PROVE  /\ pc'[e] = pc[e]
                        /\ (pc[e] = "done" /\ slots[slot[e]].of = e) =>
                             slots'[slot[e]] = slots[slot[e]]
      OBVIOUS
    <3>1. pc'[e] = pc[e] /\ (pc[e] = "done" => slot[e] \in Slots)
      BY DEF ModsTypeOK
    <3>2. slots[slot[e]].of = e => slot[e] # slot[d]
      BY <2>1
    <3>3. \E x : slots' = [slots EXCEPT ![slot[d]] = x]
      OBVIOUS
    <3> QED
      BY <3>1, <3>2, <3>3, <2>1 DEF ModsTypeOK
  <2>3. (name[d] # NoName /\ pc'[d] = "done") => slots'[slot[d]] = [of |-> d, state |-> "Processed"]
    BY <2>1 DEF NamesKnown, HasFile, WaitsForPoll, ModsTypeOK
  <2>4. \A e \in Downloads : (name[e] # NoName /\ pc'[e] = "done") =>
          slots'[slot[e]] = [of |-> e, state |-> "Processed"]
    BY <2>2, <2>3 DEF FilesAccounted
  <2> QED
    BY <2>1, <2>4 DEF FilesAccounted
<1>8. OwnersApart'
  BY SlotEntry DEF ModsTypeOK, OwnersApart
<1> QED
  BY <1>1, <1>2, <1>3, <1>4, <1>5, <1>6, <1>7, <1>8

\* A round begins with nothing to free.
LEMMA StepBegin == ASSUME ModsInv, LoopBegin PROVE ModsInv'
<1> USE DEF ModsInv, LoopBegin, Unlocked, tasks, files
<1>1. ModsTypeOK'
  <2>1. ChatTypeOK'
    BY DEF ModsTypeOK, ChatTypeOK, Forget
  <2> QED
    BY <2>1, SlotEntry DEF ModsTypeOK, ChatTypeOK, Working, Slots, Unlocked
<1>2. SlotsOwned'
  BY SlotEntry DEF ModsTypeOK, SlotsOwned, Working
<1>3. SlotsKnown'
  BY SlotEntry DEF ModsTypeOK, SlotsOwned, SlotsKnown, Working, NoEntry
<1>4. RemoveDone'
  BY SlotEntry DEF ModsTypeOK, SlotsOwned, RemoveDone, HasEnded, Working, NoEntry
<1>5. ReportedDone'
  BY SlotEntry DEF ModsTypeOK, SlotsOwned, ReportedDone, Working, NoEntry
<1>6. NamesKnown'
  BY SlotEntry DEF ModsTypeOK, NamesKnown, WaitsForPoll, HasFile, NoEntry
<1>7. FilesAccounted'
  BY SlotEntry DEF ModsTypeOK, FilesAccounted, NamesKnown, WaitsForPoll, HasFile, NoEntry
<1>8. OwnersApart'
  BY SlotEntry DEF ModsTypeOK, OwnersApart
<1> QED
  BY <1>1, <1>2, <1>3, <1>4, <1>5, <1>6, <1>7, <1>8

\* A free slot is passed over.
LEMMA StepVisitFree == ASSUME ModsInv, VisitFree PROVE ModsInv'
<1> USE DEF ModsInv, VisitFree, Visit, Entry, files, chat
<1>1. ModsTypeOK'
  BY SlotEntry DEF ModsTypeOK, Working, Slots, Unlocked
<1>2. SlotsOwned'
  BY SlotEntry DEF ModsTypeOK, SlotsOwned, Working
<1>3. SlotsKnown'
  BY SlotEntry DEF ModsTypeOK, SlotsOwned, SlotsKnown, Working, NoEntry
<1>4. RemoveDone'
  BY SlotEntry DEF ModsTypeOK, SlotsOwned, RemoveDone, HasEnded, Working, NoEntry
<1>5. ReportedDone'
  BY SlotEntry DEF ModsTypeOK, SlotsOwned, ReportedDone, Working, NoEntry
<1>6. NamesKnown'
  BY SlotEntry DEF ModsTypeOK, NamesKnown, WaitsForPoll, HasFile, NoEntry
<1>7. FilesAccounted'
  BY SlotEntry DEF ModsTypeOK, FilesAccounted, NamesKnown, WaitsForPoll, HasFile, NoEntry
<1>8. OwnersApart'
  BY SlotEntry DEF ModsTypeOK, OwnersApart
<1> QED
  BY <1>1, <1>2, <1>3, <1>4, <1>5, <1>6, <1>7, <1>8

\* A slot whose task is working is passed over.
LEMMA StepUnderWay == ASSUME ModsInv, VisitUnderWay PROVE ModsInv'
<1> USE DEF ModsInv, VisitUnderWay, Visit, Entry, files
<1>1. ModsTypeOK'
  <2>1. Entry.of \in Downloads /\ Showing("status")
    BY SlotEntry DEF ModsTypeOK
  <2>2. ChatTypeOK'
    BY <2>1, ShowingType DEF ModsTypeOK, ChatTypeOK
  <2> QED
    BY <2>1, <2>2, SlotEntry DEF ModsTypeOK, ChatTypeOK, Working, Slots, Unlocked
<1>2. SlotsOwned'
  BY SlotEntry DEF ModsTypeOK, SlotsOwned, Working
<1>3. SlotsKnown'
  BY SlotEntry DEF ModsTypeOK, SlotsOwned, SlotsKnown, Working, NoEntry
<1>4. RemoveDone'
  BY SlotEntry DEF ModsTypeOK, SlotsOwned, RemoveDone, HasEnded, Working, NoEntry
<1>5. ReportedDone'
  BY SlotEntry DEF ModsTypeOK, SlotsOwned, ReportedDone, Working, NoEntry
<1>6. NamesKnown'
  BY SlotEntry DEF ModsTypeOK, NamesKnown, WaitsForPoll, HasFile, NoEntry
<1>7. FilesAccounted'
  BY SlotEntry DEF ModsTypeOK, FilesAccounted, NamesKnown, WaitsForPoll, HasFile, NoEntry
<1>8. OwnersApart'
  BY SlotEntry DEF ModsTypeOK, OwnersApart
<1> QED
  BY <1>1, <1>2, <1>3, <1>4, <1>5, <1>6, <1>7, <1>8

\* A failed download is reported by the round that then frees its slot.
LEMMA StepFailed == ASSUME ModsInv, VisitFailed PROVE ModsInv'
<1> USE DEF ModsInv, VisitFailed, Visit, Entry, Settle, files
<1>1. ModsTypeOK'
  <2>1. Entry.of \in Downloads /\ Showing("error")
    BY SlotEntry DEF ModsTypeOK
  <2>2. ChatTypeOK'
    BY <2>1, ShowingType DEF ModsTypeOK, ChatTypeOK
  <2> QED
    BY <2>1, <2>2, SlotEntry DEF ModsTypeOK, ChatTypeOK, Working, Slots, Unlocked
<1>2. SlotsOwned'
  BY SlotEntry DEF ModsTypeOK, SlotsOwned, Working
<1>3. SlotsKnown'
  BY SlotEntry DEF ModsTypeOK, SlotsOwned, SlotsKnown, Working, NoEntry
<1>4. RemoveDone'
  BY SlotEntry DEF ModsTypeOK, SlotsOwned, RemoveDone, HasEnded, Working, NoEntry
<1>5. ReportedDone'
  <2> DEFINE d == slots[visiting].of
  <2>1. d \in Downloads /\ slots[visiting] # NoEntry /\ slot[d] = visiting
    BY SlotEntry DEF SlotsKnown
  <2>2. pc[d] = "done"
    BY <2>1 DEF SlotsKnown, SlotsOwned, ModsTypeOK, Working
  <2>3. reported[d] = 0
    BY <2>1 DEF ReportedDone, RemoveDone, Slots
  <2>4. \A i \in Slots : slots[i].of = d => i = visiting
    BY <2>1 DEF SlotsKnown, NoEntry
  <2> HIDE DEF d
  <2>5. reported' = [reported EXCEPT ![d] = @ + 1]
    BY DEF d
  <2> QED
    BY <2>1, <2>2, <2>3, <2>4, <2>5 DEF ReportedDone, ModsTypeOK
<1>6. NamesKnown'
  <2> SUFFICES ASSUME NEW e \in Downloads
               PROVE  (name[e] # NoName <=> (pc[e] \in HasFile \/ WaitsForPoll(e)))'
    BY DEF NamesKnown
  <2>1. WaitsForPoll(e)' <=> WaitsForPoll(e)
    BY DEF WaitsForPoll
  <2> QED
    BY <2>1 DEF NamesKnown
<1>7. FilesAccounted'
  BY SlotEntry DEF ModsTypeOK, FilesAccounted, NamesKnown, WaitsForPoll, HasFile, NoEntry
<1>8. OwnersApart'
  BY SlotEntry DEF ModsTypeOK, OwnersApart
<1> QED
  BY <1>1, <1>2, <1>3, <1>4, <1>5, <1>6, <1>7, <1>8

\* The file of a finished download goes to a poll, is deleted, or stays behind.
LEMMA StepProcessed == ASSUME ModsInv, VisitProcessed PROVE ModsInv'
<1> USE DEF ModsInv, VisitProcessed, VisitProcessedAnd, Visit, Entry, Settle
<1> DEFINE d == slots[visiting].of
           n == name[d]
<1>a. /\ visiting \in Slots /\ slots[visiting].state = "Processed"
      /\ d \in Downloads /\ slots[visiting] = [of |-> d, state |-> "Processed"]
  BY SlotEntry DEF ModsTypeOK, NoEntry
<1>b. slot[d] = visiting /\ pc[d] = "done"
  BY <1>a DEF SlotsKnown, SlotsOwned, ModsTypeOK, Working, NoEntry
<1>c. visiting \notin remove
  BY <1>a DEF RemoveDone, Slots
<1>d. n \in Names /\ n # NoName
  BY <1>a, <1>b, <1>c DEF NamesKnown, WaitsForPoll, ModsTypeOK
<1>e. /\ name' = [name EXCEPT ![d] = NoName]
      /\ \/ polled' = polled \union {n} /\ UNCHANGED <<disk, left>>
         \/ left' = left \union {n} /\ UNCHANGED <<disk, polled>>
         \/ disk' = disk \ {n} /\ UNCHANGED <<polled, left>>
  OBVIOUS
<1>f. /\ remove' = remove \union {visiting} /\ visiting' = visiting + 1
      /\ reported' = [reported EXCEPT ![d] = @ + 1]
      /\ UNCHANGED <<pc, slot, slots>>
  OBVIOUS
<1>h. Deleted
  OBVIOUS
<1>g. n \notin polled \union left
  BY <1>a, <1>d DEF FilesAccounted
<1> HIDE DEF d, VisitProcessed, VisitProcessedAnd, Visit, Settle
<1>1. ModsTypeOK'
  <2>1. /\ name' \in [Downloads -> Names \union {NoName}]
        /\ reported' \in [Downloads -> Nat]
    BY <1>a, <1>e, <1>f DEF ModsTypeOK
  <2>3. ChatTypeOK'
    BY <1>a, <1>h, DeletedType DEF Entry, ModsTypeOK, ChatTypeOK
  <2>2. polled' \subseteq Names /\ disk' \subseteq Names /\ left' \subseteq Names
    BY <1>d, <1>e DEF ModsTypeOK
  <2> QED
    BY <1>a, <1>f, <2>1, <2>2, <2>3 DEF ModsTypeOK, ChatTypeOK, Unlocked, Slots
<1>2. SlotsOwned' /\ SlotsKnown'
  BY <1>f DEF SlotsOwned, SlotsKnown
<1>3. RemoveDone'
  BY <1>a, <1>f DEF RemoveDone, HasEnded, ModsTypeOK, Slots
<1>4. ReportedDone'
  <2>1. reported[d] = 0
    BY <1>a, <1>c DEF ReportedDone
  <2>2. \A i \in Slots : slots[i].of = d => i = visiting
    BY <1>a, <1>b DEF SlotsKnown, NoEntry
  <2> QED
    BY <1>a, <1>b, <1>f, <2>1, <2>2 DEF ReportedDone, ModsTypeOK
<1>5. NamesKnown'
  <2> SUFFICES ASSUME NEW e \in Downloads
               PROVE  (name[e] # NoName <=> (pc[e] \in HasFile \/ WaitsForPoll(e)))'
    BY DEF NamesKnown
  <2>1. CASE e = d
    BY <1>a, <1>b, <1>e, <1>f, <2>1 DEF WaitsForPoll, HasFile, ModsTypeOK
  <2>2. CASE e # d
    <3>1. name'[e] = name[e]
      BY <1>e, <2>2 DEF ModsTypeOK
    <3>2. WaitsForPoll(e)' <=> WaitsForPoll(e)
      BY <1>a, <1>f, <2>2 DEF WaitsForPoll
    <3> QED
      BY <1>f, <3>1, <3>2 DEF NamesKnown
  <2> QED
    BY <2>1, <2>2
<1>6. FilesAccounted'
  <2> DEFINE Owned(f) == {f[e] : e \in {x \in Downloads : f[x] # NoName}}
  <2>1. \A e \in Downloads \ {d} : name'[e] = name[e]
    BY <1>e DEF ModsTypeOK
  <2>2. name'[d] = NoName
    BY <1>a, <1>e DEF ModsTypeOK
  <2>3. \A e \in Downloads \ {d} : name[e] # n
    BY <1>a, <1>d DEF FilesAccounted
  <2>4. Owned(name') = Owned(name) \ {n}
    BY <2>1, <2>2, <2>3
  <2>5. disk = Owned(name) \union polled \union left /\ n \in Owned(name)
    BY <1>a, <1>d DEF FilesAccounted
  <2>6. disk' = Owned(name') \union polled' \union left'
    <3> HIDE DEF Owned
    <3> QED
      BY <1>e, <1>g, <2>4, <2>5
  <2>7. \A e \in Downloads : name'[e] # NoName => name'[e] \notin polled' \union left'
    BY <1>e, <2>1, <2>2, <2>3 DEF FilesAccounted
  <2> QED
    BY <1>f, <2>1, <2>2, <2>6, <2>7 DEF FilesAccounted
<1>7. OwnersApart'
  BY <1>e, <1>g DEF OwnersApart
<1> QED
  BY <1>1, <1>2, <1>3, <1>4, <1>5, <1>6, <1>7

\* The slots that are freed belong to downloads that are over.
LEMMA StepEnd == ASSUME ModsInv, LoopEnd PROVE ModsInv'
<1> USE DEF ModsInv, LoopEnd, LoopEndFreeing, tasks, files, chat
<1>1. ModsTypeOK'
  BY SlotEntry DEF ModsTypeOK, Working, Slots, Unlocked
<1>2. SlotsOwned'
  <2> SUFFICES ASSUME NEW d \in Downloads, pc[d] \in Working
               PROVE  slots'[slot[d]] = slots[slot[d]]
    BY DEF SlotsOwned
  <2>1. slot[d] \in Slots
    BY DEF ModsTypeOK, Working
  <2>2. slot[d] \notin remove
    BY DEF SlotsOwned, RemoveDone, HasEnded
  <2> QED
    BY <2>1, <2>2
<1>3. SlotsKnown'
  BY SlotEntry DEF ModsTypeOK, SlotsOwned, SlotsKnown, Working, NoEntry
<1>4. RemoveDone'
  BY SlotEntry DEF ModsTypeOK, SlotsOwned, RemoveDone, HasEnded, Working, NoEntry
<1>5. ReportedDone'
  BY SlotEntry DEF ModsTypeOK, SlotsOwned, ReportedDone, Working, NoEntry
<1>6. NamesKnown'
  <2> SUFFICES ASSUME NEW e \in Downloads
               PROVE  (name[e] # NoName <=> (pc[e] \in HasFile \/ WaitsForPoll(e)))'
    BY DEF NamesKnown
  <2>1. pc[e] = "done" => slot[e] \in Slots
    BY DEF ModsTypeOK
  <2>2. WaitsForPoll(e)' <=> WaitsForPoll(e)
    BY <2>1 DEF WaitsForPoll, NoEntry
  <2> QED
    BY <2>2 DEF NamesKnown
<1>7. FilesAccounted'
  BY SlotEntry DEF ModsTypeOK, FilesAccounted, NamesKnown, WaitsForPoll, HasFile, NoEntry
<1>8. OwnersApart'
  BY SlotEntry DEF ModsTypeOK, OwnersApart
<1> QED
  BY <1>1, <1>2, <1>3, <1>4, <1>5, <1>6, <1>7, <1>8

\* A poll that is over gives up its file only.
LEMMA StepPoll == ASSUME ModsInv, NEW n \in Names, PollEnds(n) PROVE ModsInv'
<1> USE DEF ModsInv, PollEnds, tasks, chat, loop
<1>1. ModsTypeOK'
  BY SlotEntry DEF ModsTypeOK, Working, Slots, Unlocked
<1>2. SlotsOwned'
  BY SlotEntry DEF ModsTypeOK, SlotsOwned, Working
<1>3. SlotsKnown'
  BY SlotEntry DEF ModsTypeOK, SlotsOwned, SlotsKnown, Working, NoEntry
<1>4. RemoveDone'
  BY SlotEntry DEF ModsTypeOK, SlotsOwned, RemoveDone, HasEnded, Working, NoEntry
<1>5. ReportedDone'
  BY SlotEntry DEF ModsTypeOK, SlotsOwned, ReportedDone, Working, NoEntry
<1>6. NamesKnown'
  BY SlotEntry DEF ModsTypeOK, NamesKnown, WaitsForPoll, HasFile, NoEntry
<1>7. FilesAccounted'
  <2>1. n \notin left /\ \A d \in Downloads : name[d] # NoName => name[d] # n
    BY DEF FilesAccounted, OwnersApart
  <2> QED
    BY <2>1 DEF FilesAccounted
<1>8. OwnersApart'
  BY SlotEntry DEF ModsTypeOK, OwnersApart
<1> QED
  BY <1>1, <1>2, <1>3, <1>4, <1>5, <1>6, <1>7, <1>8

\* Every step keeps the invariant.
LEMMA ModsNext == ModsInv /\ [Next]_vars => ModsInv'
<1> SUFFICES ASSUME ModsInv, [Next]_vars PROVE ModsInv'
  OBVIOUS
<1>1. ASSUME NEW d \in Downloads,
             Allocate(d) \/ Fetch(d) \/ Copy(d) \/ Parse(d) \/ Publish(d)
      PROVE  ModsInv'
  BY <1>1, StepAllocate, StepFetch, StepCopy, StepParse, StepPublish
<1>2. CASE LoopStep
  BY <1>2, StepBegin, StepVisitFree, StepUnderWay, StepFailed, StepProcessed, StepEnd
     DEF LoopStep
<1>3. ASSUME NEW n \in Names, PollEnds(n) PROVE ModsInv'
  BY <1>3, StepPoll
<1>4. CASE UNCHANGED vars
  BY <1>4 DEF vars, tasks, files, chat, loop, ModsInv, ModsTypeOK, SlotsOwned, SlotsKnown,
              RemoveDone, ReportedDone, NamesKnown, FilesAccounted, OwnersApart,
              WaitsForPoll, Unlocked
<1> QED
  BY <1>1, <1>2, <1>3, <1>4 DEF Next

\* The inductive invariant holds.
LEMMA ModsInvariant == Spec => []ModsInv
BY ModsInit, ModsNext, PTL DEF Spec

\* Every variable keeps its type, and to_remove lives for one round.
THEOREM ModsTypeCorrect == Spec => []ModsTypeOK
<1>1. ModsInv => ModsTypeOK
  BY DEF ModsInv
<1> QED
  BY <1>1, ModsInvariant, PTL

\* A task that may still write owns its slot.
THEOREM SlotsAreOwned == Spec => []SlotsOwned
<1>1. ModsInv => SlotsOwned
  BY DEF ModsInv
<1> QED
  BY <1>1, ModsInvariant, PTL

\* Every temporary file has one owner, and only refused requests leave one.
THEOREM FilesAreAccounted == Spec => []FilesAccounted
<1>1. ModsInv => FilesAccounted
  BY DEF ModsInv
<1> QED
  BY <1>1, ModsInvariant, PTL

\* A download leads to one poll or to one error message, once it is over.
THEOREM ReportsOnce == Spec => []ReportedOnce
<1>1. ModsInv => ReportedOnce
  <2> SUFFICES ASSUME ModsInv, NEW d \in Downloads
               PROVE  reported[d] <= (IF pc[d] = "done" THEN 1 ELSE 0)
    BY DEF ReportedOnce
  <2>1. reported[d] = 0 \/ (reported[d] = 1 /\ pc[d] = "done")
    BY DEF ModsInv, ReportedDone
  <2> QED
    BY <2>1
<1> QED
  BY <1>1, ModsInvariant, PTL

-----------------------------------------------------------------------------
(***************************************************************************)
(* The message of a server.  A round leaves "status" in it only if the     *)
(* last slot it visited for that server is not one it is about to free,    *)
(* or the call that would have changed the message was refused.            *)
(***************************************************************************)
Keeps(i, s) == i \notin remove /\ slots[i] # NoEntry /\ ServerOf[slots[i].of] = s

StatusInv ==
  /\ \A s \in Servers \ refused : message[s] = "status" => \E i \in Slots : Keeps(i, s)
  /\ orphans \subseteq refused

\* A step that only touches slots of tasks at work, or fills free ones.
LEMMA StatusTask ==
  ASSUME ModsInv, StatusInv, NEW d \in Downloads,
         Allocate(d) \/ Fetch(d) \/ Copy(d) \/ Parse(d) \/ Publish(d)
  PROVE  StatusInv'
<1>1. UNCHANGED <<message, orphans, refused, remove>>
  BY DEF Allocate, Fetch, FetchInto, Copy, Parse, ParseOr, Publish, Write, TaskKept, chat, loop
<1>2. \A i \in Slots : slots[i] # NoEntry => slots'[i] # NoEntry /\ slots'[i].of = slots[i].of
  <2>1. CASE Allocate(d)
    BY <2>1 DEF Allocate, ModsInv, ModsTypeOK
  <2>2. CASE Fetch(d) \/ Copy(d) \/ Parse(d)
    BY <2>2 DEF Fetch, FetchInto, Copy, Parse, ParseOr
  <2>3. CASE Publish(d)
    <3>1. pc[d] \in Working /\ slots[slot[d]].of = d
      BY <2>3 DEF Publish, Write, Goto, Working, ModsInv, SlotsOwned
    <3>2. \E state \in States : slots' = [slots EXCEPT ![slot[d]] = [of |-> d, state |-> state]]
      BY <2>3 DEF Publish, Write, States
    <3>3. d # NoDownload
      OBVIOUS
    <3> QED
      BY <3>1, <3>2, <3>3 DEF ModsInv, ModsTypeOK, NoEntry
  <2> QED
    BY <2>1, <2>2, <2>3
<1> QED
  BY <1>1, <1>2 DEF StatusInv, Keeps

\* A visit that writes "status" keeps its slot; one that is going to free its
\* slot writes something else, or is refused.
LEMMA StatusVisit ==
  ASSUME ModsInv, StatusInv, VisitUnderWay \/ VisitFailed \/ VisitProcessed
  PROVE  StatusInv'
<1> DEFINE t == ServerOf[Entry.of]
<1>1. /\ visiting \in Slots /\ UNCHANGED slots
      /\ Entry # NoEntry /\ Entry.of \in Downloads /\ t \in Servers
  <2>1. visiting \in Slots /\ UNCHANGED slots /\ Entry.state # "free"
    BY DEF VisitUnderWay, VisitFailed, VisitProcessed, VisitProcessedAnd, Visit
  <2>2. Entry # NoEntry /\ Entry.of \in Downloads
    BY <2>1, SlotEntry DEF Entry, ModsInv
  <2> QED
    BY <2>1, <2>2
<1>2. ChatTypeOK
  BY DEF ModsInv, ModsTypeOK, ChatTypeOK
<1>3. /\ VisitUnderWay => Showing("status") /\ remove' = remove
      /\ VisitFailed \/ VisitProcessed =>
           (Showing("error") \/ Deleted) /\ remove' = remove \union {visiting}
  BY DEF VisitUnderWay, VisitFailed, VisitProcessed, VisitProcessedAnd, Settle
<1>4. /\ orphans' \subseteq refused'
      /\ \A u \in Servers : u # t => /\ message'[u] = message[u]
                                     /\ u \in refused' <=> u \in refused
      /\ \/ message'[t] = message[t] /\ refused' = refused \union {t}
         \/ message'[t] # "status"
         \/ Showing("status")
  <2> HIDE DEF t
  <2>1. ASSUME NEW text, Becomes(t, text)
        PROVE  /\ orphans' \subseteq refused' /\ message'[t] = text
               /\ \A u \in Servers : u # t => /\ message'[u] = message[u]
                                              /\ u \in refused' <=> u \in refused
    BY <1>1, <1>2, <2>1 DEF Becomes, ChatTypeOK, StatusInv
  <2>2. CASE Refused(t) /\ UNCHANGED <<message, orphans>>
    BY <1>1, <1>2, <2>2 DEF Refused, ChatTypeOK, StatusInv
  <2>3. CASE Refused(t) /\ Forget({t})
    BY <1>1, <1>2, <2>3 DEF Refused, Forget, ChatTypeOK, StatusInv
  <2>4. Showing("status") \/ Showing("error") \/ Deleted
    BY <1>3
  <2> QED
    BY <2>1, <2>2, <2>3, <2>4 DEF Showing, Deleted, t
<1> SUFFICES ASSUME NEW s \in Servers \ refused', message'[s] = "status"
             PROVE  \E i \in Slots : Keeps(i, s)'
  BY <1>4 DEF StatusInv
<1> HIDE DEF t
<1>5. CASE s = t /\ VisitUnderWay
  <2>1. visiting \notin remove
    BY <1>1 DEF ModsInv, RemoveDone, Slots
  <2> QED
    BY <1>1, <1>3, <1>5, <2>1 DEF Keeps, Entry, t
<1>6. CASE s = t /\ (VisitFailed \/ VisitProcessed)
  <2>1. Showing("error") \/ Deleted
    BY <1>3, <1>6
  <2>2. message'[t] # "status" \/ t \in refused'
    BY <1>1, <1>2, <2>1 DEF Showing, Deleted, Becomes, Refused, Forget, ChatTypeOK, t
  <2> QED
    BY <1>6, <2>2
<1>7. CASE s # t
  <2>1. message[s] = "status" /\ s \notin refused
    BY <1>4, <1>7
  <2>2. PICK i \in Slots : Keeps(i, s)
    BY <2>1 DEF StatusInv
  <2>3. i # visiting /\ remove' \subseteq remove \union {visiting}
    BY <1>3, <1>7, <2>2 DEF Keeps, Entry, t
  <2> QED
    BY <1>1, <2>2, <2>3 DEF Keeps
<1> QED
  BY <1>5, <1>6, <1>7

LEMMA StatusInit == Init => StatusInv
  BY DEF Init, StatusInv

LEMMA StatusNext == ModsInv /\ StatusInv /\ [Next]_vars => StatusInv'
<1> SUFFICES ASSUME ModsInv, StatusInv, [Next]_vars PROVE StatusInv'
  OBVIOUS
<1>1. ASSUME NEW d \in Downloads,
             Allocate(d) \/ Fetch(d) \/ Copy(d) \/ Parse(d) \/ Publish(d)
      PROVE  StatusInv'
  BY <1>1, StatusTask
<1>2. CASE LoopBegin
  <2> DEFINE forgotten == IF \A i \in Slots : slots[i] = NoEntry THEN Servers ELSE {}
  <2>1. UNCHANGED <<slots, refused, remove>> /\ Forget(forgotten)
    BY <1>2 DEF LoopBegin
  <2>2. \A s \in Servers : message'[s] = "status" => message[s] = "status"
    BY <2>1 DEF Forget
  <2>3. {s \in forgotten : message[s] = "status"} \subseteq refused
    BY DEF StatusInv, Keeps
  <2> HIDE DEF forgotten
  <2> QED
    BY <2>1, <2>2, <2>3 DEF Forget, StatusInv, Keeps
<1>3. CASE VisitUnderWay \/ VisitFailed \/ VisitProcessed
  BY <1>3, StatusVisit
<1>4. CASE LoopEnd
  BY <1>4 DEF LoopEnd, LoopEndFreeing, chat, StatusInv, Keeps
<1>5. CASE VisitFree \/ (\E n \in Names : PollEnds(n)) \/ UNCHANGED vars
  <2>1. UNCHANGED <<slots, remove, message, orphans, refused>>
    BY <1>5 DEF VisitFree, Visit, PollEnds, chat, loop, vars
  <2> QED
    BY <2>1 DEF StatusInv, Keeps
<1> QED
  BY <1>1, <1>2, <1>3, <1>4, <1>5 DEF Next, LoopStep

\* Nobody is left with "sent for downloading": between rounds such a message in Discord
\* has a download behind it, for any downloads, servers and slots, unless Discord
\* refused to change it.
THEOREM StatusHasReason == Spec => []StatusHasDownload
<1>1. StatusInv => StatusHasDownload
  BY DEF StatusInv, Keeps, StatusHasDownload
<1> QED
  BY <1>1, StatusInit, StatusNext, ModsInvariant, PTL DEF Spec
=============================================================================
