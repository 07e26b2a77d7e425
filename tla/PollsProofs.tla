---------------------------- MODULE PollsProofs ----------------------------
(***************************************************************************)
(* Proofs about Polls, for any keys, any number of tasks, members, polls,  *)
(* failures and restarts: the shape of the state, and the safety           *)
(* properties of the run "polls".                                          *)
(*                                                                         *)
(* None of the properties is inductive.  What makes them hold is who may   *)
(* still touch a poll: the task that creates it is the only one to know    *)
(* it, a task that decides it has taken it out of the config, and a task   *)
(* on its way to do that finds it there, unless two tasks overlap.         *)
(***************************************************************************)
EXTENDS Polls, TLAPS

TaskStates ==
  [op  : {"free", "create", "check", "delete", "start"},
   at  : {"none", "look", "ask", "send", "store", "fetch", "end", "forget", "again",
          "decide"},
   id  : Ids \union {0}, old : Ids \union {0},
   won : BOOLEAN]

Creates(t) == task[t].op = "create"
Handles(t) == task[t].op \in {"check", "delete", "start"}
Late(t)    == Handles(t) /\ task[t].at \in {"again", "decide"}
Early(t)   == Handles(t) /\ ~Late(t)

-----------------------------------------------------------------------------
(***************************************************************************)
(* The invariant                                                           *)
(***************************************************************************)
\* Polls that are tracked, handled, forgotten or applied were asked for.
Known ==
  /\ \A k \in Keys : tracked[k] # 0 => tracked[k] < nextId /\ key[tracked[k]] = k
  /\ \A k \in Keys : saved[k] # 0 => saved[k] < nextId /\ key[saved[k]] = k
  /\ \A t \in Tasks : Creates(t) \/ Handles(t) => task[t].id \in Ids /\ task[t].id < nextId
  /\ \A n \in forgotten : n < nextId
  /\ \A n \in Ids : applied[n] > 0 => n < nextId

\* A poll that is being created is known to the one task that creates it.
Creators ==
  \A t \in Tasks : Creates(t) =>
    /\ tracked[key[task[t].id]] # task[t].id
    /\ applied[task[t].id] = 0
    /\ \A u \in Tasks : (Creates(u) \/ Handles(u)) /\ task[u].id = task[t].id => u = t

\* A poll that a task has removed has left the config.
Decided ==
  \A t \in Tasks : Late(t) => tracked[key[task[t].id]] # task[t].id

\* Between the two removals of a task its key stays free, unless a poll is stored.
Between ==
  \A t \in Tasks : Handles(t) /\ task[t].at = "again" =>
    key[task[t].id] \in squeezed \/ tracked[key[task[t].id]] = 0

\* A poll that a task is about to take out of the config is there.
Shaken(k) == k \in overlapped \union squeezed

Holds ==
  \A t \in Tasks : Early(t) =>
    Shaken(key[task[t].id]) \/ tracked[key[task[t].id]] = task[t].id

\* Where the file of the config is behind, both polls are known not to have been
\* written.
Written ==
  \A k \in Keys : saved[k] # tracked[k] =>
    saved[k] \in unwritten \union {0} /\ tracked[k] \in unwritten \union {0}

\* Two tasks that handle one poll have overlapped.
Apart ==
  \A t, u \in Tasks :
    Handles(t) /\ Handles(u) /\ task[t].id = task[u].id /\ t # u =>
      key[task[t].id] \in overlapped

\* A poll that was applied cannot be applied again.
Spent ==
  \A n \in Ids : applied[n] > 0 =>
    /\ kind[n] = "install" => applied[n] = 1 /\ file[n] = "gone"
    /\ kind[n] = "remove" /\ key[n] \notin overlapped /\ n \notin unwritten =>
         /\ applied[n] = 1
         /\ tracked[key[n]] # n
         /\ \A t \in Tasks : Handles(t) => task[t].id # n

Core == Known /\ Creators /\ Decided /\ Between /\ Holds /\ Written /\ Apart /\ Spent
          /\ TrackedHasFile /\ ForgottenOnlyByOverlap

PollsInv == PollsTypeOK /\ Core

-----------------------------------------------------------------------------
(***************************************************************************)
(* The shape of the state                                                  *)
(***************************************************************************)
LEMMA FreeIsState == Free \in TaskStates
  BY PollBoundAssumption DEF Free, NewTask, TaskStates, Ids

LEMMA TypeInit == Init => PollsTypeOK
  BY PollBoundAssumption, FreeIsState
     DEF Init, PollsTypeOK, TaskStates, Ids, Kinds, Free, NewTask

\* What a task that creates or handles a poll, and the poll it is about, are.
LEMMA TaskFacts ==
  ASSUME PollsTypeOK, Known, NEW t \in Tasks
  PROVE  /\ task[t] \in TaskStates
         /\ Creates(t) \/ Handles(t) =>
              /\ task[t].id \in Ids /\ task[t].id # 0
              /\ key[task[t].id] \in Keys /\ kind[task[t].id] \in Kinds
         /\ ~(Creates(t) /\ Handles(t))
<1>1. task[t] \in TaskStates /\ key \in [Ids -> Keys] /\ kind \in [Ids -> Kinds]
  BY DEF PollsTypeOK, TaskStates
<1>2. Creates(t) \/ Handles(t) => task[t].id \in Ids
  BY DEF Known
<1>3. \A n \in Ids : n # 0
  BY DEF Ids
<1>4. ~(Creates(t) /\ Handles(t))
  BY DEF Creates, Handles
<1> QED
  BY <1>1, <1>2, <1>3, <1>4

-----------------------------------------------------------------------------
(***************************************************************************)
(* Steps of several actions                                                *)
(***************************************************************************)
\* A step that touches neither the config nor the history, drops the file of a
\* poll that is not in the config at most, and leaves each task free or at work
\* on the same poll, not yet deciding it.
LEMMA WorkGoesOn ==
  ASSUME PollsInv, UNCHANGED <<tracked, requests, history>>,
         saved' = saved \/ saved' = tracked,
         UNCHANGED file \/ \E n \in Ids : tracked[key[n]] # n /\ DropFile(n),
         \A t \in Tasks :
           \/ task'[t] = task[t]
           \/ task'[t].op = "free"
           \/ Creates(t) /\ task'[t].op = "create" /\ task'[t].id = task[t].id
           \/ Early(t) /\ Early(t)' /\ task'[t].id = task[t].id
  PROVE  Core'
<1> USE DEF PollsInv, Core
<1>1. \A t \in Tasks : /\ Creates(t)' => Creates(t) /\ task'[t].id = task[t].id
                       /\ Handles(t)' => Handles(t) /\ task'[t].id = task[t].id
                       /\ Early(t)' => Early(t)
                       /\ Late(t)' => Late(t)
                       /\ Handles(t)' /\ task'[t].at = "again" => task[t].at = "again"
  BY DEF Creates, Handles, Early, Late
<1>2. UNCHANGED <<tracked, key, kind, nextId, applied, overlapped, squeezed, forgotten,
                  unwritten>>
  BY DEF requests, history
<1>10. \A n \in Ids : \/ file'[n] = file[n]
                      \/ tracked[key[n]] # n /\ kind[n] = "install" /\ file'[n] = "gone"
  BY DEF DropFile, PollsTypeOK
<1>3. Known'
  BY <1>1, <1>2 DEF Known
<1>4. Creators'
  BY <1>1, <1>2 DEF Creators
<1>5. Decided' /\ Between'
  <2>1. Decided'
    <3> SUFFICES ASSUME NEW t \in Tasks, Late(t)'
                 PROVE  (tracked[key[task[t].id]] # task[t].id)'
      BY DEF Decided
    <3>1. Late(t) /\ task'[t].id = task[t].id
      BY <1>1 DEF Late
    <3> QED
      BY <3>1, <1>2 DEF Decided
  <2>2. Between'
    BY <1>1, <1>2 DEF Between
  <2> QED
    BY <2>1, <2>2
<1>6. Holds'
  <2> SUFFICES ASSUME NEW t \in Tasks, Early(t)'
               PROVE  (Shaken(key[task[t].id]) \/ tracked[key[task[t].id]] = task[t].id)'
    BY DEF Holds
  <2>1. Early(t) /\ task'[t].id = task[t].id
    BY <1>1 DEF Early
  <2> QED
    BY <2>1, <1>2 DEF Holds, Shaken
<1>7. Apart' /\ Written'
  BY <1>1, <1>2 DEF Apart, Written
<1>8. Spent'
  BY <1>1, <1>2, <1>10 DEF Spent
<1>9. TrackedHasFile' /\ ForgottenOnlyByOverlap'
  BY <1>2, <1>10 DEF TrackedHasFile, ForgottenOnlyByOverlap, Known, PollsTypeOK
<1> QED
  BY <1>3, <1>4, <1>5, <1>6, <1>7, <1>8, <1>9

-----------------------------------------------------------------------------
(***************************************************************************)
(* The steps, one lemma each                                               *)
(***************************************************************************)
\* A request finds a number no task knows.
LEMMA BeginStep ==
  ASSUME PollsInv, NEW t \in Tasks, CreateBegin(t)
  PROVE  Core'
<1> USE DEF PollsInv, Core
<1> DEFINE n == nextId
<1>1. /\ n \in Ids /\ n # 0 /\ n' = n + 1 /\ n \in Nat
      /\ UNCHANGED <<tracked, saved, applied, overlapped, squeezed, forgotten, unwritten>>
  BY DEF CreateBegin, config, history, Ids
<1>2. /\ \A m \in Ids : m # n => key'[m] = key[m] /\ kind'[m] = kind[m] /\ file'[m] = file[m]
      /\ kind'[n] = "install" => file'[n] = "kept"
  BY DEF CreateBegin, PollsTypeOK
<1>3. /\ task[t] = Free /\ Creates(t)' /\ task'[t].id = n
      /\ \A u \in Tasks : u # t => task'[u] = task[u]
  BY DEF CreateBegin, Become, NewTask, Free, Creates, PollsTypeOK
<1>4. \A u \in Tasks : u # t => /\ Creates(u)' = Creates(u)
                                /\ Handles(u)' = Handles(u)
                                /\ Early(u)' = Early(u)
                                /\ Late(u)' = Late(u)
  BY <1>3 DEF Creates, Handles, Early, Late
<1>5. ~Handles(t)' /\ ~Early(t)' /\ ~Late(t)'
  BY <1>3 DEF Creates, Handles, Early, Late
<1>6. \A u \in Tasks : Creates(u) \/ Handles(u) => task[u].id \in Ids /\ task[u].id < n
  BY DEF Known
<1>7. /\ \A k \in Keys :
           tracked[k] # 0 => tracked[k] \in Ids /\ tracked[k] < n /\ key[tracked[k]] = k
      /\ \A k \in Keys :
           saved[k] # 0 => saved[k] \in Ids /\ saved[k] < n /\ key[saved[k]] = k
  <2>1. \A k \in Keys : tracked[k] \in Ids \union {0} /\ saved[k] \in Ids \union {0}
    BY DEF PollsTypeOK
  <2> QED
    BY <2>1 DEF Known
<1>8. applied[n] = 0 /\ n \notin forgotten
  BY <1>1 DEF Known, PollsTypeOK
<1>9. key'[n] \in Keys
  BY <1>1 DEF CreateBegin, PollsTypeOK
<1>10. forgotten \subseteq Ids /\ \A m \in Ids : m \in Nat
  BY DEF PollsTypeOK, Ids
<1> HIDE DEF n
<1>11. Known'
  <2>1. (\A k \in Keys : /\ tracked[k] # 0 => tracked[k] < nextId /\ key[tracked[k]] = k
                         /\ saved[k] # 0 => saved[k] < nextId /\ key[saved[k]] = k)'
    BY <1>1, <1>2, <1>7 DEF Ids, n
  <2>2. (\A u \in Tasks : Creates(u) \/ Handles(u) => task[u].id \in Ids /\ task[u].id < nextId)'
    <3> SUFFICES ASSUME NEW u \in Tasks, Creates(u)' \/ Handles(u)'
                 PROVE  task'[u].id \in Ids /\ task'[u].id < n'
      BY DEF n
    <3>1. CASE u = t
      BY <3>1, <1>1, <1>3
    <3>2. CASE u # t
      <4>1. task[u].id \in Ids /\ task[u].id < n /\ task'[u].id = task[u].id
        BY <3>2, <1>3, <1>4, <1>6
      <4>2. task[u].id < n + 1
        <5>1. task[u].id \in Nat
          BY <4>1, <1>10
        <5>2. \A a \in Nat : a < n => a < n + 1
          BY <1>1
        <5> QED
          BY <4>1, <5>1, <5>2
      <4>3. n' = n + 1
        BY <1>1
      <4> QED
        BY <4>1, <4>2, <4>3
    <3> QED
      BY <3>1, <3>2
  <2>3. (\A m \in forgotten : m < nextId)'
    BY <1>1, <1>10 DEF Known, n
  <2>4. (\A m \in Ids : applied[m] > 0 => m < nextId)'
    BY <1>1, <1>10 DEF Known, n
  <2> QED
    BY <2>1, <2>2, <2>3, <2>4 DEF Known
<1>12. Creators'
  <2> SUFFICES ASSUME NEW u \in Tasks, Creates(u)'
               PROVE  (/\ tracked[key[task[u].id]] # task[u].id
                       /\ applied[task[u].id] = 0
                       /\ \A v \in Tasks : (Creates(v) \/ Handles(v)) /\ task[v].id = task[u].id
                                             => v = u)'
    BY DEF Creators
  <2>1. CASE u = t
    <3>1. tracked[key'[n]] # n
      BY <1>1, <1>7, <1>9
    <3>2. \A v \in Tasks : (Creates(v)' \/ Handles(v)') /\ task'[v].id = n => v = t
      BY <1>1, <1>3, <1>4, <1>6
    <3> QED
      BY <2>1, <3>1, <3>2, <1>1, <1>3, <1>8
  <2>2. CASE u # t
    <3>1. Creates(u) /\ task'[u] = task[u] /\ task[u].id \in Ids /\ task[u].id # n
      BY <2>2, <1>1, <1>3, <1>4, <1>6
    <3>2. tracked[key'[task[u].id]] # task[u].id /\ applied[task[u].id] = 0
      BY <3>1, <1>2 DEF Creators
    <3>3. ASSUME NEW v \in Tasks, Creates(v)' \/ Handles(v)', task'[v].id = task[u].id
          PROVE  v = u
      <4>1. v # t /\ (Creates(v) \/ Handles(v)) /\ task[v].id = task[u].id
        BY <3>1, <3>3, <1>3, <1>4
      <4> QED
        BY <3>1, <4>1 DEF Creators
    <3> QED
      BY <3>1, <3>2, <3>3, <1>1
  <2> QED
    BY <2>1, <2>2
<1>13. Decided' /\ Between'
  <2>1. ASSUME NEW u \in Tasks, Handles(u)'
        PROVE  u # t /\ Handles(u) /\ task'[u] = task[u] /\ key'[task[u].id] = key[task[u].id]
    <3>1. u # t /\ Handles(u) /\ task'[u] = task[u]
      BY <2>1, <1>3, <1>4, <1>5
    <3>2. task[u].id \in Ids /\ task[u].id # n
      BY <3>1, <1>1, <1>6
    <3> QED
      BY <3>1, <3>2, <1>2
  <2>2. Decided'
    <3> SUFFICES ASSUME NEW u \in Tasks, Late(u)'
                 PROVE  (tracked[key[task[u].id]] # task[u].id)'
      BY DEF Decided
    <3>1. Handles(u)'
      BY DEF Late
    <3> QED
      BY <3>1, <2>1, <1>1, <1>4 DEF Decided
  <2>3. Between'
    BY <2>1, <1>1 DEF Between
  <2> QED
    BY <2>2, <2>3
<1>14. Holds'
  <2> SUFFICES ASSUME NEW u \in Tasks, Early(u)'
               PROVE  (Shaken(key[task[u].id]) \/ tracked[key[task[u].id]] = task[u].id)'
    BY DEF Holds
  <2>1. u # t /\ Early(u) /\ Handles(u) /\ task'[u] = task[u]
    BY <1>3, <1>4, <1>5 DEF Early
  <2>2. task[u].id \in Ids /\ task[u].id # n
    BY <2>1, <1>1, <1>6
  <2> QED
    BY <2>1, <2>2, <1>1, <1>2, ZenonT(40) DEF Holds, Shaken
<1>15. Apart' /\ Written'
  <2>1. Apart'
    <3> SUFFICES ASSUME NEW u \in Tasks, NEW v \in Tasks, u # v, Handles(u)', Handles(v)',
                        task'[u].id = task'[v].id
                 PROVE  (key[task[u].id] \in overlapped)'
      BY DEF Apart
    <3>1. u # t /\ v # t /\ Handles(u) /\ Handles(v) /\ task'[u] = task[u] /\ task'[v] = task[v]
      BY <1>3, <1>4, <1>5
    <3>2. task[u].id \in Ids /\ task[u].id # n
      BY <3>1, <1>1, <1>6
    <3> QED
      BY <3>1, <3>2, <1>1, <1>2 DEF Apart
  <2> QED
    BY <2>1, <1>1 DEF Written
<1>16. Spent'
  BY <1>1, <1>2, <1>3, <1>4, <1>5, <1>8, <1>10 DEF Spent
<1>17. TrackedHasFile'
  BY <1>1, <1>2, <1>7 DEF TrackedHasFile
<1>18. ForgottenOnlyByOverlap'
  BY <1>1, <1>2, <1>8, <1>10 DEF ForgottenOnlyByOverlap
<1> QED
  BY <1>11, <1>12, <1>13, <1>14, <1>15, <1>16, <1>17, <1>18

\* What a write of the config does, and what it leaves for later.
LEMMA FlushFacts ==
  ASSUME PollsInv, NEW changed \in SUBSET (Ids \union {0}), Flush(changed)
  PROVE  /\ saved' = tracked' \/ saved' = saved
         /\ saved' # tracked' => changed \ {0} \subseteq unwritten'
         /\ unwritten \subseteq unwritten' /\ unwritten' \subseteq Ids
         /\ faults' \in 0 .. MaxFaults
<1>1. /\ faults \in 0 .. MaxFaults /\ unwritten \subseteq Ids /\ MaxFaults \in Nat
      /\ changed \ {0} \subseteq Ids
  BY PollBoundAssumption DEF PollsInv, PollsTypeOK
<1>2. \/ faults' = faults /\ saved' = tracked' /\ unwritten' = unwritten
      \/ /\ faults < MaxFaults /\ faults' = faults + 1
         /\ saved' = saved /\ unwritten' = unwritten \union (changed \ {0})
  BY DEF Flush, Sound, Fault
<1>3. faults' \in 0 .. MaxFaults
  BY <1>1, <1>2
<1> QED
  BY <1>1, <1>2, <1>3

\* One key is changed, and the polls it loses and gets are those that may not be
\* written.
LEMMA WrittenStep ==
  ASSUME PollsInv, NEW k \in Keys, NEW n \in Ids \union {0},
         tracked' = [tracked EXCEPT ![k] = n], Flush({tracked[k], n})
  PROVE  /\ Written'
         /\ \A j \in Keys : saved'[j] \in {saved[j], tracked'[j]}
<1>1. /\ tracked'[k] = n
      /\ \A j \in Keys : j # k => tracked'[j] = tracked[j]
      /\ tracked[k] \in Ids \union {0}
  BY DEF PollsInv, PollsTypeOK
<1>2. /\ saved' = tracked' \/ saved' = saved
      /\ saved' # tracked' => {tracked[k], n} \ {0} \subseteq unwritten'
      /\ unwritten \subseteq unwritten'
  BY <1>1, FlushFacts
<1> QED
  BY <1>1, <1>2 DEF Written, PollsInv, Core

\* A poll goes into the config: its file is there, unless the write has failed, and
\* no task handles a poll of a key that has none, but one that was shaken.
LEMMA StoreStep ==
  ASSUME PollsInv, NEW t \in Tasks, CreateStore(t), Vacant(t)
  PROVE  Core'
<1> USE DEF PollsInv, Core
<1> DEFINE n == task[t].id
           k == key[n]
<1>1. /\ Creates(t) /\ n \in Ids /\ n # 0 /\ k \in Keys /\ tracked[k] = 0
      /\ kind[n] \in Kinds
  BY TaskFacts DEF CreateStore, StoreIf, Is, Vacant, Creates
<1>2. /\ tracked' = [tracked EXCEPT ![k] = n] /\ Become(t, Free)
      /\ squeezed' = IF Removing(k) THEN squeezed \union {k} ELSE squeezed
      /\ Flush({n}) /\ (file' = file \/ (saved' # tracked' /\ DropFile(n)))
      /\ UNCHANGED <<key, kind, nextId, applied, overlapped, forgotten>>
  BY <1>1 DEF CreateStore, StoreIf, Vacant, CreateKept, requests
<1>20. Flush({tracked[k], n})
  BY <1>1, <1>2 DEF Flush
<1>21. /\ Written' /\ \A j \in Keys : saved'[j] \in {saved[j], tracked'[j]}
  BY <1>1, <1>2, <1>20, WrittenStep
<1>22. /\ unwritten \subseteq unwritten'
       /\ file' = file \/ (DropFile(n) /\ n \in unwritten')
  BY <1>1, <1>2, FlushFacts
<1>3. /\ tracked'[k] = n
      /\ \A j \in Keys : j # k => tracked'[j] = tracked[j]
  BY <1>1, <1>2 DEF PollsTypeOK
<1>4. /\ \A u \in Tasks : u # t => task'[u] = task[u]
      /\ ~Creates(t)' /\ ~Handles(t)' /\ ~Early(t)' /\ ~Late(t)'
  BY <1>2 DEF Become, Free, NewTask, Creates, Handles, Early, Late, PollsTypeOK
<1>5. \A u \in Tasks : u # t => /\ Creates(u)' = Creates(u)
                                /\ Handles(u)' = Handles(u)
                                /\ Early(u)' = Early(u)
                                /\ Late(u)' = Late(u)
  BY <1>4 DEF Creates, Handles, Early, Late
<1>6. /\ applied[n] = 0 /\ n < nextId
      /\ \A u \in Tasks : (Creates(u) \/ Handles(u)) /\ task[u].id = n => u = t
  BY <1>1 DEF Creators, Known
<1>7. kind[n] = "install" => file[n] = "kept"
  BY <1>1 DEF PollsTypeOK, Creates
<1>8. \A u \in Tasks : Creates(u) \/ Handles(u) => /\ task[u].id \in Ids /\ task[u].id # 0
                                                   /\ key[task[u].id] \in Keys
  BY TaskFacts
<1>9. \A m \in Ids : file'[m] = file[m] \/ (m = n /\ file'[m] = "gone" /\ n \in unwritten')
  BY <1>1, <1>22 DEF DropFile, PollsTypeOK
<1>10. squeezed \subseteq squeezed' /\ (Removing(k) => k \in squeezed')
  BY <1>2
<1> HIDE DEF n, k
<1>11. Known'
  <2>1. (\A j \in Keys : tracked[j] # 0 => tracked[j] < nextId /\ key[tracked[j]] = j)'
    BY <1>2, <1>3, <1>6 DEF Known, k
  <2>2. (\A j \in Keys : saved[j] # 0 => saved[j] < nextId /\ key[saved[j]] = j)'
    BY <2>1, <1>2, <1>21 DEF Known
  <2> QED
    BY <2>1, <2>2, <1>2, <1>4, <1>5 DEF Known
<1>12. Creators'
  BY <1>1, <1>2, <1>3, <1>4, <1>5, <1>6, <1>8 DEF Creators
<1>13. Decided' /\ Between'
  <2>1. Decided'
    <3> SUFFICES ASSUME NEW u \in Tasks, Late(u)'
                 PROVE  (tracked[key[task[u].id]] # task[u].id)'
      BY DEF Decided
    <3>1. u # t /\ Late(u) /\ Handles(u) /\ task'[u] = task[u]
      BY <1>4, <1>5 DEF Late
    <3>2. task[u].id # n /\ key[task[u].id] \in Keys
      BY <3>1, <1>6, <1>8
    <3> QED
      BY <3>1, <3>2, <1>2, <1>3 DEF Decided
  <2>2. Between'
    <3> SUFFICES ASSUME NEW u \in Tasks, Handles(u)', task'[u].at = "again"
                 PROVE  (key[task[u].id] \in squeezed \/ tracked[key[task[u].id]] = 0)'
      BY DEF Between
    <3>1. u # t /\ Handles(u) /\ task'[u] = task[u] /\ key[task[u].id] \in Keys
      BY <1>4, <1>5, <1>8
    <3>2. CASE key[task[u].id] = k
      BY <3>1, <3>2, <1>2, <1>10 DEF Removing
    <3>3. CASE key[task[u].id] # k
      BY <3>1, <3>3, <1>2, <1>3, <1>10 DEF Between
    <3> QED
      BY <3>2, <3>3
  <2> QED
    BY <2>1, <2>2
<1>14. Holds'
  <2> SUFFICES ASSUME NEW u \in Tasks, Early(u)'
               PROVE  (Shaken(key[task[u].id]) \/ tracked[key[task[u].id]] = task[u].id)'
    BY DEF Holds
  <2>1. u # t /\ Early(u) /\ Handles(u) /\ task'[u] = task[u]
    BY <1>4, <1>5 DEF Early
  <2> QED
    BY <2>1, <1>1, <1>2, <1>3, <1>8, <1>10 DEF Holds, Shaken
<1>15. Apart'
  BY <1>2, <1>4, <1>5 DEF Apart
<1>16. Spent'
  BY <1>1, <1>2, <1>3, <1>4, <1>5, <1>6, <1>9, <1>22 DEF Spent, PollsTypeOK
<1>17. TrackedHasFile'
  <2> SUFFICES ASSUME NEW j \in Keys, tracked'[j] # 0, kind'[tracked'[j]] = "install"
               PROVE  file'[tracked'[j]] = "kept" \/ tracked'[j] \in unwritten'
    BY DEF TrackedHasFile
  <2>1. CASE j = k
    BY <2>1, <1>1, <1>2, <1>3, <1>7, <1>9
  <2>2. CASE j # k
    BY <2>2, <1>2, <1>3, <1>9, <1>22 DEF TrackedHasFile, PollsTypeOK
  <2> QED
    BY <2>1, <2>2
<1>18. ForgottenOnlyByOverlap'
  BY <1>2, <1>10 DEF ForgottenOnlyByOverlap
<1> QED
  BY <1>11, <1>12, <1>13, <1>14, <1>15, <1>16, <1>17, <1>18, <1>21

\* A task starts to handle a poll that it finds in the config.
LEMMA HandleStep ==
  ASSUME PollsInv, NEW t \in Tasks, NEW e \in events, Handle(t, e)
  PROVE  Core'
<1> USE DEF PollsInv, Core
<1> DEFINE n == e[2]
<1>1. UNCHANGED <<tracked, saved, key, kind, nextId, file, applied, squeezed, forgotten,
                  unwritten>>
  BY DEF Handle, config, requests
<1>2. n \in Ids /\ n # 0 /\ key[n] \in Keys
  BY DEF PollsTypeOK, Ids
<1>3. CASE tracked[key[n]] = n
  <2>1. /\ Handles(t)' /\ Early(t)' /\ task'[t].id = n /\ ~Creates(t)'
        /\ ~Late(t)'
        /\ \A u \in Tasks : u # t => task'[u] = task[u]
    BY <1>3 DEF Handle, Become, NewTask, Creates, Handles, Early, Late, PollsTypeOK
  <2>2. \A u \in Tasks : u # t => /\ Creates(u)' = Creates(u)
                                  /\ Handles(u)' = Handles(u)
                                  /\ Early(u)' = Early(u)
                                  /\ Late(u)' = Late(u)
    BY <2>1 DEF Creates, Handles, Early, Late
  <2>3. /\ overlapped \subseteq overlapped'
        /\ \A u \in Tasks : u # t /\ Handles(u) /\ task[u].id = n => key[n] \in overlapped'
    <3>1. \A u \in Tasks : Handles(u) /\ task[u].id = n => u \in Handling(n)
      BY DEF Handles, Handling
    <3> QED
      BY <1>3, <3>1 DEF Handle
  <2>4. n < nextId
    BY <1>2, <1>3 DEF Known
  <2> HIDE DEF n
  <2>11. Known'
    BY <1>1, <1>2, <2>1, <2>2, <2>4 DEF Known
  <2>12. Creators'
    <3>1. \A u \in Tasks : Creates(u) => task[u].id # n
      BY <1>3 DEF Creators
    <3> QED
      BY <1>1, <2>1, <2>2, <3>1 DEF Creators
  <2>13. Decided' /\ Between' /\ Written'
    <3>1. Decided'
      BY <1>1, <2>1, <2>2 DEF Decided
    <3>2. Between'
      BY <1>1, <2>1, <2>2 DEF Between, Late
    <3> QED
      BY <1>1, <3>1, <3>2 DEF Written
  <2>14. Holds'
    <3> SUFFICES ASSUME NEW u \in Tasks, Early(u)'
                 PROVE  (Shaken(key[task[u].id]) \/ tracked[key[task[u].id]] = task[u].id)'
      BY DEF Holds
    <3>1. CASE u = t
      BY <3>1, <1>1, <1>3, <2>1
    <3>2. CASE u # t
      BY <3>2, <1>1, <2>1, <2>2, <2>3 DEF Holds, Shaken
    <3> QED
      BY <3>1, <3>2
  <2>15. Apart'
    <3> SUFFICES ASSUME NEW u \in Tasks, NEW v \in Tasks, u # v, Handles(u)', Handles(v)',
                        task'[u].id = task'[v].id
                 PROVE  (key[task[u].id] \in overlapped)'
      BY DEF Apart
    <3>1. CASE u = t
      BY <3>1, <1>1, <2>1, <2>2, <2>3
    <3>2. CASE v = t
      BY <3>2, <1>1, <2>1, <2>2, <2>3
    <3>3. CASE u # t /\ v # t
      BY <3>3, <1>1, <2>1, <2>2, <2>3 DEF Apart
    <3> QED
      BY <3>1, <3>2, <3>3
  <2>16. Spent'
    BY <1>1, <1>3, <2>1, <2>2, <2>3 DEF Spent
  <2>17. TrackedHasFile' /\ ForgottenOnlyByOverlap'
    BY <1>1, <2>3 DEF TrackedHasFile, ForgottenOnlyByOverlap
  <2> QED
    BY <2>11, <2>12, <2>13, <2>14, <2>15, <2>16, <2>17
<1>4. CASE tracked[key[n]] # n
  <2>1. UNCHANGED <<task, overlapped>>
    BY <1>4 DEF Handle
  <2> QED
    BY <1>1, <2>1, WorkGoesOn DEF requests, history
<1> QED
  BY <1>3, <1>4

\* A key is removed from the config: it has the poll that the task handles, or none
\* if the task has removed that before, unless the key was shaken.  The poll's file
\* may be dropped.
LEMMA ForgetStep ==
  ASSUME PollsInv, NEW t \in Tasks,
         Early(t) \/ (Handles(t) /\ task[t].at = "again"),
         tracked' = [tracked EXCEPT ![key[task[t].id]] = 0],
         Flush({tracked[key[task[t].id]]}),
         forgotten' = IF tracked[key[task[t].id]] \in {0, task[t].id} THEN forgotten
                      ELSE forgotten \union {tracked[key[task[t].id]]},
         UNCHANGED <<requests, applied, overlapped, squeezed>>,
         UNCHANGED file \/ DropFile(task[t].id),
         \/ Become(t, Free)
         \/ \E at \in {"again", "decide"} : task[t].op = "check" /\ Proceed(t, at)
  PROVE  Core'
<1> USE DEF PollsInv, Core
<1> DEFINE n == task[t].id
           k == key[n]
<1>1. /\ Handles(t) /\ n \in Ids /\ n # 0 /\ k \in Keys
      /\ key' = key /\ kind' = kind /\ nextId' = nextId
      /\ applied' = applied /\ overlapped' = overlapped /\ squeezed' = squeezed
  BY TaskFacts DEF Early, requests
<1>19. Flush({tracked[k], 0})
  BY DEF Flush
<1>20. /\ Written' /\ \A j \in Keys : saved'[j] \in {saved[j], tracked'[j]}
  BY <1>1, <1>19, WrittenStep
<1>21. unwritten \subseteq unwritten'
  <2>1. {tracked[k]} \in SUBSET (Ids \union {0})
    BY <1>1 DEF PollsTypeOK
  <2> QED
    BY <2>1, FlushFacts
<1>2. /\ tracked'[k] = 0
      /\ \A j \in Keys : j # k => tracked'[j] = tracked[j]
  BY <1>1 DEF PollsTypeOK
<1>3. /\ \A u \in Tasks : u # t => task'[u] = task[u]
      /\ ~Creates(t)' /\ ~Early(t)'
      /\ Handles(t)' => task'[t].id = n
  BY <1>1 DEF Become, Proceed, Free, NewTask, Creates, Handles, Early, Late, PollsTypeOK
<1>4. \A u \in Tasks : u # t => /\ Creates(u)' = Creates(u)
                                /\ Handles(u)' = Handles(u)
                                /\ Early(u)' = Early(u)
                                /\ Late(u)' = Late(u)
  BY <1>3 DEF Creates, Handles, Early, Late
<1>5. Shaken(k) \/ tracked[k] \in {0, n}
  BY DEF Holds, Between, Shaken
<1>6. \A u \in Tasks : Creates(u) \/ Handles(u) => /\ task[u].id \in Ids /\ task[u].id # 0
                                                   /\ key[task[u].id] \in Keys
  BY TaskFacts
<1>7. \A m \in Ids : file'[m] = file[m] \/ (m = n /\ file'[m] = "gone" /\ kind[m] = "install")
  BY DEF DropFile, PollsTypeOK
<1>8. n < nextId
  BY <1>1 DEF Known
<1>9. \A m \in forgotten' : m \in forgotten \/ (m = tracked[k] /\ m # 0 /\ m # n)
  OBVIOUS
<1> HIDE DEF n, k
<1>10. \A j \in Keys : tracked[j] # 0 => tracked[j] < nextId /\ key[tracked[j]] = j
  BY DEF Known
<1>11. Known'
  <2>1. (\A m \in forgotten : m < nextId)'
    BY <1>1, <1>9, <1>10 DEF Known
  <2>2. (\A j \in Keys : tracked[j] # 0 => tracked[j] < nextId /\ key[tracked[j]] = j)'
    BY <1>1, <1>2, <1>10
  <2>3. (\A u \in Tasks : Creates(u) \/ Handles(u) => task[u].id \in Ids /\ task[u].id < nextId)'
    BY <1>1, <1>3, <1>4, <1>8 DEF Known
  <2>4. (\A m \in Ids : applied[m] > 0 => m < nextId)'
    BY <1>1 DEF Known
  <2>5. (\A j \in Keys : saved[j] # 0 => saved[j] < nextId /\ key[saved[j]] = j)'
    BY <2>2, <1>1, <1>20 DEF Known
  <2> QED
    BY <2>1, <2>2, <2>3, <2>4, <2>5 DEF Known
<1>12. Creators'
  <2> SUFFICES ASSUME NEW u \in Tasks, Creates(u)'
               PROVE  (/\ tracked[key[task[u].id]] # task[u].id
                       /\ applied[task[u].id] = 0
                       /\ \A v \in Tasks : (Creates(v) \/ Handles(v)) /\ task[v].id = task[u].id
                                             => v = u)'
    BY DEF Creators
  <2>1. u # t /\ Creates(u) /\ task'[u] = task[u] /\ task[u].id # 0 /\ key[task[u].id] \in Keys
    BY <1>3, <1>4, <1>6
  <2>2. task[u].id # n
    BY <2>1, <1>1 DEF Creators, n
  <2>3. tracked'[key[task[u].id]] # task[u].id /\ applied[task[u].id] = 0
    BY <2>1, <1>2 DEF Creators
  <2>4. \A v \in Tasks : (Creates(v)' \/ Handles(v)') /\ task'[v].id = task[u].id => v = u
    BY <2>1, <2>2, <1>3, <1>4 DEF Creators
  <2> QED
    BY <2>1, <2>3, <2>4, <1>1
<1>13. Decided' /\ Between'
  <2>1. ASSUME NEW u \in Tasks, Handles(u)'
        PROVE  Handles(u) /\ task'[u].id = task[u].id /\ task[u].id # 0
                 /\ key[task[u].id] \in Keys
    BY <2>1, <1>1, <1>3, <1>4, <1>6 DEF n
  <2>2. Decided'
    <3> SUFFICES ASSUME NEW u \in Tasks, Late(u)'
                 PROVE  (tracked[key[task[u].id]] # task[u].id)'
      BY DEF Decided
    <3>1. Handles(u)'
      BY DEF Late
    <3>2. CASE u = t
      BY <3>1, <3>2, <2>1, <1>1, <1>2 DEF n, k
    <3>3. CASE u # t
      BY <3>1, <3>3, <2>1, <1>1, <1>2, <1>4 DEF Decided
    <3> QED
      BY <3>2, <3>3
  <2>3. Between'
    <3> SUFFICES ASSUME NEW u \in Tasks, Handles(u)', task'[u].at = "again"
                 PROVE  (key[task[u].id] \in squeezed \/ tracked[key[task[u].id]] = 0)'
      BY DEF Between
    <3>1. CASE u = t
      BY <3>1, <2>1, <1>1, <1>2 DEF n, k
    <3>2. CASE u # t
      BY <3>2, <2>1, <1>1, <1>2, <1>3 DEF Between
    <3> QED
      BY <3>1, <3>2
  <2> QED
    BY <2>2, <2>3
<1>14. Holds'
  <2> SUFFICES ASSUME NEW u \in Tasks, Early(u)'
               PROVE  (Shaken(key[task[u].id]) \/ tracked[key[task[u].id]] = task[u].id)'
    BY DEF Holds
  <2>1. u # t /\ Early(u) /\ task'[u] = task[u] /\ key[task[u].id] \in Keys /\ Handles(u)
        /\ task[u].id # 0
    BY <1>3, <1>4, <1>6 DEF Early
  <2>2. Shaken(key[task[u].id]) \/ tracked[key[task[u].id]] = task[u].id
    BY <2>1 DEF Holds
  <2>3. CASE key[task[u].id] = k /\ ~Shaken(k)
    <3>1. task[u].id = n
      BY <2>1, <2>2, <2>3, <1>5
    <3>2. k \in overlapped
      BY <3>1, <2>1, <1>1 DEF Apart, n, k
    <3> QED
      BY <3>2, <2>3 DEF Shaken
  <2>4. CASE key[task[u].id] # k
    BY <2>1, <2>2, <2>4, <1>1, <1>2 DEF Shaken
  <2>5. CASE Shaken(key[task[u].id])
    BY <2>1, <2>5, <1>1 DEF Shaken
  <2> QED
    BY <2>3, <2>4, <2>5
<1>15. Apart'
  <2>1. \A u \in Tasks : Handles(u)' => Handles(u) /\ task'[u].id = task[u].id
    BY <1>1, <1>3, <1>4 DEF n
  <2> QED
    BY <2>1, <1>1 DEF Apart
<1>16. Spent'
  <2>1. \A u \in Tasks : Handles(u)' => Handles(u) /\ task'[u].id = task[u].id
    BY <1>1, <1>3, <1>4 DEF n
  <2>2. \A m \in Ids : tracked'[key[m]] = tracked[key[m]] \/ tracked'[key[m]] = 0
    BY <1>2 DEF PollsTypeOK
  <2> QED
    BY <2>1, <2>2, <1>1, <1>7, <1>21 DEF Spent, Ids
<1>17. TrackedHasFile'
  <2> SUFFICES ASSUME NEW j \in Keys, tracked'[j] # 0, kind'[tracked'[j]] = "install"
               PROVE  file'[tracked'[j]] = "kept" \/ tracked'[j] \in unwritten'
    BY DEF TrackedHasFile
  <2>1. j # k /\ tracked'[j] = tracked[j] /\ tracked[j] # n /\ tracked[j] \in Ids
    BY <1>2, <1>10 DEF PollsTypeOK, k
  <2> QED
    BY <2>1, <1>1, <1>7, <1>21 DEF TrackedHasFile
<1>18. ForgottenOnlyByOverlap'
  <2> SUFFICES ASSUME NEW m \in forgotten'
               PROVE  Shaken(key[m])
    BY <1>1 DEF ForgottenOnlyByOverlap, Shaken
  <2>1. CASE m \in forgotten
    BY <2>1 DEF ForgottenOnlyByOverlap, Shaken
  <2>2. CASE m = tracked[k] /\ m # 0 /\ m # n
    BY <2>2, <1>1, <1>5, <1>10
  <2> QED
    BY <2>1, <2>2, <1>9
<1> QED
  BY <1>11, <1>12, <1>13, <1>14, <1>15, <1>16, <1>17, <1>18, <1>20

\* A poll takes effect: its file was there, or no other task has handled it.
LEMMA DecideStep ==
  ASSUME PollsInv, NEW t \in Tasks, CheckDecide(t)
  PROVE  Core'
<1> USE DEF PollsInv, Core
<1> DEFINE n == task[t].id
<1>1. /\ Handles(t) /\ Late(t) /\ task[t].at = "decide" /\ n \in Ids /\ n # 0 /\ key[n] \in Keys
      /\ kind[n] \in Kinds
  BY TaskFacts DEF CheckDecide, Decide, Is, Handles, Late
<1>2. /\ UNCHANGED <<tracked, saved, key, kind, nextId, overlapped, squeezed, forgotten,
                     unwritten>>
      /\ DropFile(n) /\ Become(t, Free)
  BY DEF CheckDecide, Decide, HandleKept, NotRemoved, config, requests
<1>3. \/ applied' = applied
      \/ /\ kind[n] = "install" => file[n] = "kept"
         /\ applied' = [applied EXCEPT ![n] = @ + 1]
  BY DEF CheckDecide, Decide, NoEffect, ServerObeys
<1>4. CASE applied' = applied
  BY <1>1, <1>2, <1>4, WorkGoesOn
     DEF Decided, requests, history, Become, Free, NewTask, PollsTypeOK
<1>5. CASE /\ kind[n] = "install" => file[n] = "kept"
           /\ applied' = [applied EXCEPT ![n] = @ + 1]
  <2>1. /\ \A m \in Ids : file'[m] = IF m = n /\ kind[n] = "install" THEN "gone" ELSE file[m]
        /\ \A m \in Ids : applied'[m] = IF m = n THEN applied[n] + 1 ELSE applied[m]
        /\ \A m \in Ids : applied[m] \in Nat
    BY <1>1, <1>2, <1>5 DEF DropFile, PollsTypeOK
  <2>2. /\ ~Creates(t)' /\ ~Handles(t)' /\ ~Early(t)' /\ ~Late(t)'
        /\ \A u \in Tasks : u # t => task'[u] = task[u]
    BY <1>2 DEF Become, Free, NewTask, Creates, Handles, Early, Late, PollsTypeOK
  <2>3. \A u \in Tasks : u # t => /\ Creates(u)' = Creates(u)
                                  /\ Handles(u)' = Handles(u)
                                  /\ Early(u)' = Early(u)
                                  /\ Late(u)' = Late(u)
    BY <2>2 DEF Creates, Handles, Early, Late
  <2>4. n < nextId /\ tracked[key[n]] # n
    BY <1>1 DEF Known, Decided
  <2>5. \A u \in Tasks : Creates(u) => task[u].id \in Ids /\ task[u].id # n
    BY <1>1, TaskFacts DEF Creators
  <2>6. /\ kind[n] = "install" => applied[n] = 0
        /\ kind[n] = "remove" /\ key[n] \notin overlapped /\ n \notin unwritten =>
             /\ applied[n] = 0
             /\ \A u \in Tasks : u # t /\ Handles(u) => task[u].id # n
    BY <1>1, <1>5, <2>1 DEF Spent, Apart
  <2> HIDE DEF n
  <2>11. Known'
    BY <1>2, <2>1, <2>2, <2>3, <2>4 DEF Known
  <2>12. Creators'
    BY <1>2, <2>1, <2>2, <2>3, <2>5 DEF Creators
  <2>13. Decided' /\ Between' /\ Written'
    <3>1. Decided'
      BY <1>2, <2>2, <2>3 DEF Decided
    <3>2. Between'
      BY <1>2, <2>2, <2>3 DEF Between
    <3> QED
      BY <1>2, <3>1, <3>2 DEF Written
  <2>14. Holds'
    <3> SUFFICES ASSUME NEW u \in Tasks, Early(u)'
                 PROVE  (Shaken(key[task[u].id]) \/ tracked[key[task[u].id]] = task[u].id)'
      BY DEF Holds
    <3> QED
      BY <1>2, <2>2, <2>3 DEF Holds, Shaken
  <2>15. Apart'
    BY <1>2, <2>2, <2>3 DEF Apart
  <2>16. Spent'
    <3> SUFFICES ASSUME NEW m \in Ids, applied'[m] > 0
                 PROVE  (/\ kind[m] = "install" => applied[m] = 1 /\ file[m] = "gone"
                         /\ kind[m] = "remove" /\ key[m] \notin overlapped /\ m \notin unwritten =>
                              /\ applied[m] = 1
                              /\ tracked[key[m]] # m
                              /\ \A u \in Tasks : Handles(u) => task[u].id # m)'
      BY DEF Spent
    <3>1. CASE m = n
      BY <3>1, <1>2, <2>1, <2>2, <2>3, <2>4, <2>6
    <3>2. CASE m # n
      BY <3>2, <1>2, <2>1, <2>2, <2>3 DEF Spent
    <3> QED
      BY <3>1, <3>2
  <2>17. TrackedHasFile'
    BY <1>2, <2>1, <2>4 DEF TrackedHasFile, Known, PollsTypeOK
  <2>18. ForgottenOnlyByOverlap'
    BY <1>2 DEF ForgottenOnlyByOverlap
  <2> QED
    BY <2>11, <2>12, <2>13, <2>14, <2>15, <2>16, <2>17, <2>18
<1> QED
  BY <1>3, <1>4, <1>5

-----------------------------------------------------------------------------
(***************************************************************************)
(* The shape of the state is kept                                          *)
(***************************************************************************)
\* The part of PollsTypeOK that is about the requests under way.
InstallOnce ==
  \A t, u \in Tasks :
    (task[t].op = "create" /\ kind[task[t].id] = "install") =>
      /\ file[task[t].id] = "kept"
      /\ (task[u].op = "create" /\ kind[task[u].id] = "install") => t = u

\* It is disturbed by a new request only: no file is dropped that another
\* request is about.
LEMMA InstallKept ==
  ASSUME PollsInv, UNCHANGED kind,
         \A t \in Tasks : Creates(t)' => Creates(t) /\ task'[t].id = task[t].id,
         \/ UNCHANGED file
         \/ \E n \in Ids : DropFile(n) /\ \A t \in Tasks : Creates(t)' => task[t].id # n
  PROVE  InstallOnce'
<1>1. \A t \in Tasks : Creates(t)' => file'[task[t].id] = file[task[t].id]
  <2> SUFFICES ASSUME NEW t \in Tasks, Creates(t)'
               PROVE  file'[task[t].id] = file[task[t].id]
    OBVIOUS
  <2>1. task[t].id \in Ids
    BY TaskFacts DEF PollsInv, Core
  <2> QED
    BY <2>1 DEF DropFile, PollsInv, PollsTypeOK
<1> QED
  BY <1>1 DEF InstallOnce, PollsInv, PollsTypeOK, Creates

\* What a task may become.
LEMMA NextTask ==
  ASSUME PollsTypeOK, NEW t \in Tasks, NEW w \in TaskStates, Become(t, w)
  PROVE  /\ task' \in [Tasks -> TaskStates]
         /\ task'[t] = w
         /\ \A u \in Tasks : u # t => task'[u] = task[u]
  BY DEF Become, PollsTypeOK, TaskStates

LEMMA TypeDiscord ==
  ASSUME PollsInv, NEW n \in Ids, Vote(n) \/ Unvote(n) \/ Expire(n) \/ Delete(n)
  PROVE  PollsTypeOK'
<1>1. InstallOnce'
  BY InstallKept DEF Vote, Unvote, Expire, Delete, requests, Creates
<1>2. CASE Vote(n)
  <2>1. /\ yes[n] \in 0 .. Members /\ no[n] \in 0 .. Members
        /\ yes[n] + no[n] < Members /\ Members \in Nat
    BY <1>2, PollBoundAssumption DEF Vote, PollsInv, PollsTypeOK
  <2>2. yes' \in [Ids -> 0 .. Members] /\ no' \in [Ids -> 0 .. Members]
    BY <1>2, <2>1 DEF Vote, PollsInv, PollsTypeOK
  <2> QED
    BY <1>1, <1>2, <2>2 DEF Vote, config, requests, history, PollsInv, PollsTypeOK,
         InstallOnce
<1>3. CASE Expire(n)
  BY <1>1, <1>3 DEF Expire, config, requests, history, PollsInv, PollsTypeOK, InstallOnce
<1>4. CASE Delete(n)
  <2>1. yes' \in [Ids -> 0 .. Members] /\ no' \in [Ids -> 0 .. Members]
    BY <1>4, PollBoundAssumption DEF Delete, PollsInv, PollsTypeOK
  <2> QED
    BY <1>1, <1>4, <2>1 DEF Delete, config, requests, history, PollsInv, PollsTypeOK,
         InstallOnce
<1>5. CASE Unvote(n)
  <2>1. /\ yes[n] \in 0 .. Members /\ no[n] \in 0 .. Members /\ Members \in Nat
        /\ unvotes' \in 0 .. MaxUnvotes
    BY <1>5, PollBoundAssumption DEF Unvote, PollsInv, PollsTypeOK
  <2>2. yes' \in [Ids -> 0 .. Members] /\ no' \in [Ids -> 0 .. Members]
    BY <1>5, <2>1 DEF Unvote, PollsInv, PollsTypeOK
  <2> QED
    BY <1>1, <1>5, <2>1, <2>2 DEF Unvote, config, requests, history, PollsInv, PollsTypeOK,
       InstallOnce
<1> QED
  BY <1>2, <1>3, <1>4, <1>5

LEMMA TypeBegin ==
  ASSUME PollsInv, NEW t \in Tasks, CreateBegin(t)
  PROVE  PollsTypeOK'
<1> USE DEF PollsInv, Core
<1> DEFINE n == nextId
<1>1. PICK k \in Keys, what \in Kinds :
        /\ IF what = "install"
           THEN ~InstallRequested /\ file' = [file EXCEPT ![n] = "kept"]
           ELSE k \in installed /\ UNCHANGED file
        /\ key' = [key EXCEPT ![n] = k]
        /\ kind' = [kind EXCEPT ![n] = what]
        /\ Become(t, [NewTask("create", IF tracked[k] # 0 THEN "look" ELSE "ask", n)
                         EXCEPT !.old = tracked[k]])
  BY DEF CreateBegin
<1>2. /\ n \in Ids /\ nextId' = nextId + 1
      /\ UNCHANGED <<tracked, saved, message, yes, no, unvotes, installed, events, applied,
                     overlapped, squeezed, forgotten, unwritten, faults, restarts>>
  BY DEF CreateBegin, config, discord, history
<1> DEFINE w == [NewTask("create", IF tracked[k] # 0 THEN "look" ELSE "ask", n)
                    EXCEPT !.old = tracked[k]]
<1>3. w \in TaskStates /\ w.op = "create" /\ w.id = n
  BY <1>2, PollBoundAssumption DEF NewTask, TaskStates, PollsTypeOK
<1>4. Become(t, w)
  BY <1>1
<1> HIDE DEF w
<1>5. /\ task' \in [Tasks -> TaskStates]
      /\ task'[t] = w
      /\ \A u \in Tasks : u # t => task'[u] = task[u]
  BY <1>3, <1>4, NextTask
<1>6. \A u \in Tasks : u # t /\ task'[u].op = "create" =>
        /\ task'[u] = task[u] /\ task[u].op = "create"
        /\ task[u].id \in Ids /\ task[u].id # n
        /\ kind'[task[u].id] = kind[task[u].id]
        /\ file'[task[u].id] = file[task[u].id]
  <2> SUFFICES ASSUME NEW u \in Tasks, u # t, task'[u].op = "create"
               PROVE  /\ task'[u] = task[u] /\ task[u].op = "create"
                      /\ task[u].id \in Ids /\ task[u].id # n
                      /\ kind'[task[u].id] = kind[task[u].id]
                      /\ file'[task[u].id] = file[task[u].id]
    OBVIOUS
  <2>1. /\ task'[u] = task[u] /\ task[u].op = "create"
        /\ task[u].id \in Ids /\ task[u].id # n
    BY <1>2, <1>5 DEF Known, Creates, Ids
  <2> QED
    BY <2>1, <1>1, <1>2 DEF PollsTypeOK
<1>7. /\ file' \in [Ids -> {"none", "kept", "gone"}]
      /\ key' \in [Ids -> Keys] /\ kind' \in [Ids -> Kinds]
      /\ kind'[n] = what
      /\ what = "install" => file'[n] = "kept" /\ ~InstallRequested
  BY <1>1, <1>2 DEF PollsTypeOK
<1>8. InstallOnce'
  <2> SUFFICES ASSUME NEW u \in Tasks, NEW v \in Tasks, task'[u].op = "create",
                      kind'[task'[u].id] = "install"
               PROVE  /\ file'[task'[u].id] = "kept"
                      /\ task'[v].op = "create" /\ kind'[task'[v].id] = "install" => u = v
    BY DEF InstallOnce
  <2>1. CASE u = t
    BY <2>1, <1>3, <1>5, <1>6, <1>7 DEF InstallRequested
  <2>2. CASE u # t
    <3>1. task[u].op = "create" /\ kind[task[u].id] = "install" /\ task'[u] = task[u]
          /\ file'[task[u].id] = "kept"
      BY <2>2, <1>6 DEF PollsTypeOK
    <3>2. CASE v = t
      BY <3>1, <3>2, <1>3, <1>5, <1>7 DEF InstallRequested
    <3>3. CASE v # t
      BY <3>1, <3>3, <1>6 DEF PollsTypeOK
    <3> QED
      BY <3>1, <3>2, <3>3
  <2> QED
    BY <2>1, <2>2
<1>9. nextId' \in 1 .. MaxPolls + 1
  BY <1>2, PollBoundAssumption DEF Ids
<1> QED
  BY <1>2, <1>5, <1>7, <1>8, <1>9 DEF PollsTypeOK, InstallOnce, TaskStates

\* What a task does to the config, and to what is told of it.
LEMMA TypeConfig ==
  ASSUME PollsInv, NEW t \in Tasks, TaskStep(t)
  PROVE  /\ tracked' \in [Keys -> Ids \union {0}] /\ saved' \in [Keys -> Ids \union {0}]
         /\ squeezed' \subseteq Keys /\ forgotten' \subseteq Ids /\ unwritten' \subseteq Ids
         /\ faults' \in 0 .. MaxFaults
<1> USE DEF PollsInv, Core
<1> DEFINE n == task[t].id
           k == key[n]
<1>1. /\ tracked \in [Keys -> Ids \union {0}] /\ saved \in [Keys -> Ids \union {0}]
      /\ squeezed \subseteq Keys /\ forgotten \subseteq Ids /\ unwritten \subseteq Ids
      /\ faults \in 0 .. MaxFaults /\ MaxFaults \in Nat
  BY PollBoundAssumption DEF PollsTypeOK
<1>2. ASSUME NEW changed \in SUBSET (Ids \union {0}), Flush(changed),
             tracked' \in [Keys -> Ids \union {0}]
      PROVE  /\ saved' \in [Keys -> Ids \union {0}] /\ unwritten' \subseteq Ids
             /\ faults' \in 0 .. MaxFaults
  BY <1>1, <1>2, FlushFacts
<1>3. Creates(t) \/ Handles(t) => n \in Ids /\ k \in Keys
  BY TaskFacts
<1>4. CASE CreateLook(t) \/ CreateAsk(t) \/ CreateSend(t)
  <2>1. UNCHANGED <<tracked, saved, squeezed, forgotten, unwritten>>
    BY <1>4 DEF CreateLook, CreateAsk, CreateSend, NotStored, CreateKept, config
  <2>2. faults' \in 0 .. MaxFaults
    BY <1>1, <1>4 DEF CreateLook, CreateAsk, CreateSend, Fault, Sound
  <2> QED
    BY <1>1, <2>1, <2>2
<1>5. CASE CreateStore(t)
  <2>1. n \in Ids /\ k \in Keys /\ forgotten' = forgotten
    BY <1>3, <1>5 DEF CreateStore, StoreIf, Is, Creates, CreateKept
  <2>2. /\ tracked' = tracked \/ tracked' = [tracked EXCEPT ![k] = n]
        /\ squeezed' \in {squeezed, squeezed \union {k}}
        /\ Flush({n}) \/ Flush({})
    BY <1>5 DEF CreateStore, StoreIf
  <2>3. tracked' \in [Keys -> Ids \union {0}]
    BY <1>1, <2>1, <2>2
  <2>4. {n} \in SUBSET (Ids \union {0}) /\ {} \in SUBSET (Ids \union {0})
    BY <2>1
  <2>5. /\ saved' \in [Keys -> Ids \union {0}] /\ unwritten' \subseteq Ids
        /\ faults' \in 0 .. MaxFaults
    BY <1>2, <2>2, <2>3, <2>4
  <2> QED
    BY <1>1, <2>1, <2>2, <2>3, <2>5
<1>6. CASE CheckFetch(t) \/ CheckEnd(t) \/ CheckDecide(t) \/ DeletedLook(t)
  <2>1. UNCHANGED <<tracked, saved, squeezed, forgotten, unwritten>>
    BY <1>6 DEF CheckFetch, CheckEnd, CheckDecide, Decide, DeletedLook, NotRemoved,
         HandleKept,
         config
  <2>2. faults' \in 0 .. MaxFaults
    <3>1. Sound \/ Fault
      BY <1>6 DEF CheckFetch, CheckEnd, CheckDecide, Decide, DeletedLook
    <3> QED
      BY <1>1, <3>1 DEF Sound, Fault
  <2> QED
    BY <1>1, <2>1, <2>2
<1>7. CASE CheckForget(t) \/ CheckAgain(t) \/ DeletedForget(t)
  <2>1. n \in Ids /\ k \in Keys
    BY <1>3, <1>7 DEF CheckForget, CheckAgain, DeletedForget, Forget, ForgetKeeping, Is,
         Handles
  <2>2. /\ tracked' = [tracked EXCEPT ![k] = 0]
        /\ Flush({tracked[k]})
        /\ forgotten' = IF tracked[k] \in {0, n} THEN forgotten
                        ELSE forgotten \union {tracked[k]}
        /\ squeezed' = squeezed
    BY <1>7 DEF CheckForget, CheckAgain, DeletedForget, Forget, ForgetKeeping,
         CheckGoesOn, HandleKept
  <2>3. tracked' \in [Keys -> Ids \union {0}] /\ tracked[k] \in Ids \union {0}
    BY <1>1, <2>1, <2>2
  <2>4. forgotten' \subseteq Ids /\ {tracked[k]} \in SUBSET (Ids \union {0})
    BY <1>1, <2>2, <2>3
  <2>5. /\ saved' \in [Keys -> Ids \union {0}] /\ unwritten' \subseteq Ids
        /\ faults' \in 0 .. MaxFaults
    BY <1>2, <2>2, <2>3, <2>4
  <2> QED
    BY <1>1, <2>2, <2>3, <2>4, <2>5
<1> QED
  BY <1>4, <1>5, <1>6, <1>7 DEF TaskStep

\* A step of a task, which asks for nothing new.
LEMMA TypeTask ==
  ASSUME PollsInv, NEW t \in Tasks, TaskStep(t)
  PROVE  PollsTypeOK'
<1> USE DEF PollsInv, Core
<1> DEFINE n == task[t].id
<1>1. /\ n \in Ids /\ n # 0 /\ key[n] \in Keys /\ kind[n] \in Kinds
      /\ task[t] \in TaskStates
  BY TaskFacts DEF TaskStep, CreateLook, CreateAsk, CreateSend, CreateStore, StoreIf,
       CheckFetch,
       CheckEnd, CheckForget, CheckAgain, CheckDecide, Decide, DeletedLook,
            DeletedForget, Forget, ForgetKeeping,
       Is, Creates, Handles
<1>2. /\ UNCHANGED <<key, kind, nextId, yes, no, unvotes, restarts>>
      /\ overlapped' = overlapped
  <2>1. CASE CreateLook(t) \/ CreateAsk(t) \/ CreateSend(t) \/ CreateStore(t)
    BY <2>1 DEF CreateLook, CreateAsk, CreateSend, CreateStore, StoreIf, CreateKept,
         requests
  <2>2. CASE CheckFetch(t) \/ CheckEnd(t) \/ CheckDecide(t) \/ DeletedLook(t)
    BY <2>2 DEF CheckFetch, CheckEnd, CheckDecide, Decide, DeletedLook, HandleKept, requests
  <2>3. CASE CheckForget(t) \/ CheckAgain(t) \/ DeletedForget(t)
    BY <2>3 DEF CheckForget, CheckAgain, DeletedForget, Forget, ForgetKeeping,
         CheckGoesOn, HandleKept,
         requests
  <2> QED
    BY <2>1, <2>2, <2>3 DEF TaskStep
<1>4. \E w \in TaskStates : /\ Become(t, w)
                            /\ w.op = "create" => task[t].op = "create" /\ w.id = n
  <2>1. \A at \in {"none", "look", "ask", "send", "store", "fetch", "end", "forget",
       "again",
                 "decide"} :
          [task[t] EXCEPT !.at = at] \in TaskStates
    BY <1>1 DEF TaskStates
  <2>2. NewTask("check", "fetch", n) \in TaskStates
    BY <1>1, PollBoundAssumption DEF NewTask, TaskStates
  <2>3. \A at \in {"end", "forget"}, count \in 0 .. Members :
          [task[t] EXCEPT !.at = at, !.won = Won(yes[n], no[n],
               Quorum(count))] \in TaskStates
    BY <1>1 DEF TaskStates, Won
  <2>4. \A at : task[t].op = "create" =>
          [task[t] EXCEPT !.at = at].op = "create" /\ [task[t] EXCEPT !.at = at].id = n
    BY <1>1 DEF TaskStates
  <2>5. Free \in TaskStates /\ Free.op # "create"
    BY FreeIsState DEF Free, NewTask
  <2>6. CASE CreateLook(t) \/ CreateAsk(t) \/ CreateSend(t) \/ CreateStore(t)
    <3>1. \/ Become(t, Free)
          \/ \E at \in {"ask", "send", "store"} : Proceed(t, at)
      BY <2>6 DEF CreateLook, CreateAsk, CreateSend, CreateStore, StoreIf
    <3>2. task[t].op = "create"
      BY <2>6 DEF CreateLook, CreateAsk, CreateSend, CreateStore, StoreIf, Is
    <3> QED
      BY <3>1, <3>2, <2>1, <2>4, <2>5 DEF Proceed
  <2>7. CASE CheckFetch(t)
    <3>1. task[t].op = "check"
      BY <2>7 DEF CheckFetch, Is
    <3>2. \A at, won : [task[t] EXCEPT !.at = at, !.won = won].op = "check"
      BY <3>1, <1>1 DEF TaskStates
    <3>3. \/ Become(t, Free)
          \/ \E at \in {"end", "forget"}, count \in 0 .. Members :
               Become(t, [task[t] EXCEPT !.at = at,
                                         !.won = Won(yes[n], no[n], Quorum(count))])
      BY <2>7 DEF CheckFetch
    <3> QED
      BY <3>2, <3>3, <2>3, <2>5
  <2>8. CASE CheckEnd(t) \/ CheckForget(t) \/ CheckAgain(t) \/ CheckDecide(t)
    <3>1. task[t].op = "check" /\ \A at : [task[t] EXCEPT !.at = at].op = "check"
      BY <2>8, <1>1 DEF CheckEnd, CheckForget, CheckAgain, Forget, ForgetKeeping,
           CheckDecide, Decide, Is,
           TaskStates
    <3>2. \/ Become(t, Free)
          \/ \E at \in {"forget", "again", "decide"} : Proceed(t, at)
      BY <2>8 DEF CheckEnd, CheckForget, CheckAgain, Forget, ForgetKeeping, CheckGoesOn,
           CheckDecide, Decide
    <3> QED
      BY <3>1, <3>2, <2>1, <2>5 DEF Proceed
  <2>9. CASE DeletedLook(t) \/ DeletedForget(t)
    <3>1. task[t].op # "create" /\ \A at : [task[t] EXCEPT !.at = at].op # "create"
      BY <2>9, <1>1 DEF DeletedLook, DeletedForget, Forget, ForgetKeeping, Is, TaskStates
    <3>2. \/ Become(t, Free)
          \/ Become(t, NewTask("check", "fetch", n))
          \/ Proceed(t, "forget")
      BY <2>9 DEF DeletedLook, DeletedForget, Forget, ForgetKeeping
    <3>3. NewTask("check", "fetch", n).op = "check"
      BY DEF NewTask
    <3> QED
      BY <3>1, <3>2, <3>3, <2>1, <2>2, <2>5 DEF Proceed
  <2> QED
    BY <2>6, <2>7, <2>8, <2>9 DEF TaskStep
<1>5. /\ task' \in [Tasks -> TaskStates]
      /\ \A u \in Tasks : Creates(u)' => Creates(u) /\ task'[u].id = task[u].id
  BY <1>4, NextTask DEF Creates
<1>7. /\ UNCHANGED file \/ DropFile(n)
      /\ DropFile(n) /\ file' # file => Become(t, Free) /\ ~Creates(t)'
  <2>1. Become(t, Free) => ~Creates(t)'
    BY DEF Become, Free, NewTask, Creates, PollsTypeOK
  <2>2. UNCHANGED file \/ (DropFile(n) /\ Become(t, Free))
    <3>1. CASE CreateLook(t) \/ CreateAsk(t) \/ CreateSend(t) \/ CreateStore(t)
      BY <3>1 DEF CreateLook, CreateAsk, CreateSend, CreateStore, StoreIf
    <3>2. CASE CheckFetch(t) \/ CheckEnd(t) \/ CheckDecide(t) \/ DeletedLook(t)
      BY <3>2 DEF CheckFetch, CheckEnd, CheckDecide, Decide, DeletedLook
    <3>3. CASE CheckForget(t) \/ CheckAgain(t) \/ DeletedForget(t)
      BY <3>3 DEF CheckForget, CheckAgain, DeletedForget, Forget, ForgetKeeping, CheckGoesOn
    <3> QED
      BY <3>1, <3>2, <3>3 DEF TaskStep
  <2> QED
    BY <2>1, <2>2
<1>8. file' \in [Ids -> {"none", "kept", "gone"}]
  BY <1>1, <1>7 DEF DropFile, PollsTypeOK
<1>9. InstallOnce'
  <2>1. CASE file' = file
    BY <2>1, <1>2, <1>5, InstallKept
  <2>2. CASE file' # file
    <3>1. DropFile(n) /\ ~Creates(t)'
      BY <2>2, <1>7
    <3>2. \A u \in Tasks : Creates(u)' => task[u].id # n
      <4> SUFFICES ASSUME NEW u \in Tasks, Creates(u)'
                   PROVE  task[u].id # n
        OBVIOUS
      <4>1. u # t /\ Creates(u)
        BY <3>1, <1>5
      <4>2. Creates(t) \/ Handles(t)
        BY DEF TaskStep, CreateLook, CreateAsk, CreateSend, CreateStore, StoreIf,
             CheckFetch,
             CheckEnd, CheckForget, CheckAgain, CheckDecide, Decide, DeletedLook,
                  DeletedForget,
             Forget, ForgetKeeping, Is, Creates, Handles
      <4> QED
        BY <4>1, <4>2 DEF Creators
    <3> QED
      BY <3>1, <3>2, <1>1, <1>2, <1>5, InstallKept
  <2> QED
    BY <2>1, <2>2
<1>10. /\ message' \in [Ids -> {"unsent", "open", "ended", "deleted"}]
       /\ events' \subseteq ({"vote", "result", "deleted", "start"} \X Ids)
  <2>1. CASE CreateLook(t) \/ CreateAsk(t) \/ CreateSend(t) \/ CreateStore(t)
    BY <2>1, <1>1 DEF CreateLook, CreateAsk, CreateSend, CreateStore, StoreIf, PollsTypeOK
  <2>2. CASE CheckFetch(t) \/ CheckEnd(t)
    <3>1. message \in [Ids -> {"unsent", "open", "ended", "deleted"}]
          /\ events \subseteq ({"vote", "result", "deleted", "start"} \X Ids)
      BY DEF PollsTypeOK
    <3>2. /\ message' = message \/ message' = [message EXCEPT ![n] = "ended"]
          /\ events' = events \/ events' = events \union {<<"result", n>>}
      BY <2>2 DEF CheckFetch, CheckEnd
    <3> QED
      BY <3>1, <3>2, <1>1
  <2>3. CASE CheckForget(t) \/ CheckAgain(t) \/ CheckDecide(t)
    BY <2>3, <1>1 DEF CheckForget, CheckAgain, CheckDecide, Decide, Forget,
         ForgetKeeping, CheckGoesOn,
         CreateKept, PollsTypeOK
  <2>4. CASE DeletedLook(t) \/ DeletedForget(t)
    BY <2>4, <1>1 DEF DeletedLook, DeletedForget, Decide, Forget, ForgetKeeping,
         CheckGoesOn,
         CreateKept, PollsTypeOK
  <2> QED
    BY <2>1, <2>2, <2>3, <2>4 DEF TaskStep
<1>11. installed' \subseteq Keys /\ applied' \in [Ids -> Nat]
  <2>1. CASE CreateLook(t) \/ CreateAsk(t) \/ CreateSend(t) \/ CreateStore(t)
    <3>1. applied' = applied /\ installed' = installed
      BY <2>1 DEF CreateLook, CreateAsk, CreateSend, CreateStore, StoreIf, CreateKept
    <3> QED
      BY <3>1 DEF PollsTypeOK
  <2>2. CASE CheckFetch(t) \/ CheckEnd(t)
    BY <2>2, <1>1 DEF CheckFetch, CheckEnd, NoEffect, PollsTypeOK
  <2>3. CASE CheckForget(t) \/ CheckAgain(t) \/ CheckDecide(t)
    BY <2>3, <1>1 DEF CheckForget, CheckAgain, CheckDecide, Decide, Forget,
         ForgetKeeping, CheckGoesOn,
         CreateKept, NoEffect, PollsTypeOK
  <2>4. CASE DeletedLook(t) \/ DeletedForget(t)
    BY <2>4, <1>1 DEF DeletedLook, DeletedForget, Decide, Forget, ForgetKeeping,
         CheckGoesOn,
         CreateKept, NoEffect, PollsTypeOK
  <2> QED
    BY <2>1, <2>2, <2>3, <2>4 DEF TaskStep
<1> QED
  BY <1>2, <1>5, <1>8, <1>9, <1>10, <1>11, TypeConfig DEF PollsTypeOK, InstallOnce,
       TaskStates

LEMMA TypeHandle ==
  ASSUME PollsInv, NEW t \in Tasks, NEW e \in events, Handle(t, e)
  PROVE  PollsTypeOK'
<1> USE DEF PollsInv, Core
<1>1. UNCHANGED <<tracked, saved, key, kind, nextId, message, yes, no, unvotes, file,
                  installed, applied, squeezed, forgotten, unwritten, faults, restarts>>
  BY DEF Handle, config, requests, discord
<1>2. e[2] \in Ids /\ key[e[2]] \in Keys
  BY DEF PollsTypeOK
<1>3. \/ UNCHANGED task
      \/ \E w \in TaskStates : Become(t, w) /\ w.op # "create"
  <2>1. \A op \in {"check", "delete", "start"}, at \in {"look", "fetch"} :
          NewTask(op, at, e[2]) \in TaskStates /\ NewTask(op, at, e[2]).op # "create"
    BY <1>2, PollBoundAssumption DEF NewTask, TaskStates
  <2> QED
    BY <2>1 DEF Handle
<1>4. /\ task' \in [Tasks -> TaskStates]
      /\ \A u \in Tasks : Creates(u)' => Creates(u) /\ task'[u].id = task[u].id
  <2>1. CASE UNCHANGED task
    BY <2>1 DEF Creates, PollsTypeOK, TaskStates
  <2>2. CASE \E w \in TaskStates : Become(t, w) /\ w.op # "create"
    BY <2>2, NextTask DEF Creates
  <2> QED
    BY <1>3, <2>1, <2>2
<1>5. InstallOnce'
  BY <1>1, <1>4, InstallKept
<1>6. events' \subseteq events /\ overlapped' \subseteq Keys
  BY <1>2 DEF Handle, PollsTypeOK
<1> QED
  BY <1>1, <1>4, <1>5, <1>6 DEF PollsTypeOK, InstallOnce, TaskStates

LEMMA TypeRestart ==
  ASSUME PollsInv, Restart
  PROVE  PollsTypeOK'
<1> USE DEF PollsInv, Core
<1>1. /\ UNCHANGED <<key, kind, nextId, message, yes, no, unvotes, file, installed, applied,
                     overlapped, squeezed, forgotten, unwritten, saved, faults>>
      /\ tracked' = saved
      /\ restarts' \in 0 .. MaxRestarts
  BY PollBoundAssumption DEF Restart, requests, discord, history, PollsTypeOK
<1>2. /\ task' \in [Tasks -> TaskStates]
      /\ \A u \in Tasks : ~Creates(u)'
  BY FreeIsState DEF Restart, Creates, Free, NewTask
<1>3. InstallOnce'
  BY <1>1, <1>2, InstallKept
<1>4. events' \subseteq ({"vote", "result", "deleted", "start"} \X Ids)
  BY DEF Restart, PollsTypeOK
<1> QED
  BY <1>1, <1>2, <1>3, <1>4 DEF PollsTypeOK, InstallOnce, TaskStates

-----------------------------------------------------------------------------
(***************************************************************************)
(* The invariant holds, and with it the properties                         *)
(***************************************************************************)
LEMMA InvInit == Init => PollsInv
<1> SUFFICES ASSUME Init PROVE PollsInv
  OBVIOUS
<1>1. PollsTypeOK
  BY TypeInit
<1>2. /\ \A t \in Tasks : ~Creates(t) /\ ~Handles(t) /\ ~Early(t)
      /\ \A k \in Keys : tracked[k] = 0
      /\ \A n \in Ids : applied[n] = 0
      /\ forgotten = {} /\ saved = tracked
  BY DEF Init, Free, NewTask, Creates, Handles, Early
<1>3. Known /\ Creators /\ Decided /\ Between /\ Holds /\ Written /\ Apart /\ Spent
  BY <1>2 DEF Known, Creators, Decided, Between, Holds, Written, Apart, Spent, Late
<1>4. TrackedHasFile /\ ForgottenOnlyByOverlap
  BY <1>2 DEF TrackedHasFile, ForgottenOnlyByOverlap
<1> QED
  BY <1>1, <1>3, <1>4 DEF PollsInv, Core

\* Every step of a task is one of those above.
LEMMA CoreTask ==
  ASSUME PollsInv, NEW t \in Tasks, TaskStep(t)
  PROVE  Core'
<1> USE DEF PollsInv, Core
<1> DEFINE n == task[t].id
<1>1. task[t] \in TaskStates
  BY TaskFacts
<1>2. \A w : Become(t, w) => task'[t] = w /\ \A u \in Tasks : u # t => task'[u] = task[u]
  BY DEF Become, PollsTypeOK
<1>3. Become(t, Free) => task'[t].op = "free"
  BY <1>2 DEF Free, NewTask
<1>4. \A at : Proceed(t, at) => /\ task'[t].op = task[t].op /\ task'[t].id = n
                                /\ task'[t].at = at
  BY <1>1, <1>2 DEF Proceed, TaskStates
<1>5. CASE CreateLook(t) \/ CreateAsk(t) \/ CreateSend(t)
  <2>1. /\ Creates(t) /\ n \in Ids /\ tracked[key[n]] # n
        /\ UNCHANGED <<tracked, saved, requests, history>>
    BY <1>5, TaskFacts DEF CreateLook, CreateAsk, CreateSend, CreateKept, NotStored, Is,
         Creates,
       Creators, config, history
  <2>2. /\ UNCHANGED file \/ DropFile(n)
        /\ Become(t, Free) \/ \E at : Proceed(t, at)
    BY <1>5 DEF CreateLook, CreateAsk, CreateSend
  <2>3. \A u \in Tasks : \/ task'[u] = task[u]
                         \/ task'[u].op = "free"
                         \/ Creates(u) /\ task'[u].op = "create" /\ task'[u].id = task[u].id
    BY <2>1, <2>2, <1>2, <1>3, <1>4 DEF Creates, Proceed
  <2> QED
    BY <2>1, <2>2, <2>3, WorkGoesOn
<1>6. CASE CreateStore(t)
  <2>1. CASE Vacant(t)
    BY <1>6, <2>1, StoreStep
  <2>2. CASE ~Vacant(t)
    <3>1. /\ Creates(t) /\ n \in Ids /\ tracked[key[n]] # n
          /\ tracked' = tracked /\ Flush({}) /\ DropFile(n) /\ Become(t, Free)
          /\ UNCHANGED <<requests, applied, overlapped, squeezed, forgotten>>
      BY <1>6, <2>2, TaskFacts DEF CreateStore, StoreIf, CreateKept, Is, Creates, Creators
    <3>2. (saved' = saved \/ saved' = tracked) /\ unwritten' = unwritten
      BY <3>1 DEF Flush
    <3>3. UNCHANGED history
      BY <3>1, <3>2 DEF history
    <3> QED
      BY <3>1, <3>2, <3>3, <1>2, <1>3, WorkGoesOn
  <2> QED
    BY <2>1, <2>2
<1>7. CASE CheckFetch(t) \/ CheckEnd(t) \/ DeletedLook(t)
  <2>1. /\ Early(t)
        /\ UNCHANGED <<tracked, saved, file, requests, history>>
    BY <1>7 DEF CheckFetch, CheckEnd, DeletedLook, HandleKept, NoEffect, NotRemoved, Is,
         Early,
       Late, Handles, config, history
  <2>2. \/ Become(t, Free)
        \/ Become(t, NewTask("check", "fetch", n))
        \/ \E at \in {"forget", "end"} :
             \/ Proceed(t, at)
             \/ \E won : Become(t, [task[t] EXCEPT !.at = at, !.won = won])
    BY <1>7 DEF CheckFetch, CheckEnd, DeletedLook
  <2>3. \/ task'[t].op = "free"
        \/ Early(t)' /\ task'[t].id = n
    <3>1. Handles(t)
      BY <2>1 DEF Early
    <3>2. CASE Become(t, NewTask("check", "fetch", n))
      BY <3>2, <1>2 DEF NewTask, Early, Late, Handles
    <3>3. ASSUME NEW at \in {"forget", "end"}, Proceed(t, at)
          PROVE  Early(t)' /\ task'[t].id = n
      BY <3>1, <3>3, <1>4 DEF Early, Late, Handles
    <3>4. ASSUME NEW at \in {"forget", "end"}, NEW won,
                 Become(t, [task[t] EXCEPT !.at = at, !.won = won])
          PROVE  Early(t)' /\ task'[t].id = n
      <4> DEFINE w == [task[t] EXCEPT !.at = at, !.won = won]
      <4>1. w.op = task[t].op /\ w.id = n /\ w.at = at
        BY <1>1 DEF TaskStates
      <4>2. task'[t] = w
        BY <3>4, <1>2
      <4> QED
        BY <4>1, <4>2, <3>1 DEF Early, Late, Handles
    <3> QED
      BY <2>2, <1>3, <3>2, <3>3, <3>4
  <2>4. \A u \in Tasks : u # t => task'[u] = task[u]
    BY <2>2, <1>2 DEF Proceed
  <2> QED
    BY <2>1, <2>3, <2>4, WorkGoesOn
<1>8. CASE CheckForget(t) \/ CheckAgain(t) \/ DeletedForget(t)
  <2>1. /\ Early(t) \/ (Handles(t) /\ task[t].at = "again")
        /\ tracked' = [tracked EXCEPT ![key[n]] = 0]
        /\ Flush({tracked[key[n]]})
        /\ forgotten' = IF tracked[key[n]] \in {0, n} THEN forgotten
                        ELSE forgotten \union {tracked[key[n]]}
    BY <1>8 DEF CheckForget, CheckAgain, DeletedForget, Forget, ForgetKeeping, Is, Early,
         Late, Handles
  <2>2. UNCHANGED <<requests, applied, overlapped, squeezed>>
    BY <1>8 DEF CheckForget, CheckAgain, DeletedForget, Forget, ForgetKeeping,
         CheckGoesOn, HandleKept,
       NoEffect
  <2>3. /\ UNCHANGED file \/ DropFile(n)
        /\ \/ Become(t, Free)
           \/ \E at \in {"again", "decide"} : task[t].op = "check" /\ Proceed(t, at)
    BY <1>8 DEF CheckForget, CheckAgain, DeletedForget, Forget, ForgetKeeping,
         CheckGoesOn, Is
  <2> QED
    BY <2>1, <2>2, <2>3, ForgetStep
<1>9. CASE CheckDecide(t)
  BY <1>9, DecideStep
<1> QED
  BY <1>5, <1>6, <1>7, <1>8, <1>9 DEF TaskStep

\* The file of the config is read: where it is not what was in memory, the polls
\* are known not to have been written.
LEMMA RestartStep ==
  ASSUME PollsInv, Restart
  PROVE  Core'
<1> USE DEF PollsInv, Core
<1>1. /\ UNCHANGED <<key, kind, nextId, file, applied, overlapped, squeezed, forgotten,
                     unwritten, saved>>
      /\ tracked' = saved
  BY DEF Restart, requests, history
<1>2. \A t \in Tasks : ~Creates(t)' /\ ~Handles(t)' /\ ~Early(t)' /\ ~Late(t)'
  BY DEF Restart, Free, NewTask, Creates, Handles, Early, Late
<1>3. \A k \in Keys : /\ tracked[k] \in Ids \union {0} /\ saved[k] \in Ids \union {0}
                      /\ saved[k] # 0 /\ saved[k] # tracked[k] => saved[k] \in unwritten
  BY DEF Written, PollsTypeOK
<1>4. Known'
  BY <1>1, <1>2 DEF Known
<1>5. Creators' /\ Decided' /\ Between' /\ Holds' /\ Apart'
  BY <1>2 DEF Creators, Decided, Between, Holds, Apart
<1>6. Written'
  BY <1>1 DEF Written
<1>7. Spent'
  <2> SUFFICES ASSUME NEW n \in Ids, applied[n] > 0, kind[n] = "remove",
                      key[n] \notin overlapped, n \notin unwritten
               PROVE  saved[key[n]] # n
    BY <1>1, <1>2 DEF Spent
  <2>1. tracked[key[n]] # n
    BY DEF Spent
  <2>2. key[n] \in Keys
    BY DEF PollsTypeOK
  <2>3. n # 0
    BY DEF Ids
  <2> QED
    BY <2>1, <2>2, <2>3, <1>3
<1>8. TrackedHasFile'
  BY <1>1, <1>3 DEF TrackedHasFile
<1>9. ForgottenOnlyByOverlap'
  BY <1>1 DEF ForgottenOnlyByOverlap
<1> QED
  BY <1>4, <1>5, <1>6, <1>7, <1>8, <1>9, Zenon

LEMMA InvStep == PollsInv /\ [Next]_vars => PollsInv'
<1> SUFFICES ASSUME PollsInv, [Next]_vars PROVE PollsInv'
  OBVIOUS
<1>1. ASSUME NEW n \in Ids, Vote(n) \/ Unvote(n) \/ Expire(n) \/ Delete(n)
      PROVE  PollsInv'
  <2>1. UNCHANGED <<tracked, saved, requests, history, file, task>>
    BY <1>1 DEF Vote, Unvote, Expire, Delete, config
  <2> QED
    BY <1>1, <2>1, TypeDiscord, WorkGoesOn DEF PollsInv
<1>2. ASSUME NEW t \in Tasks, CreateBegin(t)
      PROVE  PollsInv'
  BY <1>2, TypeBegin, BeginStep DEF PollsInv
<1>3. ASSUME NEW t \in Tasks, TaskStep(t)
      PROVE  PollsInv'
  BY <1>3, TypeTask, CoreTask DEF PollsInv
<1>4. ASSUME NEW t \in Tasks, NEW e \in events, Handle(t, e)
      PROVE  PollsInv'
  BY <1>4, TypeHandle, HandleStep DEF PollsInv
<1>5. CASE Restart
  BY <1>5, TypeRestart, RestartStep DEF PollsInv
<1>6. CASE ConfigWritten
  <2>1. /\ saved' = tracked
        /\ UNCHANGED <<tracked, requests, discord, history, file, task, installed, events,
                       faults, restarts>>
    BY <1>6 DEF ConfigWritten
  <2>2. Core'
    BY <2>1, WorkGoesOn
  <2>3. PollsTypeOK'
    BY <2>1 DEF requests, discord, history, PollsInv, PollsTypeOK
  <2> QED
    BY <2>2, <2>3 DEF PollsInv
<1>7. CASE UNCHANGED vars
  <2>1. UNCHANGED <<tracked, saved, requests, discord, history, file, task, installed,
       events,
                    faults, restarts>>
    BY <1>7 DEF vars, config
  <2>2. Core'
    BY <2>1, WorkGoesOn
  <2>3. PollsTypeOK'
    BY <2>1 DEF requests, discord, history, PollsInv, PollsTypeOK
  <2> QED
    BY <2>2, <2>3 DEF PollsInv
<1> QED
  BY <1>1, <1>2, <1>3, <1>4, <1>5, <1>6, <1>7 DEF Next, HandleAny

\* Whatever tasks overlap, fail or are cut off, the parts above hold together.
THEOREM PollsInvariant == Spec => []PollsInv
<1> QED
  BY InvInit, InvStep, PTL DEF Spec

\* The state of the polls keeps its shape, whatever tasks, members and failures
\* do: Install polls are asked for one at a time, and the file of the one that
\* is asked for is there until the request has ended (bot.rs:1711-1850).
THEOREM PollsTypeCorrect == Spec => []PollsTypeOK
<1>1. PollsInv => PollsTypeOK
  BY DEF PollsInv
<1> QED
  BY <1>1, PollsInvariant, PTL

\* A poll changes the server once, however often its end is told and however
\* many tasks count its votes; only the mod of a Remove poll may be removed again,
\* if two tasks have handled it at once or its removal was not written to the
\* config (bot.rs:1896-2042).
THEOREM PollsApplyOnce == Spec => []AppliedOnce
<1>1. PollsInv => AppliedOnce
  <2> SUFFICES ASSUME PollsInv, NEW n \in Ids
               PROVE  \/ applied[n] <= 1
                      \/ kind[n] = "remove" /\ (key[n] \in overlapped \/ n \in unwritten)
    BY DEF AppliedOnce
  <2>1. applied[n] \in Nat /\ kind[n] \in {"install", "remove"}
    BY DEF PollsInv, PollsTypeOK, Kinds
  <2> QED
    BY <2>1 DEF PollsInv, Core, Spent
<1> QED
  BY <1>1, PollsInvariant, PTL

\* No race of two requests, restart or failed call loses the file of an Install poll
\* that the config still has, except a failed write of the config when that poll
\* was stored or removed (bot.rs:1753-1850).
THEOREM TrackedKeepFiles == Spec => []TrackedHasFile
<1>1. PollsInv => TrackedHasFile
  BY DEF PollsInv, Core
<1> QED
  BY <1>1, PollsInvariant, PTL

\* The config loses a poll to a task for an older poll of its key only if two
\* tasks have handled a poll of that key at once, or a poll of that key was stored
\* between the two removals of a task (bot.rs:1874, 1957-1962).
THEOREM ForgottenByOverlap == Spec => []ForgottenOnlyByOverlap
<1>1. PollsInv => ForgottenOnlyByOverlap
  BY DEF PollsInv, Core
<1> QED
  BY <1>1, PollsInvariant, PTL
=============================================================================
