-------------------------- MODULE ServerLoopProofs --------------------------
(***************************************************************************)
(* Proofs about ServerLoop for any clients, commands and bounds.           *)
(***************************************************************************)
EXTENDS ServerLoop, TLAPS

USE RequestAssumption, WishAssumption, NobodyAssumption, BoundAssumption
USE DEF RequestAssumption, WishAssumption, NobodyAssumption, BoundAssumption

\* The initial state has the declared types.
LEMMA TypeInit == Init => TypeOK
<1> SUFFICES ASSUME Init PROVE TypeOK
  OBVIOUS
<1>1. /\ running \in BOOLEAN /\ shouldRun \in BOOLEAN
      /\ intent \in BOOLEAN /\ saved \in BOOLEAN
  BY Zenon DEF Init
<1>2. client \in [Clients -> ClientStates]
  BY DEF Init, ClientStates
<1>3. cmds \in Seq(Command) /\ resps \in Seq(Ids) /\ abandoned \subseteq Ids
  BY DEF Init
<1>4. /\ status \in Status /\ pc \in IdlePcs /\ cur = NoCommand
      /\ pc \notin {"exec", "modding", "reply", "sending"}
      /\ deferred = "none" /\ site = "idle" /\ child = "none" /\ rcon = "off"
      /\ comm = Nobody /\ nextId \in 1 .. MaxSends + 1
      /\ faults \in 0 .. MaxFaults /\ crashes \in 0 .. MaxCrashes
  BY DEF Init, Status, IdlePcs
<1>5. /\ rebootQueued = FALSE /\ freshReboot = FALSE /\ modTouched = FALSE
      /\ startFailed = FALSE /\ raced = FALSE /\ unsaved = FALSE
  BY DEF Init
<1> QED
  BY <1>1, <1>2, <1>3, <1>4, <1>5 DEF TypeOK

\* What a client's place says about its record.
LEMMA ClientAt ==
  ASSUME TypeOK, NEW c \in Clients
  PROVE  /\ client[c].pc = "lock"  => client[c].op \in Requests
         /\ client[c].pc = "await" => client[c].op \in Requests /\ client[c].id \in Ids
<1>1. client[c] \in ClientStates
  BY DEF TypeOK
<1> QED
  BY <1>1 DEF ClientStates, FreeClient

\* A client keeps the types.
LEMMA TypeClient == ASSUME TypeOK, NEW c \in Clients, ClientStep(c) PROVE TypeOK'
<1> USE DEF TypeOK, FreeClient, flags, thread, touched, server, queues, callers,
            history, wishes, work, game, Wish
<1>1. ASSUME NEW op \in Wishes, Toggle(c, op) PROVE TypeOK'
  <2>1. client' \in [Clients -> ClientStates]
    BY <1>1 DEF Toggle, ClientStates
  <2>2. shouldRun' \in BOOLEAN /\ raced' \in BOOLEAN
    BY <1>1, Zenon DEF Toggle
  <2> QED
    BY <1>1, <2>1, <2>2 DEF Toggle
<1>2. CASE Persist(c)
  <2>1. client' \in [Clients -> ClientStates]
    BY <1>2 DEF Persist, PersistAs, ClientStates
  <2>2. running' \in BOOLEAN /\ intent' \in BOOLEAN
    BY <1>2, Zenon DEF Persist, PersistAs
  <2>3. saved' \in BOOLEAN /\ unsaved' \in BOOLEAN /\ faults' \in 0 .. MaxFaults
    <3>1. CASE saved' = Wish(client[c].op) /\ unsaved' = FALSE /\ UNCHANGED faults
      <4>1. saved' \in BOOLEAN
        BY <3>1, Zenon
      <4> QED
        BY <3>1, <4>1
    <3>2. CASE Fault("write") /\ unsaved' = TRUE /\ UNCHANGED saved
      BY <3>2 DEF Fault
    <3> QED
      BY <1>2, <3>1, <3>2 DEF Persist, PersistAs
  <2> QED
    BY <1>2, <2>1, <2>2, <2>3 DEF Persist, PersistAs
<1>3. CASE Mark(c)
  <2>1. client' \in [Clients -> ClientStates]
    BY <1>3 DEF Mark, ClientStates
  <2> QED
    BY <1>3, <2>1 DEF Mark
<1>4. ASSUME NEW op \in Requests, Admit(c, op) PROVE TypeOK'
  <2>1. client' \in [Clients -> ClientStates]
    BY <1>4 DEF Admit, ClientStates
  <2> QED
    BY <1>4, <2>1 DEF Admit
<1>5. CASE Send(c)
  <2>1. client[c].op \in Requests /\ nextId \in Ids
    BY <1>5, ClientAt DEF Send, Ids
  <2>2. client' \in [Clients -> ClientStates]
    BY <1>5, <2>1 DEF Send, ClientStates
  <2>3. cmds' \in Seq(Command)
    BY <1>5, <2>1 DEF Send, Command
  <2> QED
    BY <1>5, <2>1, <2>2, <2>3 DEF Send, Ids
<1>6. CASE Receive(c)
  <2>1. client' \in [Clients -> ClientStates]
    BY <1>6 DEF Receive, ReceiveLeaving, ClientStates
  <2> QED
    BY <1>6, <2>1 DEF Receive, ReceiveLeaving
<1>7. CASE Timeout(c)
  <2>1. client' \in [Clients -> ClientStates]
    BY <1>7 DEF Timeout, ClientStates
  <2>2. client[c].id \in Ids
    BY <1>7, ClientAt DEF Timeout
  <2> QED
    BY <1>7, <2>1, <2>2 DEF Timeout
<1> QED
  BY <1>1, <1>2, <1>3, <1>4, <1>5, <1>6, <1>7 DEF ClientStep
\* The steps that move the thread: its own, and the return of a call into the game.
ServerStep == ThreadStep \/ GameAnswers

\* Taking the oldest command, for either loop.
LEMMA TypeTake ==
  ASSUME TypeOK, NEW from, NEW s \in {"idle", "game"}, TakeFor(from, s)
  PROVE  TypeOK'
<1> USE DEF TypeOK, TakeFor, Goto, Keep, callers, history, touched, wishes, game
<1>1. Head(cmds) \in Command /\ Tail(cmds) \in Seq(Command)
  OBVIOUS
<1>2. \A x \in Command : x # NoCommand
  BY DEF Command, NoCommand, Ids
<1> QED
  BY <1>1, <1>2 DEF IdlePcs, GamePcs, Calls, BothPcs

\* The thread keeps the types.
LEMMA TypeThread == ASSUME TypeOK, ServerStep PROVE TypeOK'
<1> USE DEF TypeOK, Goto, Keep, callers, history, touched, wishes, work, game,
            queues, IdlePcs, GamePcs, Calls, BothPcs, Status, NoCommand
<1>1. CASE CheckRun
  BY <1>1 DEF CheckRun, JustMoves
<1>2. CASE Poll
  BY <1>2, TypeTake DEF Poll, JustMoves
<1>3. CASE Take
  BY <1>3, TypeTake DEF Take, JustMoves
<1>4. CASE Answer
  BY <1>4 DEF Answer, Done, Failed, KeepAnswering, InLoop
<1>5. CASE Defer
  BY <1>5 DEF Defer
<1>6. CASE ModEarly
  <2>1. /\ pc' \in {"reply", "stop"} /\ cur' \in {cur, NoCommand}
        /\ pc' = "reply" => cur' = cur
    BY <1>6 DEF ModEarly, Done, Failed, InLoop
  <2>2. status' \in Status /\ modTouched' \in BOOLEAN
    BY <1>6 DEF ModEarly
  <2>3. KeepAnswering /\ cur # NoCommand
    BY <1>6 DEF ModEarly
  <2> QED
    BY <2>1, <2>2, <2>3 DEF KeepAnswering
<1>7. CASE ModBegin
  BY <1>7 DEF ModBegin, KeepAnswering
<1>8. CASE ModEnd
  BY <1>8 DEF ModEnd, Done, Failed, KeepAnswering, InLoop
<1>9. CASE ModHang
  BY <1>9 DEF ModHang, JustMoves
<1>10. CASE Reply
  <2>1. cur.id \in Ids
    BY <1>10 DEF Reply, Respond, Command
  <2>2. resps' \in Seq(Ids)
    BY <1>10, <2>1 DEF Reply, Respond
  <2>3. pc' \in {"wait", "defer"}
    BY <1>10 DEF Reply, Respond
  <2> QED
    BY <1>10, <2>2, <2>3 DEF Reply, Respond
<1>11. CASE BeginWork
  BY <1>11 DEF BeginWork
<1>12. CASE EndWork
  BY <1>12 DEF EndWork, SetStatus
<1>13. CASE RestoreHang
  BY <1>13 DEF RestoreHang, JustMoves
<1>14. CASE Enter
  BY <1>14 DEF Enter, Fault, JustMoves
<1>15. CASE StartCheck
  BY <1>15 DEF StartCheck, JustMoves
<1>16. CASE Announce
  <2>1. startFailed' \in BOOLEAN /\ status' \in Status /\ pc' = "spawn"
    BY <1>16 DEF Announce
  <2> QED
    BY <1>16, <2>1 DEF Announce
<1>26. CASE ClearReboot
  <2>1. rebootQueued' \in BOOLEAN /\ freshReboot' \in BOOLEAN
    BY <1>26 DEF ClearReboot, ClearWith
  <2> QED
    BY <1>26, <2>1 DEF ClearReboot, ClearWith
<1>27. CASE GameHangs
  BY <1>27 DEF GameHangs, Calling, CallFrom, JustMoves
<1>28. CASE GameAnswers
  BY <1>28 DEF GameAnswers, CallFrom, JustMoves
<1>17. CASE Spawn
  <2>1. status' \in Status /\ rcon' \in {"off", "down"}
    BY <1>17 DEF Spawn
  <2>2. /\ pc' = "loop" /\ child' = "alive" /\ modTouched' \in BOOLEAN
        /\ Keep(<<rebootQueued, work, queues, freshReboot, startFailed, faults>>)
    BY <1>17 DEF Spawn
  <2> QED
    BY <2>1, <2>2
<1>18. CASE SpawnFails
  <2>0. startFailed' \in BOOLEAN
    BY <1>18, Zenon DEF SpawnFails
  <2>1. pc' \in {"start", "outer"} /\ faults' \in 0 .. MaxFaults
    BY <1>18 DEF SpawnFails, Fault
  <2>2. Keep(<<rebootQueued, status, work, game, queues, freshReboot, modTouched>>)
    BY <1>18 DEF SpawnFails
  <2> QED
    BY <2>0, <2>1, <2>2
<1>19. CASE LoopCheck
  BY <1>19 DEF LoopCheck, JustMoves
<1>20. CASE RconConnect
  BY <1>20 DEF RconConnect
<1>21. CASE RebootSwap
  <2>1. pc' \in {"stop", "take"}
    BY <1>21 DEF RebootSwap, SwapThenGo
  <2>2. rebootQueued' \in BOOLEAN
    BY <1>21 DEF RebootSwap, SwapThenGo
  <2> QED
    BY <1>21, <2>1, <2>2 DEF RebootSwap, SwapThenGo
<1>22. CASE TryWait
  BY <1>22 DEF TryWait, Fault, JustMoves
<1>23. CASE Stopping
  BY <1>23 DEF Stopping, SetStatus
<1>24. CASE Cleanup
  BY <1>24 DEF Cleanup
<1>25. CASE Leave
  BY <1>25 DEF Leave, SetStatus
<1> QED
  BY <1>1, <1>2, <1>3, <1>4, <1>5, <1>6, <1>7, <1>8, <1>9, <1>10, <1>11, <1>12, <1>13, <1>14, <1>15, <1>16, <1>17, <1>18, <1>19, <1>20, <1>21, <1>22, <1>23, <1>24, <1>25, <1>26, <1>27, <1>28 DEF ServerStep, ThreadStep

\* Every step keeps the types.
LEMMA TypeNext == TypeOK /\ [Next]_vars => TypeOK'
<1> SUFFICES ASSUME TypeOK, [Next]_vars PROVE TypeOK'
  OBVIOUS
<1>1. ASSUME NEW c \in Clients, ClientStep(c) PROVE TypeOK'
  BY <1>1, TypeClient
<1>2. CASE ServerStep
  BY <1>2, TypeThread
<1>3. CASE GameExits
  BY <1>3 DEF GameExits, TypeOK, flags, work, queues, callers, history, touched, wishes
<1>4. CASE CrashRestart
  <2>1. client' \in [Clients -> ClientStates]
    BY <1>4 DEF CrashRestart, ClientStates
  <2>2. shouldRun' \in BOOLEAN /\ running' \in BOOLEAN /\ intent' \in BOOLEAN
    BY <1>4, Zenon DEF CrashRestart, TypeOK
  <2>3. /\ rebootQueued' \in BOOLEAN /\ freshReboot' \in BOOLEAN
        /\ modTouched' \in BOOLEAN /\ startFailed' \in BOOLEAN
        /\ raced' \in BOOLEAN /\ unsaved' \in BOOLEAN
    BY <1>4 DEF CrashRestart
  <2>4. cmds' \in Seq(Command) /\ resps' \in Seq(Ids)
    BY <1>4 DEF CrashRestart
  <2>5. /\ status' \in Status /\ pc' = "outer" /\ cur' = NoCommand
        /\ deferred' = "none" /\ site' = "idle" /\ child' = "none" /\ rcon' = "off"
        /\ comm' = Nobody /\ crashes' \in 0 .. MaxCrashes
        /\ UNCHANGED <<saved, nextId, abandoned, faults>>
    BY <1>4 DEF CrashRestart, TypeOK, Status
  <2> QED
    BY <2>1, <2>2, <2>3, <2>4, <2>5 DEF TypeOK, IdlePcs
<1>5. CASE UNCHANGED vars
  BY <1>5 DEF vars, TypeOK, flags, work, game, queues, callers, history, touched, wishes
<1>6. CASE ConfigWritten
  <2>1. running \in BOOLEAN
    BY DEF TypeOK
  <2>2. saved' \in BOOLEAN /\ unsaved' \in BOOLEAN
    BY <1>6, <2>1, Zenon DEF ConfigWritten
  <2> QED
    BY <1>6, <2>2 DEF ConfigWritten, TypeOK, server, thread, touched, work, game, queues, callers
<1> QED
  BY <1>1, <1>2, <1>3, <1>4, <1>5, <1>6 DEF Next, ServerStep

\* Every variable keeps its type, whatever the clients send.
THEOREM TypeCorrect == Spec => []TypeOK
<1> QED
  BY TypeInit, TypeNext, PTL DEF Spec

-----------------------------------------------------------------------------
(***************************************************************************)
(* The world and its owner.  WorldExclusion is not inductive: it forgets   *)
(* which loop took the command that is being processed.                    *)
(***************************************************************************)
WorldInv ==
  /\ WorldExclusion
  /\ pc \in {"exec", "modding", "reply"} => (InLoop <=> child # "none")
  /\ pc = "sending" => InLoop
  /\ deferred # "none" => pc \in {"reply", "defer"} /\ ~InLoop

\* No step of a client thread touches what WorldInv is about.
LEMMA ClientKeepsServer ==
  ASSUME NEW c \in Clients, ClientStep(c)
  PROVE  UNCHANGED <<status, pc, work, game>>
BY DEF ClientStep, Toggle, Persist, PersistAs, Mark, Admit, Send, Receive,
       ReceiveLeaving, Timeout, server, thread, work, game

\* The thread knows, wherever it is, whether a game is up.
LEMMA WorldThread == ASSUME TypeOK, WorldInv, ServerStep PROVE WorldInv'
<1> USE DEF TypeOK, WorldInv, WorldExclusion, InLoop, Goto, Keep, callers, history,
            touched, wishes, work, game, queues, IdlePcs, GamePcs, Calls, BothPcs
<1>1. CASE CheckRun
  BY <1>1 DEF CheckRun, JustMoves
<1>2. CASE Poll
  BY <1>2 DEF Poll, TakeFor, JustMoves
<1>3. CASE Take
  BY <1>3 DEF Take, TakeFor, JustMoves
<1>4. CASE Answer
  BY <1>4 DEF Answer, Done, Failed, KeepAnswering, InLoop
<1>5. CASE Defer
  BY <1>5 DEF Defer, InLoop
<1>6. CASE ModEarly
  BY <1>6 DEF ModEarly, Done, Failed, KeepAnswering, InLoop
<1>7. CASE ModBegin
  BY <1>7 DEF ModBegin, KeepAnswering
<1>8. CASE ModEnd
  BY <1>8 DEF ModEnd, Done, Failed, KeepAnswering, InLoop
<1>9. CASE ModHang
  BY <1>9 DEF ModHang, JustMoves
<1>10. CASE Reply
  BY <1>10 DEF Reply, Respond, InLoop
<1>11. CASE BeginWork
  BY <1>11 DEF BeginWork
<1>12. CASE EndWork
  BY <1>12 DEF EndWork, SetStatus
<1>13. CASE RestoreHang
  BY <1>13 DEF RestoreHang, JustMoves
<1>14. CASE Enter
  BY <1>14 DEF Enter, Fault, JustMoves
<1>15. CASE StartCheck
  BY <1>15 DEF StartCheck, JustMoves
<1>16. CASE Announce
  BY <1>16 DEF Announce
<1>26. CASE ClearReboot
  BY <1>26 DEF ClearReboot, ClearWith
<1>27. CASE GameHangs
  BY <1>27 DEF GameHangs, Calling, CallFrom, JustMoves
<1>28. CASE GameAnswers
  BY <1>28 DEF GameAnswers, CallFrom, JustMoves
<1>17. CASE Spawn
  BY <1>17 DEF Spawn
<1>18. CASE SpawnFails
  BY <1>18 DEF SpawnFails, Fault
<1>19. CASE LoopCheck
  BY <1>19 DEF LoopCheck, JustMoves
<1>20. CASE RconConnect
  BY <1>20 DEF RconConnect
<1>21. CASE RebootSwap
  BY <1>21 DEF RebootSwap, SwapThenGo
<1>22. CASE TryWait
  BY <1>22 DEF TryWait, Fault, JustMoves
<1>23. CASE Stopping
  BY <1>23 DEF Stopping, SetStatus
<1>24. CASE Cleanup
  BY <1>24 DEF Cleanup
<1>25. CASE Leave
  BY <1>25 DEF Leave, SetStatus
<1> QED
  BY <1>1, <1>2, <1>3, <1>4, <1>5, <1>6, <1>7, <1>8, <1>9, <1>10, <1>11, <1>12, <1>13, <1>14, <1>15, <1>16, <1>17, <1>18, <1>19, <1>20, <1>21, <1>22, <1>23, <1>24, <1>25, <1>26, <1>27, <1>28 DEF ServerStep, ThreadStep

\* Every step keeps what the thread knows of the game.
LEMMA WorldNext == TypeOK /\ WorldInv /\ [Next]_vars => WorldInv'
<1> SUFFICES ASSUME TypeOK, WorldInv, [Next]_vars PROVE WorldInv'
  OBVIOUS
<1> USE DEF WorldInv, WorldExclusion, InLoop, work, game
<1>1. ASSUME NEW c \in Clients, ClientStep(c) PROVE WorldInv'
  BY <1>1, ClientKeepsServer
<1>2. CASE ServerStep
  BY <1>2, WorldThread
<1>3. CASE GameExits
  BY <1>3 DEF GameExits
<1>4. CASE CrashRestart
  BY <1>4 DEF CrashRestart, GamePcs, Calls
<1>5. CASE UNCHANGED vars
  BY <1>5 DEF vars
<1>6. CASE ConfigWritten
  BY <1>6 DEF ConfigWritten, server, thread
<1> QED
  BY <1>1, <1>2, <1>3, <1>4, <1>5, <1>6 DEF Next, ServerStep

\* No backup, restoration or zip is made beside a supervised game, and no game
\* is spawned beside another.
THEOREM WorldExclusive == Spec => []WorldExclusion
<1>1. Init => WorldInv
  BY DEF Init, WorldInv, WorldExclusion, InLoop, GamePcs, Calls
<1>2. WorldInv => WorldExclusion
  BY DEF WorldInv
<1> QED
  BY <1>1, <1>2, TypeCorrect, WorldNext, PTL DEF Spec

-----------------------------------------------------------------------------
(***************************************************************************)
(* The statuses, and the supervisor as an owner of the world.              *)
(***************************************************************************)
StatusInv ==
  /\ StatusHonest
  /\ pc = "restore" => status = "Restoring"
  /\ pc = "modding" => status = "Modding" /\ modTouched
  /\ pc = "spawn" => status = "Starting"
  /\ pc \in {"cleanup", "asking"} => status = "Stopping"

\* Each place of the thread finds the status that its predecessor left.
LEMMA StatusThread == ASSUME TypeOK, WorldInv, StatusInv, ServerStep PROVE StatusInv'
<1> USE DEF TypeOK, WorldInv, WorldExclusion, StatusInv, StatusHonest, InLoop, Goto,
            Keep, callers, history, touched, wishes, work, game, queues, IdlePcs, GamePcs, Calls,
            BothPcs
<1>1. CASE CheckRun
  BY <1>1 DEF CheckRun, JustMoves
<1>2. CASE Poll
  BY <1>2 DEF Poll, TakeFor, JustMoves
<1>3. CASE Take
  BY <1>3 DEF Take, TakeFor, JustMoves
<1>4. CASE Answer
  BY <1>4 DEF Answer, Done, Failed, KeepAnswering, InLoop
<1>5. CASE Defer
  BY <1>5 DEF Defer, InLoop
<1>6. CASE ModEarly
  BY <1>6 DEF ModEarly, Done, Failed, KeepAnswering, InLoop
<1>7. CASE ModBegin
  BY <1>7 DEF ModBegin, KeepAnswering
<1>8. CASE ModEnd
  BY <1>8 DEF ModEnd, Done, Failed, KeepAnswering, InLoop
<1>9. CASE ModHang
  BY <1>9 DEF ModHang, JustMoves
<1>10. CASE Reply
  BY <1>10 DEF Reply, Respond, InLoop
<1>11. CASE BeginWork
  BY <1>11 DEF BeginWork
<1>12. CASE EndWork
  BY <1>12 DEF EndWork, SetStatus
<1>13. CASE RestoreHang
  BY <1>13 DEF RestoreHang, JustMoves
<1>14. CASE Enter
  BY <1>14 DEF Enter, Fault, JustMoves
<1>15. CASE StartCheck
  BY <1>15 DEF StartCheck, JustMoves
<1>16. CASE Announce
  BY <1>16 DEF Announce
<1>26. CASE ClearReboot
  BY <1>26 DEF ClearReboot, ClearWith
<1>27. CASE GameHangs
  BY <1>27 DEF GameHangs, Calling, CallFrom, JustMoves
<1>28. CASE GameAnswers
  BY <1>28 DEF GameAnswers, CallFrom, JustMoves
<1>17. CASE Spawn
  BY <1>17 DEF Spawn
<1>18. CASE SpawnFails
  BY <1>18 DEF SpawnFails, Fault
<1>19. CASE LoopCheck
  BY <1>19 DEF LoopCheck, JustMoves
<1>20. CASE RconConnect
  BY <1>20 DEF RconConnect
<1>21. CASE RebootSwap
  BY <1>21 DEF RebootSwap, SwapThenGo
<1>22. CASE TryWait
  BY <1>22 DEF TryWait, Fault, JustMoves
<1>23. CASE Stopping
  BY <1>23 DEF Stopping, SetStatus
<1>24. CASE Cleanup
  BY <1>24 DEF Cleanup
<1>25. CASE Leave
  BY <1>25 DEF Leave, SetStatus
<1> QED
  BY <1>1, <1>2, <1>3, <1>4, <1>5, <1>6, <1>7, <1>8, <1>9, <1>10, <1>11, <1>12, <1>13, <1>14, <1>15, <1>16, <1>17, <1>18, <1>19, <1>20, <1>21, <1>22, <1>23, <1>24, <1>25, <1>26, <1>27, <1>28 DEF ServerStep, ThreadStep

\* Every step keeps the status in line with the place of the thread.
LEMMA StatusNext == TypeOK /\ WorldInv /\ StatusInv /\ [Next]_vars => StatusInv'
<1> SUFFICES ASSUME TypeOK, WorldInv, StatusInv, [Next]_vars PROVE StatusInv'
  OBVIOUS
<1> USE DEF StatusInv, StatusHonest
<1>1. ASSUME NEW c \in Clients, ClientStep(c) PROVE StatusInv'
  <2>1. UNCHANGED touched
    BY <1>1 DEF ClientStep, Toggle, Persist, PersistAs, Mark, Admit, Send, Receive,
                ReceiveLeaving, Timeout, server, thread
  <2> QED
    BY <1>1, <2>1, ClientKeepsServer DEF game, touched
<1>2. CASE ServerStep
  BY <1>2, StatusThread
<1>3. CASE GameExits
  BY <1>3 DEF GameExits, history, touched
<1>4. CASE CrashRestart
  BY <1>4 DEF CrashRestart
<1>5. CASE UNCHANGED vars
  BY <1>5 DEF vars, game, history, touched
<1>6. CASE ConfigWritten
  BY <1>6 DEF ConfigWritten, server, thread, touched, game
<1> QED
  BY <1>1, <1>2, <1>3, <1>4, <1>5, <1>6 DEF Next, ServerStep

\* The status seen by clients is true, but for Idle beside a game that a mod
\* command has touched and for Starting after a start that ended in an error.
THEOREM StatusIsHonest == Spec => []StatusHonest
<1>1. Init => WorldInv /\ StatusInv
  BY DEF Init, WorldInv, WorldExclusion, StatusInv, StatusHonest, InLoop, GamePcs, Calls
<1>2. StatusInv => StatusHonest
  BY DEF StatusInv
<1> QED
  BY <1>1, <1>2, TypeCorrect, WorldNext, StatusNext, PTL DEF Spec

\* What the owner of the world sees of a step of the thread.
LEMMA OwnerThread ==
  ASSUME TypeOK, WorldInv, StatusInv, ServerStep
  PROVE  WO!WONext \/ UNCHANGED <<child = "alive", Activity>>
<1> USE DEF TypeOK, WorldInv, WorldExclusion, StatusInv, InLoop, Goto, Keep, callers,
            history, touched, wishes, work, game, queues, IdlePcs, GamePcs, Calls, BothPcs
<1>1. CASE CheckRun
  BY <1>1 DEF CheckRun, JustMoves, Activity
<1>2. CASE Poll
  BY <1>2 DEF Poll, TakeFor, JustMoves, Activity
<1>3. CASE Take
  BY <1>3 DEF Take, TakeFor, JustMoves, Activity
<1>4. CASE Answer
  BY <1>4 DEF Answer, Done, Failed, KeepAnswering, InLoop, Activity
<1>5. CASE Defer
  BY <1>5 DEF Defer, InLoop, Activity
<1>6. CASE ModEarly
  BY <1>6 DEF ModEarly, Done, Failed, KeepAnswering, InLoop, Activity
<1>7. CASE ModBegin
  <2>1. Activity = "none" /\ Activity' = "mods" /\ UNCHANGED child
    BY <1>7 DEF ModBegin, KeepAnswering, Activity
  <2> QED
    BY <2>1 DEF WO!WONext, WO!Begin, WO!Activities, WO!Exclusive
<1>8. CASE ModEnd
  <2>1. Activity = "mods" /\ Activity' = "none" /\ UNCHANGED child
    BY <1>8 DEF ModEnd, Done, Failed, KeepAnswering, InLoop, Activity
  <2> QED
    BY <2>1 DEF WO!WONext, WO!End
<1>9. CASE ModHang
  BY <1>9 DEF ModHang, JustMoves, Activity
<1>10. CASE Reply
  BY <1>10 DEF Reply, Respond, InLoop, Activity
<1>11. CASE BeginWork
  <2>1. /\ Activity = "none" /\ child = "none" /\ UNCHANGED child
        /\ Activity' \in {"none", "backup", "restore", "zip"}
    BY <1>11 DEF BeginWork, Activity
  <2> QED
    BY <2>1 DEF WO!WONext, WO!Begin, WO!Activities, WO!Exclusive
<1>12. CASE EndWork
  <2>1. Activity # "none" /\ Activity' = "none" /\ UNCHANGED child
    BY <1>12 DEF EndWork, SetStatus, Activity
  <2> QED
    BY <2>1 DEF WO!WONext, WO!End
<1>13. CASE RestoreHang
  BY <1>13 DEF RestoreHang, JustMoves, Activity
<1>14. CASE Enter
  BY <1>14 DEF Enter, Fault, JustMoves, Activity
<1>15. CASE StartCheck
  BY <1>15 DEF StartCheck, JustMoves, Activity
<1>16. CASE Announce
  BY <1>16 DEF Announce, Activity
<1>26. CASE ClearReboot
  BY <1>26 DEF ClearReboot, ClearWith, Activity
<1>27. CASE GameHangs
  BY <1>27 DEF GameHangs, Calling, CallFrom, JustMoves, Activity
<1>28. CASE GameAnswers
  BY <1>28 DEF GameAnswers, CallFrom, JustMoves, Activity
<1>17. CASE Spawn
  <2>1. Activity = "none" /\ Activity' = "none" /\ child = "none" /\ child' = "alive"
    BY <1>17 DEF Spawn, Activity
  <2> QED
    BY <2>1 DEF WO!WONext, WO!StartGame
<1>18. CASE SpawnFails
  BY <1>18 DEF SpawnFails, Fault, Activity
<1>19. CASE LoopCheck
  BY <1>19 DEF LoopCheck, JustMoves, Activity
<1>20. CASE RconConnect
  BY <1>20 DEF RconConnect, Activity
<1>21. CASE RebootSwap
  BY <1>21 DEF RebootSwap, SwapThenGo, Activity
<1>22. CASE TryWait
  BY <1>22 DEF TryWait, Fault, JustMoves, Activity
<1>23. CASE Stopping
  BY <1>23 DEF Stopping, SetStatus, Activity
<1>24. CASE Cleanup
  <2>1. Activity = "none" /\ Activity' = "none" /\ child' = "none"
    BY <1>24 DEF Cleanup, Activity
  <2> QED
    BY <2>1 DEF WO!WONext, WO!EndGame
<1>25. CASE Leave
  BY <1>25 DEF Leave, SetStatus, Activity
<1> QED
  BY <1>1, <1>2, <1>3, <1>4, <1>5, <1>6, <1>7, <1>8, <1>9, <1>10, <1>11, <1>12, <1>13, <1>14, <1>15, <1>16, <1>17, <1>18, <1>19, <1>20, <1>21, <1>22, <1>23, <1>24, <1>25, <1>26, <1>27, <1>28 DEF ServerStep, ThreadStep

\* Every step is a step of the abstract owner, or leaves it alone.
LEMMA OwnerNext ==
  TypeOK /\ WorldInv /\ StatusInv /\ [Next]_vars
    => [WO!WONext]_<<child = "alive", Activity>>
<1> SUFFICES ASSUME TypeOK, WorldInv, StatusInv, [Next]_vars
             PROVE  WO!WONext \/ UNCHANGED <<child = "alive", Activity>>
  OBVIOUS
<1>1. ASSUME NEW c \in Clients, ClientStep(c)
      PROVE  UNCHANGED <<child = "alive", Activity>>
  BY <1>1, ClientKeepsServer DEF Activity, game
<1>2. CASE ServerStep
  BY <1>2, OwnerThread
<1>3. CASE GameExits
  <2>1. Activity' = Activity /\ child = "alive" /\ child' = "exited"
    BY <1>3 DEF GameExits, Activity
  <2> QED
    BY <2>1 DEF WO!WONext, WO!EndGame
<1>4. CASE CrashRestart
  <2>1. Activity' = "none" /\ child' = "none"
    BY <1>4 DEF CrashRestart, Activity
  <2> QED
    BY <2>1 DEF WO!WONext, WO!Forget
<1>5. CASE UNCHANGED vars
  BY <1>5 DEF vars, game, Activity
<1>6. CASE ConfigWritten
  BY <1>6 DEF ConfigWritten, server, thread, game, Activity
<1> QED
  BY <1>1, <1>2, <1>3, <1>4, <1>5, <1>6 DEF Next, ServerStep

\* Whatever the clients do, the supervisor owns the folder as WorldOwner allows
\* (the fairness half of WOSpec is left to TLC).
THEOREM SupervisorOwnsWorld == Spec => WO!WOSafety
<1>1. Init => WorldInv /\ StatusInv
  BY DEF Init, WorldInv, WorldExclusion, StatusInv, StatusHonest, InLoop, GamePcs, Calls
<1>2. Init => WO!WOInit
  BY DEF Init, WO!WOInit, Activity
<1> QED
  BY <1>1, <1>2, TypeCorrect, WorldNext, StatusNext, OwnerNext, PTL
     DEF Spec, WO!WOSafety

-----------------------------------------------------------------------------
(***************************************************************************)
(* Reboots and wishes.  The thread writes to rebootQueued only to clear it *)
(* and never to what a wish is made of.                                    *)
(***************************************************************************)
LEMMA ThreadKeepsWishes ==
  ASSUME ServerStep
  PROVE  UNCHANGED <<shouldRun, running, saved, client, wishes>>
<1> USE DEF Keep, JustMoves, SetStatus, callers, wishes
<1>1. CASE CheckRun \/ Poll \/ Take \/ Enter \/ StartCheck \/ LoopCheck \/ TryWait \/ ModHang
  BY <1>1 DEF CheckRun, Poll, Take, TakeFor, Enter, StartCheck, LoopCheck, TryWait, ModHang
<1>2. CASE Answer \/ Defer \/ ModEarly \/ ModBegin \/ ModEnd \/ Reply
  BY <1>2 DEF Answer, Defer, ModEarly, ModBegin, ModEnd, Reply, Respond, KeepAnswering
<1>3. CASE BeginWork \/ EndWork \/ RestoreHang \/ ClearReboot \/ Announce \/ Spawn \/ SpawnFails
  BY <1>3 DEF BeginWork, EndWork, RestoreHang, ClearReboot, ClearWith, Announce, Spawn, SpawnFails
<1>4. CASE RconConnect \/ RebootSwap \/ Stopping \/ Cleanup \/ Leave
  BY <1>4 DEF RconConnect, RebootSwap, SwapThenGo, Stopping, Cleanup, Leave
<1>5. CASE GameHangs \/ GameAnswers
  BY <1>5 DEF GameHangs, GameAnswers
<1> QED
  BY <1>1, <1>2, <1>3, <1>4, <1>5 DEF ServerStep, ThreadStep

\* The flag is set by requests alone, and is cleared whenever they become old.
RebootInv == rebootQueued => freshReboot

\* The thread takes a reboot from the queue and puts none there.
LEMMA RebootThread == ASSUME RebootInv, ServerStep PROVE RebootInv'
<1> USE DEF RebootInv, Keep, JustMoves, SetStatus, history
<1>1. CASE CheckRun \/ Poll \/ Take \/ Enter \/ StartCheck \/ LoopCheck \/ TryWait \/ ModHang
  BY <1>1 DEF CheckRun, Poll, Take, TakeFor, Enter, StartCheck, LoopCheck, TryWait, ModHang
<1>2. CASE Answer \/ Defer \/ ModEarly \/ ModBegin \/ ModEnd \/ Reply
  BY <1>2 DEF Answer, Defer, ModEarly, ModBegin, ModEnd, Reply, Respond, KeepAnswering
<1>3. CASE BeginWork \/ EndWork \/ RestoreHang \/ ClearReboot \/ Announce \/ Spawn \/ SpawnFails
  BY <1>3 DEF BeginWork, EndWork, RestoreHang, ClearReboot, ClearWith, Announce, Spawn, SpawnFails
<1>4. CASE RconConnect \/ RebootSwap \/ Stopping \/ Cleanup \/ Leave
  BY <1>4 DEF RconConnect, RebootSwap, SwapThenGo, Stopping, Cleanup, Leave
<1>5. CASE GameHangs \/ GameAnswers
  BY <1>5 DEF GameHangs, GameAnswers
<1> QED
  BY <1>1, <1>2, <1>3, <1>4, <1>5 DEF ServerStep, ThreadStep

\* A reboot in the queue is one that was asked for since a start was announced.
LEMMA RebootNext == RebootInv /\ [Next]_vars => RebootInv'
<1> SUFFICES ASSUME RebootInv, [Next]_vars PROVE RebootInv'
  OBVIOUS
<1>1. ASSUME NEW c \in Clients, ClientStep(c) PROVE RebootInv'
  BY <1>1 DEF ClientStep, Toggle, Persist, PersistAs, Mark, Admit, Send, Receive,
              ReceiveLeaving, Timeout, RebootInv, flags
<1>2. CASE ServerStep
  BY <1>2, RebootThread
<1>3. CASE GameExits
  BY <1>3 DEF GameExits, RebootInv, flags, history
<1>4. CASE CrashRestart
  BY <1>4 DEF CrashRestart, RebootInv
<1>5. CASE UNCHANGED vars
  BY <1>5 DEF vars, RebootInv, flags, history
<1>6. CASE ConfigWritten
  BY <1>6 DEF ConfigWritten, RebootInv
<1> QED
  BY <1>1, <1>2, <1>3, <1>4, <1>5, <1>6 DEF Next, ServerStep

\* A reboot that was asked for before a game was announced never hits that game.
THEOREM RebootsAreFresh == Spec => []NoStaleReboot
<1>1. Init => RebootInv
  BY DEF Init, RebootInv
<1>2. RebootInv => NoStaleReboot
  BY DEF RebootInv, NoStaleReboot
<1> QED
  BY <1>1, <1>2, RebootNext, PTL DEF Spec

\* What a wish that is half done has reached so far.
HalfDone(c) ==
  /\ shouldRun = Wish(client[c].op)
  /\ client[c].pc = "mark" => client[c].op = "Reboot" /\ running = TRUE

\* Unless two different wishes have overlapped, all that are under way are one, and the
\* flag and the config hold what it has written to them or the last wish before it.
IntentInv ==
  /\ saved = running \/ unsaved
  /\ ~raced =>
       /\ \A c \in Toggling : HalfDone(c)
       /\ Toggling = {} => shouldRun = intent /\ running = intent

\* A client step that leaves the wishing clients and what they write alone.
LEMMA IntentKept ==
  ASSUME IntentInv, UNCHANGED <<shouldRun, running, saved, intent, raced, unsaved>>,
         \A c \in Clients : \/ client'[c] = client[c]
                            \/ /\ client[c].pc \notin {"persist", "mark"}
                               /\ client'[c].pc \notin {"persist", "mark"}
  PROVE  IntentInv'
<1>1. Toggling' = Toggling
  BY DEF Toggling
<1>2. \A c \in Toggling : client'[c] = client[c]
  BY DEF Toggling
<1> QED
  BY <1>1, <1>2 DEF IntentInv, HalfDone

\* A client is recorded between two of its stores, or both are made.
LEMMA IntentClient ==
  ASSUME TypeOK, IntentInv, NEW c \in Clients, ClientStep(c)
  PROVE  IntentInv'
<1> USE DEF TypeOK
<1>0. \A d \in Clients : client[d] \in ClientStates
  OBVIOUS
<1>1. ASSUME NEW op \in Wishes, Toggle(c, op) PROVE IntentInv'
  <2>1. /\ client' = [client EXCEPT ![c] = [pc |-> "persist", op |-> op, id |-> 0]]
        /\ client[c].pc = "free"
        /\ shouldRun' = Wish(op)
        /\ UNCHANGED <<running, saved, unsaved>>
        /\ ~raced' => /\ ~raced \/ Toggling = {}
                      /\ \A d \in Toggling : Wish(client[d].op) = Wish(op)
    BY <1>1, Zenon DEF Toggle
  <2>2. Toggling' = Toggling \union {c} /\ c \notin Toggling
    BY <2>1 DEF Toggling
  <2>3. HalfDone(c)'
    BY <2>1 DEF HalfDone
  <2>4. ASSUME ~raced', NEW d \in Toggling PROVE HalfDone(d)'
    <3>1. HalfDone(d)
      BY <2>1, <2>4 DEF IntentInv
    <3>2. client'[d] = client[d] /\ Wish(client[d].op) = Wish(op)
      BY <2>1, <2>2, <2>4 DEF Toggling
    <3> QED
      BY <2>1, <3>1, <3>2, Zenon DEF HalfDone
  <2> QED
    BY <2>1, <2>2, <2>3, <2>4 DEF IntentInv
<1>2. CASE Persist(c)
  <2>1. /\ client[c].pc = "persist" /\ running' = Wish(client[c].op)
        /\ UNCHANGED <<shouldRun, raced>>
        /\ saved' = running' \/ unsaved'
    BY <1>2, Zenon DEF Persist, PersistAs
  <2>2. c \in Toggling
    BY <2>1 DEF Toggling
  <2>3. ~raced => shouldRun = Wish(client[c].op)
    BY <2>2 DEF IntentInv, HalfDone
  <2>4. ASSUME ~raced, NEW d \in Toggling, d # c, UNCHANGED client[d] PROVE HalfDone(d)'
    <3>1. HalfDone(d)
      BY <2>4 DEF IntentInv
    <3>2. client[d].pc = "mark" => running' = TRUE
      BY <2>1, <2>3, <2>4, <3>1 DEF HalfDone, Wish
    <3> QED
      BY <2>1, <2>4, <3>1, <3>2, Zenon DEF HalfDone
  <2>5. CASE client[c].op = "Reboot"
    <3>1. client' = [client EXCEPT ![c] = [pc |-> "mark", op |-> "Reboot", id |-> 0]]
      BY <1>2, <2>5 DEF Persist, PersistAs
    <3>2. Toggling' = Toggling
      BY <2>2, <3>1 DEF Toggling
    <3>3. ~raced => HalfDone(c)'
      BY <2>1, <2>3, <2>5, <3>1 DEF HalfDone, Wish
    <3>4. \A d \in Toggling : d # c => UNCHANGED client[d]
      BY <3>1 DEF Toggling
    <3> QED
      BY <2>1, <2>2, <2>4, <3>2, <3>3, <3>4 DEF IntentInv
  <2>6. CASE client[c].op # "Reboot"
    <3>1. client' = [client EXCEPT ![c] = FreeClient] /\ intent' = Wish(client[c].op)
      BY <1>2, <2>6, Zenon DEF Persist, PersistAs
    <3>2. Toggling' = Toggling \ {c}
      BY <3>1 DEF Toggling, FreeClient
    <3>3. \A d \in Toggling : d # c => UNCHANGED client[d]
      BY <3>1 DEF Toggling
    <3> QED
      BY <2>1, <2>3, <2>4, <3>1, <3>2, <3>3 DEF IntentInv
  <2> QED
    BY <2>5, <2>6
<1>3. CASE Mark(c)
  <2>1. /\ client[c].pc = "mark" /\ intent' = TRUE
        /\ client' = [client EXCEPT ![c] = FreeClient]
        /\ UNCHANGED <<shouldRun, running, saved, raced, unsaved>>
    BY <1>3 DEF Mark
  <2>2. c \in Toggling /\ Toggling' = Toggling \ {c}
    BY <2>1 DEF Toggling, FreeClient
  <2>3. ~raced => shouldRun = TRUE /\ running = TRUE
    BY <2>1, <2>2 DEF IntentInv, HalfDone, Wish
  <2>4. \A d \in Toggling' : client'[d] = client[d]
    BY <2>1, <2>2 DEF Toggling
  <2>5. ~raced => \A d \in Toggling' : HalfDone(d)'
    BY <2>1, <2>2, <2>4 DEF IntentInv, HalfDone
  <2> QED
    BY <2>1, <2>3, <2>5 DEF IntentInv
<1>4. ASSUME NEW op \in Requests, Admit(c, op) PROVE IntentInv'
  <2>1. /\ client[c].pc = "free"
        /\ client' = [client EXCEPT ![c] = [pc |-> "lock", op |-> op, id |-> 0]]
        /\ UNCHANGED <<shouldRun, running, saved, intent, raced, unsaved>>
    BY <1>4 DEF Admit, flags, wishes
  <2> QED
    BY <2>1, IntentKept
<1>5. CASE Send(c)
  <2>1. /\ client[c].pc = "lock"
        /\ client' = [client EXCEPT ![c] =
                          [pc |-> "await", op |-> client[c].op, id |-> nextId]]
        /\ UNCHANGED <<shouldRun, running, saved, intent, raced, unsaved>>
    BY <1>5 DEF Send, flags, wishes
  <2> QED
    BY <2>1, IntentKept
<1>6. CASE Receive(c) \/ Timeout(c)
  <2>1. /\ client[c].pc = "await"
        /\ client' = [client EXCEPT ![c] = FreeClient]
        /\ UNCHANGED <<shouldRun, running, saved, intent, raced, unsaved>>
    BY <1>6 DEF Receive, ReceiveLeaving, Timeout, flags, wishes
  <2> QED
    BY <2>1, IntentKept DEF FreeClient
<1> QED
  BY <1>1, <1>2, <1>3, <1>4, <1>5, <1>6 DEF ClientStep

\* Every step keeps the wish, the flags and the configuration in line.
LEMMA IntentNext == TypeOK /\ IntentInv /\ [Next]_vars => IntentInv'
<1> SUFFICES ASSUME TypeOK, IntentInv, [Next]_vars PROVE IntentInv'
  OBVIOUS
<1>1. ASSUME NEW c \in Clients, ClientStep(c) PROVE IntentInv'
  BY <1>1, IntentClient
<1>2. CASE ServerStep
  BY <1>2, ThreadKeepsWishes, IntentKept DEF wishes
<1>3. CASE GameExits
  BY <1>3, IntentKept DEF GameExits, flags, callers, wishes
<1>4. CASE CrashRestart
  <2>1. /\ shouldRun' = saved /\ running' = saved /\ saved' = saved
        /\ intent' = IF raced \/ unsaved \/ Toggling # {} THEN saved ELSE intent
        /\ client' = [c \in Clients |-> FreeClient]
    BY <1>4 DEF CrashRestart
  <2>2. Toggling' = {}
    BY <2>1 DEF Toggling, FreeClient
  <2>3. intent' = saved
    BY <2>1 DEF IntentInv
  <2> QED
    BY <2>1, <2>2, <2>3 DEF IntentInv
<1>5. CASE UNCHANGED vars
  BY <1>5, IntentKept DEF vars, flags, callers, wishes
<1>6. CASE ConfigWritten
  <2>1. UNCHANGED <<shouldRun, running, client, intent, raced>> /\ saved' = running'
    BY <1>6 DEF ConfigWritten, callers
  <2> QED
    BY <2>1 DEF IntentInv, HalfDone, Toggling
<1> QED
  BY <1>1, <1>2, <1>3, <1>4, <1>5, <1>6 DEF Next, ServerStep

\* When no wish is half done and no two different ones overlapped, the thread's flag
\* and the config hold the last one, and so does the file if it could be written,
\* across crashes too.
THEOREM WishesAreDurable == Spec => []IntentDurable
<1>1. Init => IntentInv
  BY DEF Init, IntentInv, Toggling, FreeClient
<1>2. IntentInv => IntentDurable
  BY DEF IntentInv, IntentDurable
<1> QED
  BY <1>1, <1>2, TypeCorrect, IntentNext, PTL DEF Spec

-----------------------------------------------------------------------------
(***************************************************************************)
(* Commands and answers.  What is in the channels and in the thread's hand *)
(* is in the order it was sent; the mutex is held by the client whose      *)
(* command was the last.                                                   *)
(***************************************************************************)
InHand == cur # NoCommand

ChannelInv ==
  /\ AnswersInOrder
  /\ \A i \in DOMAIN resps : resps[i] < nextId
  /\ InHand => cur.id < nextId
  /\ \A c \in Clients : client[c].pc = "await" => comm = c /\ client[c].id = nextId - 1
  /\ comm # Nobody => client[comm].pc = "await"

InFlight(id) ==
  \/ \E i \in DOMAIN resps : resps[i] = id
  \/ \E j \in DOMAIN cmds : cmds[j].id = id
  \/ InHand /\ cur.id = id

Awaited(id)  == comm # Nobody /\ id = client[comm].id
GaveUp(id)   == \E a \in abandoned : a <= id
StrayInv     == \A id \in Ids : InFlight(id) => Awaited(id) \/ GaveUp(id)

\* What the thread does to the channels: it takes a command, answers the one in
\* its hand, or leaves them alone.
Takes   == cmds # << >> /\ cur' = Head(cmds) /\ cmds' = Tail(cmds) /\ resps' = resps
Replies == pc = "reply" /\ resps' = Append(resps, cur.id) /\ cur' = NoCommand /\ cmds' = cmds
Leaves  == UNCHANGED queues /\ cur' \in {cur, NoCommand}

LEMMA ThreadChannels ==
  ASSUME ServerStep
  PROVE  /\ Takes \/ Replies \/ Leaves
         /\ UNCHANGED callers
<1> USE DEF Takes, Replies, Leaves, Keep, JustMoves, SetStatus, Goto, work, queues
<1>1. CASE CheckRun \/ Poll \/ Take \/ Enter \/ StartCheck \/ LoopCheck \/ TryWait \/ ModHang
  BY <1>1 DEF CheckRun, Poll, Take, TakeFor, Enter, StartCheck, LoopCheck, TryWait, ModHang
<1>2. CASE Answer \/ Defer \/ ModEarly \/ ModBegin \/ ModEnd \/ Reply
  BY <1>2 DEF Answer, Defer, ModEarly, ModBegin, ModEnd, Reply, Respond, KeepAnswering, Done,
       Failed
<1>3. CASE BeginWork \/ EndWork \/ RestoreHang \/ ClearReboot \/ Announce \/ Spawn \/ SpawnFails
  BY <1>3 DEF BeginWork, EndWork, RestoreHang, ClearReboot, ClearWith, Announce, Spawn, SpawnFails
<1>4. CASE RconConnect \/ RebootSwap \/ Stopping \/ Cleanup \/ Leave
  BY <1>4 DEF RconConnect, RebootSwap, SwapThenGo, Stopping, Cleanup, Leave
<1>5. CASE GameHangs \/ GameAnswers
  BY <1>5 DEF GameHangs, GameAnswers
<1> QED
  BY <1>1, <1>2, <1>3, <1>4, <1>5 DEF ServerStep, ThreadStep

LEMMA AppendFacts ==
  ASSUME NEW S, NEW q \in Seq(S), NEW e \in S
  PROVE  /\ DOMAIN q = 1 .. Len(q) /\ Len(q) \in Nat
         /\ DOMAIN Append(q, e) = 1 .. Len(q) + 1
         /\ \A i \in DOMAIN q : Append(q, e)[i] = q[i] /\ i < Len(q) + 1 /\ i \in Nat
         /\ Append(q, e)[Len(q) + 1] = e
  OBVIOUS

LEMMA TailFacts ==
  ASSUME NEW S, NEW q \in Seq(S), q # << >>
  PROVE  /\ Head(q) = q[1] /\ 1 \in DOMAIN q
         /\ \A i \in DOMAIN Tail(q) : /\ i \in Nat /\ 1 < i + 1 /\ i + 1 \in DOMAIN q
                                      /\ Tail(q)[i] = q[i + 1]
  OBVIOUS

\* All ids are numbers.
LEMMA IdFacts ==
  ASSUME TypeOK
  PROVE  /\ \A i \in DOMAIN resps : resps[i] \in Ids /\ resps[i] \in Nat /\ i \in Nat
         /\ \A j \in DOMAIN cmds : cmds[j].id \in Ids /\ cmds[j].id \in Nat /\ j \in Nat
         /\ InHand => cur.id \in Ids /\ cur.id \in Nat
         /\ \A j \in DOMAIN cmds : cmds[j] # NoCommand
         /\ nextId \in Nat
         /\ \A id \in Ids : id \in Nat
<1>1. nextId \in Nat /\ \A id \in Ids : id \in Nat
  BY BoundAssumption DEF TypeOK, Ids
<1>2. \A x \in Command : x.id \in Ids /\ x.id \in Nat /\ x.id > 0
  BY BoundAssumption DEF Command, Ids
<1>3. \A x \in Command : x # NoCommand
  BY <1>2 DEF NoCommand
<1>4. \A i \in DOMAIN resps : resps[i] \in Ids /\ i \in Nat
  <2>1. resps \in Seq(Ids)
    BY DEF TypeOK
  <2> QED
    BY <2>1
<1>5. \A j \in DOMAIN cmds : cmds[j] \in Command /\ j \in Nat
  <2>1. cmds \in Seq(Command)
    BY DEF TypeOK
  <2> QED
    BY <2>1
<1>6. InHand => cur \in Command
  BY DEF InHand, TypeOK
<1> QED
  BY <1>1, <1>2, <1>3, <1>4, <1>5, <1>6

LEMMA ChannelTakes ==
  ASSUME TypeOK, ChannelInv, Takes, UNCHANGED callers
  PROVE  ChannelInv'
<1> USE DEF ChannelInv, AnswersInOrder, Increasing, InHand
<1>1. cmds \in Seq(Command) /\ cmds # << >>
  BY DEF TypeOK, Takes
<1>2. /\ cur' = cmds[1] /\ 1 \in DOMAIN cmds /\ resps' = resps
      /\ \A i \in DOMAIN cmds' : /\ i \in Nat /\ 1 < i + 1 /\ i + 1 \in DOMAIN cmds
                                 /\ cmds'[i] = cmds[i + 1]
  BY <1>1, TailFacts DEF Takes
<1>3. UNCHANGED <<comm, client, nextId>>
  BY DEF callers
<1>4. \A i, j \in DOMAIN cmds' : i < j => cmds'[i].id < cmds'[j].id
  <2> SUFFICES ASSUME NEW i \in DOMAIN cmds', NEW j \in DOMAIN cmds', i < j
               PROVE  cmds'[i].id < cmds'[j].id
    OBVIOUS
  <2>1. i + 1 < j + 1 /\ i + 1 \in DOMAIN cmds /\ j + 1 \in DOMAIN cmds
    BY <1>2
  <2> QED
    BY <2>1, <1>2
<1>5. \A j \in DOMAIN cmds' : cur'.id < cmds'[j].id /\ cmds'[j].id < nextId
  BY <1>2
<1>6. \A i \in DOMAIN resps : /\ resps[i] < cur'.id
                              /\ \A j \in DOMAIN cmds' : resps[i] < cmds'[j].id
  BY <1>2
<1>7. cur'.id < nextId
  BY <1>2
<1> QED
  BY <1>2, <1>3, <1>4, <1>5, <1>6, <1>7

LEMMA ChannelReplies ==
  ASSUME TypeOK, ChannelInv, Replies, UNCHANGED callers
  PROVE  ChannelInv'
<1> USE DEF ChannelInv, AnswersInOrder, Increasing, InHand
<1>1. InHand /\ cur.id \in Ids /\ resps \in Seq(Ids)
  BY IdFacts DEF TypeOK, Replies
<1>2. /\ cur' = NoCommand /\ cmds' = cmds
      /\ DOMAIN resps' = DOMAIN resps \union {Len(resps) + 1}
      /\ Len(resps) + 1 \in Nat
      /\ \A i \in DOMAIN resps : resps'[i] = resps[i] /\ i \in Nat /\ i < Len(resps) + 1
      /\ resps'[Len(resps) + 1] = cur.id
  BY <1>1, AppendFacts DEF Replies
<1>3. UNCHANGED <<comm, client, nextId>>
  BY DEF callers
<1>4. \A i, j \in DOMAIN resps' : i < j => resps'[i] < resps'[j]
  BY <1>1, <1>2
<1>5. \A i \in DOMAIN resps' : /\ resps'[i] < nextId
                               /\ \A j \in DOMAIN cmds : resps'[i] < cmds[j].id
  BY <1>1, <1>2
<1> QED
  BY <1>1, <1>2, <1>3, <1>4, <1>5

LEMMA ChannelLeaves ==
  ASSUME TypeOK, ChannelInv, Leaves, UNCHANGED callers
  PROVE  ChannelInv'
<1>1. UNCHANGED <<cmds, resps, comm, client, nextId>>
  BY DEF Leaves, queues, callers
<1>2. cur' = cur \/ cur' = NoCommand
  BY DEF Leaves
<1> QED
  BY <1>1, <1>2 DEF ChannelInv, AnswersInOrder, Increasing, InHand

LEMMA ChannelClient ==
  ASSUME TypeOK, ChannelInv, NEW c \in Clients, ClientStep(c)
  PROVE  ChannelInv'
<1> USE DEF ChannelInv, AnswersInOrder, Increasing, InHand
<1>0. client \in [Clients -> ClientStates] /\ comm \in Clients \union {Nobody}
  BY DEF TypeOK
<1>1. CASE \/ \E op \in Wishes : Toggle(c, op)
           \/ Persist(c) \/ Mark(c)
           \/ \E op \in Requests : Admit(c, op)
  <2>1. UNCHANGED <<cmds, resps, cur, comm, nextId>>
    BY <1>1 DEF Toggle, Persist, PersistAs, Mark, Admit, server, thread, work, queues
  <2>2. /\ client[c].pc # "await" /\ client'[c].pc # "await"
        /\ \A d \in Clients : d # c => client'[d] = client[d]
    BY <1>0, <1>1 DEF Toggle, Persist, PersistAs, Mark, Admit, FreeClient
  <2> QED
    BY <2>1, <2>2, <1>0
<1>2. CASE Send(c)
  <2>1. /\ comm = Nobody /\ comm' = c /\ nextId' = nextId + 1
        /\ UNCHANGED <<resps, cur>>
    BY <1>2 DEF Send, server, thread, work
  <2>2. /\ client'[c].pc = "await" /\ client'[c].id = nextId
        /\ \A d \in Clients : d # c => client'[d] = client[d] /\ client[d].pc # "await"
    BY <1>0, <1>2, <2>1 DEF Send
  <2> DEFINE e == [id |-> nextId, op |-> client[c].op]
  <2>3. cmds \in Seq(Command) /\ e \in Command /\ e.id = nextId
    BY <1>2, ClientAt DEF TypeOK, Send, Command, Ids
  <2>4. cmds' = Append(cmds, e)
    BY <1>2 DEF Send
  <2> HIDE DEF e
  <2>5. /\ DOMAIN cmds' = DOMAIN cmds \union {Len(cmds) + 1}
        /\ Len(cmds) + 1 \in Nat
        /\ \A i \in DOMAIN cmds : cmds'[i] = cmds[i] /\ i \in Nat /\ i < Len(cmds) + 1
        /\ cmds'[Len(cmds) + 1].id = nextId
    BY <2>3, <2>4, AppendFacts
  <2>6. \A i, j \in DOMAIN cmds' : i < j => cmds'[i].id < cmds'[j].id
    BY <2>5
  <2>7. \A j \in DOMAIN cmds' : /\ InHand => cur.id < cmds'[j].id
                                /\ \A i \in DOMAIN resps : resps[i] < cmds'[j].id
                                /\ cmds'[j].id < nextId + 1
    BY <2>5, IdFacts
  <2>8. /\ \A i \in DOMAIN resps : resps[i] < nextId + 1
        /\ InHand => cur.id < nextId + 1
    BY IdFacts
  <2>9. nextId' - 1 = nextId
    BY <2>1, IdFacts
  <2>10. AnswersInOrder'
    BY <2>1, <2>6, <2>7
  <2>11. /\ \A i \in DOMAIN resps' : resps'[i] < nextId'
         /\ InHand' => cur'.id < nextId'
    BY <2>1, <2>8
  <2>12. \A d \in Clients : client'[d].pc = "await"
             => comm' = d /\ client'[d].id = nextId' - 1
    <3> SUFFICES ASSUME NEW d \in Clients, client'[d].pc = "await"
                 PROVE  comm' = d /\ client'[d].id = nextId' - 1
      OBVIOUS
    <3>1. d = c
      BY <2>2
    <3> QED
      BY <3>1, <2>1, <2>2, <2>9
  <2>13. comm' # Nobody => client'[comm'].pc = "await"
    BY <2>1, <2>2
  <2> QED
    BY <2>10, <2>11, <2>12, <2>13
<1>3. CASE Receive(c)
  <2>1. /\ comm = c /\ comm' = Nobody /\ resps # << >> /\ resps' = Tail(resps)
        /\ UNCHANGED <<cmds, cur, nextId>>
    BY <1>3 DEF Receive, ReceiveLeaving, server, thread, work
  <2>2. /\ client'[c].pc # "await"
        /\ \A d \in Clients : d # c => client'[d] = client[d]
    BY <1>0, <1>3 DEF Receive, ReceiveLeaving, FreeClient
  <2>3. \A d \in Clients : client'[d].pc # "await"
    BY <2>1, <2>2
  <2>4. resps \in Seq(Ids)
    BY DEF TypeOK
  <2>5. \A i \in DOMAIN resps' : i \in Nat /\ i + 1 \in DOMAIN resps /\ resps'[i] = resps[i + 1]
    BY <2>1, <2>4, TailFacts
  <2>6. \A i, j \in DOMAIN resps' : i < j => resps'[i] < resps'[j]
    <3> SUFFICES ASSUME NEW i \in DOMAIN resps', NEW j \in DOMAIN resps', i < j
                 PROVE  resps'[i] < resps'[j]
      OBVIOUS
    <3>1. i + 1 < j + 1
      BY <2>5
    <3> QED
      BY <3>1, <2>5
  <2> QED
    BY <2>1, <2>3, <2>5, <2>6
<1>4. CASE Timeout(c)
  <2>1. /\ comm = c /\ comm' = Nobody
        /\ UNCHANGED <<cmds, resps, cur, nextId>>
    BY <1>4 DEF Timeout, server, thread, work, queues
  <2>2. /\ client'[c].pc # "await"
        /\ \A d \in Clients : d # c => client'[d] = client[d]
    BY <1>0, <1>4 DEF Timeout, FreeClient
  <2> QED
    BY <2>1, <2>2
<1> QED
  BY <1>1, <1>2, <1>3, <1>4 DEF ClientStep

LEMMA ChannelInit == Init => ChannelInv /\ StrayInv
  BY DEF Init, ChannelInv, AnswersInOrder, Increasing, InHand, StrayInv, InFlight, FreeClient

LEMMA ChannelNext == TypeOK /\ ChannelInv /\ [Next]_vars => ChannelInv'
<1> SUFFICES ASSUME TypeOK, ChannelInv, [Next]_vars PROVE ChannelInv'
  OBVIOUS
<1>1. ASSUME NEW c \in Clients, ClientStep(c) PROVE ChannelInv'
  BY <1>1, ChannelClient
<1>2. CASE ServerStep
  BY <1>2, ThreadChannels, ChannelTakes, ChannelReplies, ChannelLeaves
<1>3. CASE GameExits
  <2>1. Leaves /\ UNCHANGED callers
    BY <1>3 DEF GameExits, Leaves, work
  <2> QED
    BY <2>1, ChannelLeaves
<1>4. CASE CrashRestart
  BY <1>4 DEF CrashRestart, ChannelInv, AnswersInOrder, Increasing, InHand, FreeClient
<1>5. CASE UNCHANGED vars
  <2>1. Leaves /\ UNCHANGED callers
    BY <1>5 DEF vars, Leaves, work
  <2> QED
    BY <2>1, ChannelLeaves
<1>6. CASE ConfigWritten
  <2>1. Leaves /\ UNCHANGED callers
    BY <1>6 DEF ConfigWritten, Leaves, server, thread, work
  <2> QED
    BY <2>1, ChannelLeaves
<1> QED
  BY <1>1, <1>2, <1>3, <1>4, <1>5, <1>6 DEF Next, ServerStep

\* Commands are answered in the order they were sent and at most once, for any
\* number of clients that share the channels, and across crashes.
THEOREM AnswersKeepOrder == Spec => []AnswersInOrder
<1>1. ChannelInv => AnswersInOrder
  BY DEF ChannelInv
<1> QED
  BY <1>1, ChannelInit, ChannelNext, TypeCorrect, PTL DEF Spec

-----------------------------------------------------------------------------
(***************************************************************************)
(* Stray answers.  Whatever is still in flight is either the command of    *)
(* the client that waits, or was sent no earlier than a command that some  *)
(* client gave up on.                                                      *)
(***************************************************************************)
LEMMA StrayFewer ==
  ASSUME StrayInv, UNCHANGED callers,
         \A id \in Ids : InFlight(id)' => InFlight(id)
  PROVE  StrayInv'
<1>1. \A id \in Ids : (Awaited(id)' <=> Awaited(id)) /\ (GaveUp(id)' <=> GaveUp(id))
  BY DEF callers, Awaited, GaveUp
<1> QED
  BY <1>1 DEF StrayInv

LEMMA StrayThread ==
  ASSUME TypeOK, StrayInv, Takes \/ Replies \/ Leaves, UNCHANGED callers
  PROVE  StrayInv'
<1> SUFFICES ASSUME NEW id \in Ids, InFlight(id)' PROVE InFlight(id)
  BY StrayFewer
<1>1. CASE Takes
  <2>1. cmds \in Seq(Command) /\ cmds # << >>
    BY <1>1 DEF TypeOK, Takes
  <2>2. /\ cur' = cmds[1] /\ 1 \in DOMAIN cmds /\ resps' = resps
        /\ \A i \in DOMAIN cmds' : i + 1 \in DOMAIN cmds /\ cmds'[i] = cmds[i + 1]
    BY <1>1, <2>1, TailFacts DEF Takes
  <2> QED
    BY <2>2 DEF InFlight
<1>2. CASE Replies
  <2>1. InHand /\ cur.id \in Ids /\ resps \in Seq(Ids)
    BY <1>2, IdFacts DEF TypeOK, Replies, InHand
  <2>2. /\ cur' = NoCommand /\ cmds' = cmds
        /\ DOMAIN resps' = DOMAIN resps \union {Len(resps) + 1}
        /\ \A i \in DOMAIN resps : resps'[i] = resps[i]
        /\ resps'[Len(resps) + 1] = cur.id
    BY <1>2, <2>1, AppendFacts DEF Replies
  <2> QED
    BY <2>1, <2>2 DEF InFlight, InHand
<1>3. CASE Leaves
  BY <1>3 DEF Leaves, queues, InFlight, InHand
<1> QED
  BY <1>1, <1>2, <1>3

LEMMA StrayClient ==
  ASSUME TypeOK, ChannelInv, StrayInv, NEW c \in Clients, ClientStep(c)
  PROVE  StrayInv'
<1>0. /\ client \in [Clients -> ClientStates] /\ comm \in Clients \union {Nobody}
      /\ abandoned \subseteq Ids
  BY DEF TypeOK
<1>1. CASE \/ \E op \in Wishes : Toggle(c, op)
           \/ Persist(c) \/ Mark(c)
           \/ \E op \in Requests : Admit(c, op)
  <2>1. UNCHANGED <<cmds, resps, cur, comm, abandoned>>
    BY <1>1 DEF Toggle, Persist, PersistAs, Mark, Admit, server, thread, work, queues
  <2>2. client[c].pc # "await" /\ \A d \in Clients : d # c => client'[d] = client[d]
    BY <1>0, <1>1 DEF Toggle, Persist, PersistAs, Mark, Admit, FreeClient
  <2>3. comm # c
    BY <2>2, NobodyAssumption DEF ChannelInv
  <2> SUFFICES ASSUME NEW id \in Ids, InFlight(id)' PROVE Awaited(id)' \/ GaveUp(id)'
    BY DEF StrayInv
  <2>4. Awaited(id) \/ GaveUp(id)
    BY <2>1 DEF StrayInv, InFlight, InHand
  <2> QED
    BY <1>0, <2>1, <2>2, <2>3, <2>4 DEF Awaited, GaveUp
<1>2. CASE Send(c)
  <2>1. /\ comm = Nobody /\ comm' = c
        /\ UNCHANGED <<resps, cur, abandoned>>
    BY <1>2 DEF Send, server, thread, work
  <2>2. client'[c].id = nextId
    BY <1>0, <1>2 DEF Send
  <2> DEFINE e == [id |-> nextId, op |-> client[c].op]
  <2>3. cmds \in Seq(Command) /\ e \in Command /\ e.id = nextId
    BY <1>2, ClientAt DEF TypeOK, Send, Command, Ids
  <2>4. cmds' = Append(cmds, e)
    BY <1>2 DEF Send
  <2> HIDE DEF e
  <2>5. /\ DOMAIN cmds' = DOMAIN cmds \union {Len(cmds) + 1}
        /\ \A i \in DOMAIN cmds : cmds'[i] = cmds[i]
        /\ cmds'[Len(cmds) + 1].id = nextId
    BY <2>3, <2>4, AppendFacts
  <2> SUFFICES ASSUME NEW id \in Ids, InFlight(id)' PROVE Awaited(id)' \/ GaveUp(id)'
    BY DEF StrayInv
  <2>6. InFlight(id) \/ id = nextId
    BY <2>1, <2>5 DEF InFlight, InHand
  <2>7. ASSUME InFlight(id) PROVE GaveUp(id)'
    BY <2>1, <2>7 DEF StrayInv, Awaited, GaveUp
  <2>8. ASSUME id = nextId PROVE Awaited(id)'
    BY <2>1, <2>2, <2>8, NobodyAssumption DEF Awaited
  <2> QED
    BY <2>6, <2>7, <2>8
<1>3. CASE Receive(c)
  <2>1. /\ comm = c /\ comm' = Nobody /\ resps # << >> /\ resps' = Tail(resps)
        /\ UNCHANGED <<cmds, cur, abandoned>>
    BY <1>3 DEF Receive, ReceiveLeaving, server, thread, work, ChannelInv
  <2>2. resps \in Seq(Ids)
    BY DEF TypeOK
  <2>3. /\ 1 \in DOMAIN resps
        /\ \A i \in DOMAIN resps' : 1 < i + 1 /\ i + 1 \in DOMAIN resps /\ resps'[i] = resps[i + 1]
    BY <2>1, <2>2, TailFacts
  <2>4. PICK h \in Ids : h = resps[1]
    BY <2>2, <2>3
  <2> SUFFICES ASSUME NEW id \in Ids, InFlight(id)' PROVE GaveUp(id)
    BY <2>1 DEF StrayInv, GaveUp
  <2>5. InFlight(id) /\ h < id
    <3>1. CASE \E i \in DOMAIN resps' : resps'[i] = id
      BY <3>1, <2>3, <2>4 DEF InFlight, ChannelInv, AnswersInOrder, Increasing
    <3>2. CASE \E j \in DOMAIN cmds : cmds[j].id = id
      BY <3>2, <2>3, <2>4 DEF InFlight, ChannelInv, AnswersInOrder
    <3>3. CASE InHand /\ cur.id = id
      BY <3>3, <2>3, <2>4 DEF InFlight, InHand, ChannelInv, AnswersInOrder
    <3> QED
      BY <3>1, <3>2, <3>3, <2>1 DEF InFlight, InHand
  <2>6. Awaited(h) \/ GaveUp(h)
    BY <2>3, <2>4 DEF StrayInv, InFlight
  <2>7. ASSUME GaveUp(h) PROVE GaveUp(id)
    <3>1. PICK a \in abandoned : a <= h
      BY <2>7 DEF GaveUp
    <3>2. a <= id
      BY <1>0, <2>5, <3>1, IdFacts
    <3> QED
      BY <3>2 DEF GaveUp
  <2>8. ASSUME Awaited(h) PROVE GaveUp(id)
    <3>1. id # h
      BY <2>5, IdFacts
    <3>2. ~ Awaited(id)
      BY <2>8, <3>1 DEF Awaited
    <3> QED
      BY <2>5, <3>2 DEF StrayInv
  <2> QED
    BY <2>6, <2>7, <2>8
<1>4. CASE Timeout(c)
  <2>1. /\ comm = c /\ abandoned' = abandoned \union {client[c].id}
        /\ UNCHANGED <<cmds, resps, cur>>
    BY <1>4 DEF Timeout, server, thread, work, queues, ChannelInv
  <2> SUFFICES ASSUME NEW id \in Ids, InFlight(id)' PROVE GaveUp(id)'
    BY DEF StrayInv
  <2>2. Awaited(id) \/ GaveUp(id)
    BY <2>1 DEF StrayInv, InFlight, InHand
  <2>3. id <= id
    BY IdFacts
  <2> QED
    BY <2>1, <2>2, <2>3 DEF Awaited, GaveUp
<1> QED
  BY <1>1, <1>2, <1>3, <1>4 DEF ClientStep

LEMMA StrayNext == TypeOK /\ ChannelInv /\ StrayInv /\ [Next]_vars => StrayInv'
<1> SUFFICES ASSUME TypeOK, ChannelInv, StrayInv, [Next]_vars PROVE StrayInv'
  OBVIOUS
<1>1. ASSUME NEW c \in Clients, ClientStep(c) PROVE StrayInv'
  BY <1>1, StrayClient
<1>2. CASE ServerStep
  BY <1>2, ThreadChannels, StrayThread
<1>3. CASE GameExits
  <2>1. Leaves /\ UNCHANGED callers
    BY <1>3 DEF GameExits, Leaves, work
  <2> QED
    BY <2>1, StrayThread
<1>4. CASE CrashRestart
  BY <1>4 DEF CrashRestart, StrayInv, InFlight, InHand
<1>5. CASE UNCHANGED vars
  <2>1. Leaves /\ UNCHANGED callers
    BY <1>5 DEF vars, Leaves, work
  <2> QED
    BY <2>1, StrayThread
<1>6. CASE ConfigWritten
  <2>1. Leaves /\ UNCHANGED callers
    BY <1>6 DEF ConfigWritten, Leaves, server, thread, work
  <2> QED
    BY <2>1, StrayThread
<1> QED
  BY <1>1, <1>2, <1>3, <1>4, <1>5, <1>6 DEF Next, ServerStep

LEMMA StrayMeans == TypeOK /\ StrayInv => StrayOnlyAfterTimeout
<1> SUFFICES ASSUME TypeOK, StrayInv, comm # Nobody, resps # << >>
             PROVE  Explained(Head(resps), comm)
  BY DEF StrayOnlyAfterTimeout
<1>1. resps \in Seq(Ids)
  BY DEF TypeOK
<1>2. Head(resps) = resps[1] /\ 1 \in DOMAIN resps /\ resps[1] \in Ids
  BY <1>1
<1>3. Awaited(resps[1]) \/ GaveUp(resps[1])
  BY <1>2 DEF StrayInv, InFlight
<1> QED
  BY <1>2, <1>3 DEF Explained, Awaited, GaveUp

\* No client is handed the answer to another's command before some client has
\* given up waiting, for any number of clients and of commands.
THEOREM StrayNeedsTimeout == Spec => []StrayOnlyAfterTimeout
<1> QED
  BY ChannelInit, ChannelNext, StrayNext, StrayMeans, TypeCorrect, PTL DEF Spec
=============================================================================
