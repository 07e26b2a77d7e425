-------------------------- MODULE ConfigStoreProofs --------------------------
(***************************************************************************)
(* Proofs about ConfigStore, for any writers and values: what readers see  *)
(* is durable, acknowledged changes survive restarts, and the steps on the *)
(* file implement AtomicConfig.                                            *)
(*                                                                         *)
(* The invariants are not inductive: that the file holds a whole           *)
(* configuration again needs to know how far the holder of the lock is,    *)
(* where the file's position stands, and what the file was before.         *)
(***************************************************************************)
EXTENDS ConfigStore, TLAPS

\* How far a change is decides what the file holds.
FileFollows ==
  /\ at \in {"emptied", "sought"} => disk = Torn
  /\ at = "sought" => offset = "start"
  /\ at = "wrote" => disk = memory

\* What a whole file holds was acknowledged, or is just being acknowledged.
FileKept == disk \in Configs => disk = kept \/ at = "wrote"

\* Only a running process changes anything, and its file is there.
Running ==
  /\ process # "up" => at = "rest" /\ failed = FALSE
  /\ process = "creating" => disk = Torn
  /\ process = "up" => disk # Absent
  /\ disk = Absent => kept = DefaultConfig
  /\ (disk = Absent \/ process = "creating") => \A w \in Writers : promised[w] = Unsure

\* The writer that holds the lock was told nothing yet.
HolderWaits == lock \in Writers => promised[lock] = Unsure

IInv == /\ ConfigTypeOK /\ FileFollows /\ FileKept /\ Running
        /\ HolderWaits /\ ReadersSeeDurable /\ PromisesKept

LEMMA DefaultIsConfig == DefaultConfig \in Configs
  BY ValuesAssumption DEF DefaultConfig, Configs

LEMMA InitInv == Init => IInv
<1> SUFFICES ASSUME Init PROVE IInv
  OBVIOUS
<1> USE DefaultIsConfig, ValuesAssumption, MarksAssumption, NobodyAssumption, BoundAssumption
      DEF Init
<1>1. ConfigTypeOK
  <2>1. failed \in BOOLEAN
    OBVIOUS
  <2>2. promised \in [Writers -> Values \union {Unsure}]
    OBVIOUS
  <2>3. kept \in Configs \union {Torn}
    OBVIOUS
  <2> QED BY <2>1, <2>2, <2>3 DEF ConfigTypeOK
<1>2. FileFollows /\ FileKept /\ HolderWaits
  BY DEF FileFollows, FileKept, HolderWaits
<1>3. Running /\ ReadersSeeDurable /\ PromisesKept
  BY DEF Running, ReadersSeeDurable, PromisesKept
<1> QED BY <1>1, <1>2, <1>3 DEF IInv

LEMMA ApplyIsConfig ==
  ASSUME memory \in Configs, NEW w \in Writers, NEW v \in Values
  PROVE  /\ Apply(w, v) \in Configs
         /\ Apply(w, v)[w] = v
         /\ \A x \in Writers : x # w => Apply(w, v)[x] = memory[x]
  BY DEF Apply, Configs

LEMMA StepInv == IInv /\ [Next]_vars => IInv'
<1> SUFFICES ASSUME IInv, [Next]_vars PROVE IInv'
  OBVIOUS
<1> USE DefaultIsConfig, ValuesAssumption, MarksAssumption, NobodyAssumption, BoundAssumption
      DEF IInv, ConfigTypeOK, FileFollows, FileKept, Running, HolderWaits,
          ReadersSeeDurable, PromisesKept, file, history
<1>1. CASE Create
  BY <1>1 DEF Create
<1>2. CASE WriteDefault
  BY <1>2 DEF WriteDefault
<1>3. CASE Open
  BY <1>3 DEF Open
<1>4. ASSUME NEW w \in Writers, NEW v \in Values, Change(w, v) PROVE IInv'
  <2>1. memory' \in Configs /\ memory'[w] = v
          /\ (\A x \in Writers : x # w => memory'[x] = memory[x])
    BY <1>4, ApplyIsConfig DEF Change
  <2>2. promised' \in [Writers -> Values \union {Unsure}] /\ promised'[w] = Unsure
          /\ (\A x \in Writers : x # w => promised'[x] = promised[x])
    BY <1>4 DEF Change
  <2> QED BY <1>4, <2>1, <2>2 DEF Change
<1>5. CASE SetLen
  BY <1>5 DEF SetLen
<1>6. CASE SeekStart
  BY <1>6 DEF SeekStart
<1>7. CASE WriteAll
  BY <1>7 DEF WriteAll
<1>8. CASE Acknowledge
  <2>1. promised' \in [Writers -> Values \union {Unsure}]
          /\ (\A x \in Writers : x # lock => promised'[x] = promised[x])
          /\ (lock \in Writers => promised'[lock] = memory[lock])
    BY <1>8 DEF Acknowledge, Configs
  <2> QED BY <1>8, <2>1 DEF Acknowledge
<1>9. CASE Fail
  BY <1>9 DEF Fail, Fault
<1>10. CASE Crash
  <2>1. disk # Absent
    BY <1>10 DEF Crash
  <2>2. ConfigTypeOK'
    <3>1. failed' \in BOOLEAN
      BY <1>10 DEF Crash
    <3>2. crashes' \in 0 .. MaxCrashes
      BY <1>10 DEF Crash
    <3> QED BY <1>10, <2>1, <3>1, <3>2 DEF Crash
  <2>3. FileFollows' /\ FileKept' /\ Running' /\ HolderWaits' /\ ReadersSeeDurable'
    BY <1>10, <2>1 DEF Crash
  <2>4. PromisesKept'
    BY <1>10 DEF Crash
  <2> QED BY <2>2, <2>3, <2>4
<1>11. CASE UNCHANGED vars
  BY <1>11 DEF vars
<1> QED BY <1>1, <1>2, <1>3, <1>4, <1>5, <1>6, <1>7, <1>8, <1>9, <1>10, <1>11 DEF Next, Write

LEMMA Invariance == Spec => []IInv
  BY InitInv, StepInv, PTL DEF Spec

\* The state of a Config keeps its shape (conf.rs:9-47), for any writers.
THEOREM ConfigTypeCorrect == Spec => []ConfigTypeOK
<1>1. IInv => ConfigTypeOK
  BY DEF IInv
<1> QED BY Invariance, <1>1, PTL

\* What with_config reads is in the file, unless the last change failed
\* (conf.rs:49-75): for any number of writers and failing calls.
THEOREM ReadsAreDurable == Spec => []ReadersSeeDurable
<1>1. IInv => ReadersSeeDurable
  BY DEF IInv
<1> QED BY Invariance, <1>1, PTL

\* An acknowledged change outlives other writers' changes and failures and any
\* number of restarts, as long as the file can be read at all (conf.rs:19-75).
THEOREM AcknowledgedSurvives == Spec => []PromisesKept
<1>1. IInv => PromisesKept
  BY DEF IInv
<1> QED BY Invariance, <1>1, PTL

(***************************************************************************)
(* The refinement.  Only Change, Acknowledge (of a change or of the first  *)
(* file) and Crash are steps of AtomicConfig; the others stutter, because  *)
(* nobody can read the file while the lock is held.                        *)
(***************************************************************************)
LEMMA AtomicInit == Init => Atomic!Init
  BY DefaultIsConfig, MarksAssumption DEF Init, Atomic!Init

LEMMA AtomicStep == IInv /\ [Next]_vars => [Atomic!Next]_Atomic!vars
<1> SUFFICES ASSUME IInv, [Next]_vars PROVE [Atomic!Next]_Atomic!vars
  OBVIOUS
<1> USE DefaultIsConfig, MarksAssumption, NobodyAssumption
      DEF IInv, ConfigTypeOK, Running, file, history, Atomic!vars
<1>1. CASE Create
  <2>1. Atomic!Change
    BY <1>1 DEF Create, Atomic!Change
  <2> QED BY <2>1 DEF Atomic!Next
<1>2. CASE WriteDefault
  <2>1. Atomic!Acknowledge
    BY <1>2 DEF WriteDefault, Atomic!Acknowledge
  <2> QED BY <2>1 DEF Atomic!Next
<1>3. CASE Open
  BY <1>3 DEF Open
<1>4. ASSUME NEW w \in Writers, NEW v \in Values, Change(w, v)
      PROVE [Atomic!Next]_Atomic!vars
  <2>1. memory' \in Configs
    BY <1>4, ApplyIsConfig DEF Change
  <2>2. Atomic!Change
    BY <1>4, <2>1 DEF Change, Atomic!Change
  <2> QED BY <2>2 DEF Atomic!Next
<1>5. CASE SetLen
  BY <1>5 DEF SetLen
<1>6. CASE SeekStart
  BY <1>6 DEF SeekStart
<1>7. CASE WriteAll
  BY <1>7 DEF WriteAll
<1>8. CASE Acknowledge
  <2>1. Atomic!Acknowledge
    BY <1>8 DEF Acknowledge, Atomic!Acknowledge
  <2> QED BY <2>1 DEF Atomic!Next
<1>9. CASE Fail
  BY <1>9 DEF Fail
<1>10. CASE Crash
  <2>1. Atomic!End
    BY <1>10 DEF Crash, Atomic!End, FileFollows, FileKept, ReadersSeeDurable
  <2> QED BY <2>1 DEF Atomic!Next
<1>11. CASE UNCHANGED vars
  BY <1>11 DEF vars
<1> QED BY <1>1, <1>2, <1>3, <1>4, <1>5, <1>6, <1>7, <1>8, <1>9, <1>10, <1>11 DEF Next, Write

\* with_config_mut is an atomic change of the configuration for its readers, and
\* for a start after a crash unless a change was under way or had failed
\* (conf.rs:49-76).
THEOREM StoreIsAtomic == Spec => ImplementsAtomicConfig
<1> QED BY AtomicInit, AtomicStep, Invariance, PTL DEF Spec, ImplementsAtomicConfig, Atomic!Spec
=============================================================================
