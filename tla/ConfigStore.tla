----------------------------- MODULE ConfigStore -----------------------------
(***************************************************************************)
(* yapper/src/conf.rs: the JSON file in which sv_manage keeps the wishes   *)
(* for its servers and the bot its polls, channels and list of servers.    *)
(* with_config_mut changes the configuration in memory under a write lock, *)
(* then empties the file, seeks to its start and writes everything again,  *)
(* each a call that can fail and a place where the process can end.        *)
(*                                                                         *)
(* A configuration is one value per writer: what the closures of one kind  *)
(* of caller set.  The process runs once at a time (acquire_lock).         *)
(***************************************************************************)
EXTENDS Integers

CONSTANTS Writers,     \* kinds of callers of with_config_mut
          Values,      \* what each of them may set
          Default,     \* T::default(), the same for every part
          Nobody,      \* "nobody holds the write lock"
          Torn,        \* an empty file or a part of one; also "no memory"
          Absent,      \* there is no file
          Unsure,      \* a writer that was told nothing of its last change
          MaxFaults,   \* bound: system calls that fail
          MaxCrashes   \* bound: times the process ends

Configs == [Writers -> Values]

ASSUME ValuesAssumption == Default \in Values /\ Unsure \notin Values
ASSUME MarksAssumption  == Torn # Absent /\ Torn \notin Configs /\ Absent \notin Configs
ASSUME NobodyAssumption == Nobody \notin Writers
ASSUME BoundAssumption  == MaxFaults \in Nat /\ MaxCrashes \in Nat

VARIABLES
  process,   \* "down", "creating" a first file, or "up"
  memory,    \* ConfigInner::config
  disk,      \* the contents of the file
  offset,    \* ConfigInner::file's position: at the "start" or the "end"
  lock,      \* who holds the RwLock for writing
  at,        \* what the holder did last: "changed", "emptied", "sought", "wrote"
  failed,    \* the last change ended in an error, after it changed memory
  kept,      \* history: the configuration last acknowledged, or started from
  promised,  \* history: what each writer was last told is set
  faults, crashes

file    == <<disk, offset>>
history == <<kept, promised>>
vars    == <<process, memory, file, lock, at, failed, history, faults, crashes>>

DefaultConfig == [w \in Writers |-> Default]

Init ==
  /\ process = "down"
  /\ memory = Torn
  /\ disk \in Configs \union {Absent}
  /\ offset = "start"
  /\ lock = Nobody /\ at = "rest" /\ failed = FALSE
  /\ kept = IF disk = Absent THEN DefaultConfig ELSE disk
  /\ promised = [w \in Writers |-> Unsure]
  /\ faults = 0 /\ crashes = 0

Fault == faults < MaxFaults /\ faults' = faults + 1

(***************************************************************************)
(* Config::init                                                            *)
(***************************************************************************)
Create ==
  /\ process = "down" /\ disk = Absent
  /\ process' = "creating"
  /\ disk' = Torn
  /\ UNCHANGED <<memory, offset, lock, at, failed, history, faults, crashes>>

WriteDefault ==
  /\ process = "creating"
  /\ process' = "up"
  /\ memory' = DefaultConfig /\ disk' = DefaultConfig
  /\ offset' = "end"
  /\ kept' = DefaultConfig
  /\ UNCHANGED <<lock, at, failed, promised, faults, crashes>>

\* serde_json::from_reader reads to the end; a torn file ends the start in an
\* error, as often as it is tried.
Open ==
  /\ process = "down" /\ disk \in Configs
  /\ process' = "up"
  /\ memory' = disk
  /\ offset' = "end"
  /\ UNCHANGED <<disk, lock, at, failed, history, faults, crashes>>

(***************************************************************************)
(* with_config_mut                                                         *)
(***************************************************************************)
\* Variant: the change starts from the default.
ApplyAnew(w, v) == [DefaultConfig EXCEPT ![w] = v]

Apply(w, v) == [memory EXCEPT ![w] = v]

Change(w, v) ==
  /\ process = "up" /\ lock = Nobody
  /\ lock' = w /\ at' = "changed"
  /\ memory' = Apply(w, v)
  /\ promised' = [promised EXCEPT ![w] = Unsure]
  /\ UNCHANGED <<process, file, failed, kept, faults, crashes>>

SetLen ==
  /\ at = "changed"
  /\ at' = "emptied"
  /\ disk' = Torn
  /\ UNCHANGED <<process, memory, offset, lock, failed, history, faults, crashes>>

\* Variant: the position is left where it was.
SeekNot ==
  /\ at = "emptied" /\ at' = "sought"
  /\ UNCHANGED <<process, memory, file, lock, failed, history, faults, crashes>>

SeekStart ==
  /\ at = "emptied"
  /\ at' = "sought"
  /\ offset' = "start"
  /\ UNCHANGED <<process, memory, disk, lock, failed, history, faults, crashes>>

\* Bytes written beyond the start of an empty file leave a hole of zeros.
WriteAll ==
  /\ at = "sought"
  /\ at' = "wrote"
  /\ disk' = IF offset = "start" THEN memory ELSE Torn
  /\ offset' = "end"
  /\ UNCHANGED <<process, memory, lock, failed, history, faults, crashes>>

Acknowledge ==
  /\ at = "wrote"
  /\ lock' = Nobody /\ at' = "rest" /\ failed' = FALSE
  /\ kept' = memory
  /\ promised' = [promised EXCEPT ![lock] = memory[lock]]
  /\ UNCHANGED <<process, memory, file, faults, crashes>>

\* Variants: the error is not returned; the lock is not released.
FailSilently ==
  /\ at \in {"changed", "emptied", "sought"} /\ Fault
  /\ lock' = Nobody /\ at' = "rest"
  /\ UNCHANGED <<process, memory, file, failed, history, crashes>>

FailLocked ==
  /\ at \in {"changed", "emptied", "sought"} /\ Fault
  /\ at' = "rest" /\ failed' = TRUE
  /\ UNCHANGED <<process, memory, file, lock, history, crashes>>

\* `?` on set_len, seek or write_all: the lock is released and the error
\* returned, but memory keeps the change.  A write may stop after some bytes.
Fail ==
  /\ at \in {"changed", "emptied", "sought"}
  /\ Fault
  /\ offset' = IF at = "sought" THEN "end" ELSE offset
  /\ lock' = Nobody /\ at' = "rest" /\ failed' = TRUE
  /\ UNCHANGED <<process, memory, disk, history, crashes>>

Crash ==
  /\ process # "down" /\ crashes < MaxCrashes
  /\ crashes' = crashes + 1
  /\ process' = "down"
  /\ memory' = Torn
  /\ offset' = "start"
  /\ lock' = Nobody /\ at' = "rest" /\ failed' = FALSE
  /\ kept' = disk
  /\ UNCHANGED <<disk, promised, faults>>

Write == SetLen \/ SeekStart \/ WriteAll \/ Acknowledge \/ Fail

Next == \/ Create \/ WriteDefault \/ Open \/ Crash \/ Write
        \/ \E w \in Writers, v \in Values : Change(w, v)

Spec == Init /\ [][Next]_vars

(***************************************************************************)
(* Properties                                                              *)
(***************************************************************************)
ConfigTypeOK ==
  /\ process \in {"down", "creating", "up"}
  /\ memory \in Configs \union {Torn} /\ (process = "up" <=> memory \in Configs)
  /\ disk \in Configs \union {Torn, Absent}
  /\ offset \in {"start", "end"}
  /\ lock \in Writers \union {Nobody}
  /\ at \in {"rest", "changed", "emptied", "sought", "wrote"}
  /\ (at = "rest" <=> lock = Nobody)
  /\ failed \in BOOLEAN
  /\ kept \in Configs \union {Torn}
  /\ promised \in [Writers -> Values \union {Unsure}]
  /\ faults \in 0 .. MaxFaults /\ crashes \in 0 .. MaxCrashes

\* with_config (conf.rs:49-55) reads memory while nobody writes: unless the last
\* change failed, what it reads is in the file and would be read after a restart.
ReadersSeeDurable == (process = "up" /\ lock = Nobody /\ ~failed) => disk = memory

\* A change that was acknowledged is what readers get from then on (until the
\* same writer makes another), whatever other writers do, fail at, or were doing
\* when the process ended; a file that does not parse is never read.
PromisesKept ==
  \A w \in Writers : promised[w] # Unsure =>
    /\ process = "up" => memory[w] = promised[w]
    /\ disk \in Configs => disk[w] = promised[w]

\* The steps on the file are one change of an AtomicConfig, which only promises
\* anything about the end of the process when no change is under way or failed.
Atomic == INSTANCE AtomicConfig WITH
            value <- IF process = "up" THEN memory
                     ELSE IF disk = Absent \/ process = "creating" THEN DefaultConfig
                     ELSE disk,
            dirty <- lock # Nobody \/ failed \/ process = "creating"

ImplementsAtomicConfig == Atomic!Spec
=============================================================================
