----------------------------- MODULE ServerFiles -----------------------------
(***************************************************************************)
(* The files of one server as the commands of server_loop.rs change them:  *)
(* the working folder, its backup, the mods folder, the list of mods kept  *)
(* in memory and the zip of the mods.                                      *)
(*                                                                         *)
(* ServerLoop shows that one thread runs the commands one after the other, *)
(* so here they are not interleaved; what happens between two changes of   *)
(* the disk is that a system call fails or that the daemon dies.           *)
(***************************************************************************)
EXTENDS Integers

CONSTANTS Mods,        \* mod ids that are not reserved
          Names,       \* preferred names of the jars
          NoMod,       \* "there is no such file"
          MaxFaults,   \* bound: system calls that fail
          MaxCrashes   \* bound: crashes of the daemon

ASSUME NoModAssumption == NoMod \notin Mods
ASSUME FilesBoundAssumption == MaxFaults \in Nat /\ MaxCrashes \in Nat

VARIABLES
  world,      \* the working folder, leaving the mods aside
  backup,     \* the folder beside it, <name>.bak
  mods,       \* the mods folder: which jar is under which file name
  cache,      \* Shared::mods_cache ...
  cacheOk,    \* ... and mod_cache_up_to_date
  zip,        \* the jars in the zip file
  zipOk,      \* Shared::zip_up_to_date
  pc,         \* which step of a long command is next
  job,        \* the file and the mod an update moves
  tornCopy,   \* history: the backup or the restoration of a torn folder was begun
  lost,       \* history: jars gone from the folder since the flags were last reset
  unseen,     \* history: mods of which a list has passed over a jar
  faults, crashes

disk   == <<world, backup, mods, zip>>
memory == <<cache, cacheOk, zipOk>>
notes  == <<tornCopy, lost, unseen>>
vars   == <<disk, memory, notes, pc, job, faults, crashes>>

\* A jar goes to its preferred name or, if that is taken, to one variant of it.
Files   == Names \X {1, 2}
NoJob   == [file |-> <<"none", 0>>, mod |-> NoMod]
Entries == [file : Files, mod : Mods]
Missing == [f \in Files |-> NoMod]

\* The jars in the mods folder; the variant counts every file as one.
EveryFile == {[file |-> f, mod |-> mods[f]] : f \in Files}
Folder    == {e \in Entries : mods[e.file] = e.mod}

FileStates == {"missing", "partial", "whole"}

Init ==
  /\ world = "whole" /\ backup = "missing"
  /\ mods = Missing
  /\ cache = {} /\ cacheOk = FALSE
  /\ zip = {} /\ zipOk = FALSE
  /\ pc = "idle" /\ job = NoJob
  /\ tornCopy = FALSE /\ lost = {} /\ unseen = {}
  /\ faults = 0 /\ crashes = 0

Fault == faults < MaxFaults /\ faults' = faults + 1

Goto(from, to) == pc = from /\ pc' = to
Step(v) == UNCHANGED v /\ UNCHANGED <<job, crashes>>

-----------------------------------------------------------------------------
(***************************************************************************)
(* Backup and restoration.                                                 *)
(***************************************************************************)
FilesKept == UNCHANGED <<mods, zip, memory, lost, unseen>>

\* remove_dir_all of the old backup; what it leaves behind stops the backup.
BackupClear ==
  /\ Goto("idle", "bkCreate")
  /\ world # "missing"
  /\ backup' = "missing"
  /\ tornCopy' = (tornCopy \/ world = "partial")
  /\ FilesKept /\ Step(<<world, faults>>)

BackupClearFails ==
  /\ pc = "idle" /\ backup # "missing" /\ world # "missing"
  /\ Fault
  /\ backup' \in {backup, "partial"}
  /\ tornCopy' = (tornCopy \/ world = "partial")
  /\ FilesKept /\ Step(<<world, pc>>)

\* create_dir, then copy_dir_all, which may stop at any file.
BackupCreate ==
  /\ \/ Goto("bkCreate", "bkCopy") /\ backup' = "partial" /\ UNCHANGED faults
     \/ Goto("bkCreate", "idle") /\ Fault /\ UNCHANGED backup
  /\ FilesKept /\ Step(<<world, tornCopy>>)

BackupCopy ==
  /\ Goto("bkCopy", "idle")
  /\ \/ backup' = world /\ UNCHANGED faults
     \/ Fault /\ UNCHANGED backup
  /\ FilesKept /\ Step(<<world, tornCopy>>)

\* Restore: only with a backup folder, whatever it holds; then the working
\* folder is deleted, mods and all, which may fail half way ...
RestoreFrom(source) ==
  /\ source
  /\ world # "missing"
  /\ tornCopy' = (tornCopy \/ backup = "partial")
  /\ \/ /\ Goto("idle", "reCreate")
        /\ world' = "missing"
        /\ mods' = Missing
        /\ UNCHANGED faults
     \/ /\ pc = "idle" /\ UNCHANGED pc
        /\ Fault
        /\ world' = "partial"
        /\ \E left \in SUBSET Files :
             mods' = [f \in Files |-> IF f \in left THEN mods[f] ELSE NoMod]
  /\ lost' = lost \union (Folder \ Folder')
  /\ UNCHANGED <<zip, memory, unseen>> /\ Step(backup)

RestoreUnchecked == RestoreFrom(TRUE)   \* variant: no look at the backup
RestoreClear     == RestoreFrom(backup # "missing")

\* ... and created anew; if that fails it stays away and with it get_path ...
RestoreCreate ==
  /\ pc = "reCreate"
  /\ \/ pc' = "reCopy" /\ world' = "partial" /\ UNCHANGED faults
     \/ pc' = "idle" /\ Fault /\ UNCHANGED world
  /\ FilesKept /\ Step(<<backup, tornCopy>>)

\* ... and the copy hangs in its progress callback after the first file, fails
\* before it, or finds no file to copy; the mods that were listed stay listed.
RestoreCopy ==
  /\ \/ Goto("reCopy", "stuck") /\ UNCHANGED faults
     \/ Goto("reCopy", "idle") /\ Fault
     \/ Goto("reCopy", "idle") /\ backup = "partial" /\ UNCHANGED faults
  /\ FilesKept /\ Step(<<world, backup, tornCopy>>)

-----------------------------------------------------------------------------
(***************************************************************************)
(* Mods.                                                                   *)
(***************************************************************************)
ModsKept == UNCHANGED <<world, backup, zip, tornCopy>>

\* list_mods answers from memory if it may, and reads the folder otherwise, which
\* needs the run.sh and the libraries of an intact server.  A jar that cannot be
\* opened, read or parsed is passed over, and the shorter list counts all the same.
Readable == world # "missing" /\ (cacheOk \/ world = "whole")
Lists    == IF cacheOk THEN {cache} ELSE SUBSET Folder

Listing(list) ==
  IF cacheOk \/ list = Folder THEN UNCHANGED <<unseen, faults>>
  ELSE Fault /\ unseen' = unseen \union {e.mod : e \in Folder \ list}

Listed(list) == cache' = list /\ cacheOk' = TRUE

ListMods(list) ==
  /\ pc = "idle" /\ Readable
  /\ Listing(list) /\ Listed(list)
  /\ ModsKept /\ UNCHANGED <<mods, zipOk, lost, pc>> /\ Step(<< >>)

\* invalidate_mod_cache
Invalidated(list)    == cache' = list /\ cacheOk' = FALSE /\ zipOk' = FALSE /\ lost' = {}
NotInvalidated(list) == Listed(list) /\ UNCHANGED <<zipOk, lost>>

\* The free names for a jar, in the order they are tried; without any the
\* search goes round for ever.
FreeName(n) == IF mods[<<n, 1>>] = NoMod THEN <<n, 1>> ELSE <<n, 2>>
NoFreeName(n) == \A i \in {1, 2} : mods[<<n, i>>] # NoMod

SearchHangs(list, n) ==
  /\ Goto("idle", "stuck")
  /\ NoFreeName(n)
  /\ Listed(list)
  /\ ModsKept /\ UNCHANGED <<mods, zipOk, lost>> /\ Step(<< >>)

IsListed(m, list) == \E e \in list : e.mod = m

\* install_mod: refused when the list has the mod; else the jar is renamed into
\* the folder, or that fails and nothing has changed.
InstallUnless(conflict, list, m, n) ==
  /\ pc = "idle" /\ Readable
  /\ Listing(list)
  /\ ~conflict
  /\ \/ SearchHangs(list, n)
     \/ /\ ~NoFreeName(n)
        /\ mods' = [mods EXCEPT ![FreeName(n)] = m]
        /\ Invalidated(list)
        /\ ModsKept /\ UNCHANGED pc /\ Step(<< >>)

InstallAnyway(list, m, n) == InstallUnless(FALSE, list, m, n)   \* variant: not consulted
InstallMod(list, m, n)    == InstallUnless(IsListed(m, list), list, m, n)

\* update_mod: the name is chosen first, then the listed file is removed ...
UpdateMod(list, m, n) ==
  /\ pc = "idle" /\ Readable
  /\ Listing(list)
  /\ \E e \in list :
       /\ e.mod = m
       /\ \/ SearchHangs(list, n)
          \/ /\ ~NoFreeName(n)
             /\ mods[e.file] # NoMod
             /\ mods' = [mods EXCEPT ![e.file] = NoMod]
             /\ lost' = lost \union {[file |-> e.file, mod |-> mods[e.file]]}
             /\ job' = [file |-> FreeName(n), mod |-> m]
             /\ pc' = "rename"
             /\ Listed(list)
             /\ ModsKept /\ UNCHANGED <<zipOk, crashes>>

\* ... and the new one is renamed into place, or it is gone: the error returns
\* before invalidate_mod_cache.
UpdateRename ==
  /\ Goto("rename", "idle")
  /\ \/ /\ mods' = [mods EXCEPT ![job.file] = job.mod]
        /\ cacheOk' = FALSE /\ zipOk' = FALSE /\ lost' = {}
        /\ UNCHANGED <<cache, faults>>
     \/ /\ Fault
        /\ UNCHANGED <<mods, memory, lost>>
  /\ job' = NoJob
  /\ ModsKept /\ UNCHANGED <<unseen, crashes>>

\* uninstall_mod: the listed file is removed, if it is there.
Uninstall(list, m, after) ==
  /\ pc = "idle" /\ Readable
  /\ Listing(list)
  /\ \E e \in list :
       /\ e.mod = m
       /\ mods[e.file] # NoMod
       /\ mods' = [mods EXCEPT ![e.file] = NoMod]
  /\ after
  /\ ModsKept /\ UNCHANGED pc /\ Step(<< >>)

UninstallQuietly(list, m) == Uninstall(list, m, NotInvalidated(list))   \* variant
UninstallMod(list, m)     == Uninstall(list, m, Invalidated(list))

\* GenerateModsZip: the zip is built unless it is up to date; a failure leaves an
\* incomplete file and the flag as it was.  What zip holds is then uploaded.
GenerateZip ==
  /\ pc = "idle"
  /\ ~zipOk /\ world # "missing"
  /\ \/ zip' = Folder /\ zipOk' = TRUE /\ UNCHANGED faults
     \/ zip' = {} /\ Fault /\ UNCHANGED zipOk
  /\ UNCHANGED <<world, backup, mods, cache, cacheOk, notes, pc>> /\ Step(<< >>)

-----------------------------------------------------------------------------
\* The daemon is started again, on what the disk holds.
CrashRestart ==
  /\ crashes < MaxCrashes
  /\ crashes' = crashes + 1
  /\ cacheOk' = FALSE /\ zipOk' = FALSE /\ cache' = {}
  /\ pc' = "idle" /\ job' = NoJob
  /\ lost' = {}
  /\ UNCHANGED <<disk, tornCopy, unseen, faults>>

Next ==
  \/ BackupClear \/ BackupClearFails \/ BackupCreate \/ BackupCopy
  \/ RestoreClear \/ RestoreCreate \/ RestoreCopy
  \/ \E list \in Lists : ListMods(list)
  \/ \E list \in Lists, m \in Mods, n \in Names : InstallMod(list, m, n)
  \/ \E list \in Lists, m \in Mods, n \in Names : UpdateMod(list, m, n)
  \/ UpdateRename
  \/ \E list \in Lists, m \in Mods : UninstallMod(list, m)
  \/ GenerateZip
  \/ CrashRestart

Spec == Init /\ [][Next]_vars
-----------------------------------------------------------------------------
(***************************************************************************)
(* Properties.                                                             *)
(***************************************************************************)
Places == {"idle", "bkCreate", "bkCopy", "reCreate", "reCopy", "rename", "stuck"}

\* The shape of the state; an update in progress has a free target.
FilesTypeOK ==
  /\ world \in FileStates /\ backup \in FileStates
  /\ mods \in [Files -> Mods \union {NoMod}]
  /\ cache \subseteq Entries /\ cacheOk \in BOOLEAN
  /\ zip \subseteq Entries /\ zipOk \in BOOLEAN
  /\ pc \in Places
  /\ job \in Entries \union {NoJob}
  /\ pc = "rename" => job \in Entries
  /\ tornCopy \in BOOLEAN /\ lost \subseteq Entries /\ unseen \subseteq Mods
  /\ faults \in 0 .. MaxFaults /\ crashes \in 0 .. MaxCrashes

\* The server's data survives whole in the working folder or in the backup,
\* whatever fails and whenever the daemon dies, until someone backs up a torn
\* folder or restores a torn backup -- which nothing in the code prevents
\* (server_loop.rs:306-361).
WholeCopySomewhere == world = "whole" \/ backup = "whole" \/ tornCopy

\* What is kept about the mods folder errs only by jars that can be named: at most it
\* still has those that a restoration or the removal in an update has taken away
\* without a flag being reset, and the list lacks at most jars of mods it has failed
\* to read.  So whoever is told that a mod is not there can only be told so of one
\* that was passed over (server_loop.rs:125, 334, 434, 520, 747-751).
MemoryHonest ==
  /\ cacheOk => /\ cache \ Folder \subseteq lost
                /\ \A e \in Folder \ cache : e.mod \in unseen
  /\ zipOk => zip \ Folder \subseteq lost /\ Folder \subseteq zip

\* No mod is installed twice, though the check is made on a list that may be stale,
\* unless some list has passed over a jar of it (server_loop.rs:434, 692).
NoModTwice ==
  \A f, g \in Files :
    (mods[f] = mods[g] /\ mods[f] # NoMod /\ mods[f] \notin unseen) => f = g
=============================================================================
