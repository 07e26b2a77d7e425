-------------------------- MODULE ServerFilesProofs --------------------------
(***************************************************************************)
(* Proofs about ServerFiles for any mods, names and bounds.                *)
(***************************************************************************)
EXTENDS ServerFiles, TLAPS

USE NoModAssumption, FilesBoundAssumption
USE DEF NoModAssumption, FilesBoundAssumption

\* The names that are tried are names of files.
LEMMA FreeNameIsFile ==
  ASSUME NEW n \in Names
  PROVE  /\ FreeName(n) \in Files
         /\ ~NoFreeName(n) => mods[FreeName(n)] = NoMod
BY DEF FreeName, NoFreeName, Files

\* What list_mods answers are files with mods in them; what it passes over is noted.
LEMMA ListTypes ==
  ASSUME FilesTypeOK, NEW list \in Lists, Listing(list)
  PROVE  /\ list \subseteq Entries
         /\ unseen \subseteq unseen' /\ unseen' \subseteq Mods
         /\ faults' \in 0 .. MaxFaults
<1>1. Folder \subseteq Entries /\ \A e \in Entries : e.mod \in Mods
  BY DEF Folder, Entries
<1>2. list \subseteq Entries
  BY <1>1 DEF Lists, FilesTypeOK
<1>3. CASE cacheOk \/ list = Folder
  BY <1>2, <1>3 DEF Listing, FilesTypeOK
<1>4. CASE ~(cacheOk \/ list = Folder)
  <2>1. faults' = faults + 1 /\ faults < MaxFaults
        /\ unseen' = unseen \union {e.mod : e \in Folder \ list}
    BY <1>4 DEF Listing, Fault
  <2>2. unseen \subseteq Mods /\ faults \in 0 .. MaxFaults
    BY DEF FilesTypeOK
  <2>3. faults' \in 0 .. MaxFaults
    BY <2>1, <2>2
  <2> QED
    BY <1>1, <1>2, <2>1, <2>2, <2>3
<1> QED
  BY <1>3, <1>4

\* Every command keeps the types.
LEMMA FilesTypeNext == FilesTypeOK /\ [Next]_vars => FilesTypeOK'
<1> SUFFICES ASSUME FilesTypeOK, [Next]_vars PROVE FilesTypeOK'
  OBVIOUS
<1> USE DEF Goto, Step, FilesKept, ModsKept, memory, disk, Fault, Places, FileStates
<1>0. Folder \subseteq Entries /\ Folder' \subseteq Entries /\ NoJob \in Entries \union {NoJob}
  BY DEF Folder
<1>1. CASE BackupClear \/ BackupClearFails
  <2>1. tornCopy' \in BOOLEAN
    BY <1>1, Zenon DEF BackupClear, BackupClearFails
  <2> QED
    BY <1>1, <2>1 DEF BackupClear, BackupClearFails, FilesTypeOK
<1>2. CASE BackupCreate \/ BackupCopy
  BY <1>2 DEF BackupCreate, BackupCopy, FilesTypeOK
<1>3. CASE RestoreClear
  <2>1. mods' \in [Files -> Mods \union {NoMod}]
    BY <1>3 DEF RestoreClear, RestoreFrom, Missing, FilesTypeOK
  <2>2. tornCopy' \in BOOLEAN
    BY <1>3, Zenon DEF RestoreClear, RestoreFrom
  <2>3. lost' \subseteq Entries
    BY <1>0, <1>3 DEF RestoreClear, RestoreFrom, FilesTypeOK
  <2> QED
    BY <1>3, <2>1, <2>2, <2>3 DEF RestoreClear, RestoreFrom, FilesTypeOK
<1>4. CASE RestoreCreate \/ RestoreCopy
  BY <1>4 DEF RestoreCreate, RestoreCopy, FilesTypeOK
<1>5. ASSUME NEW list \in Lists, ListMods(list) PROVE FilesTypeOK'
  <2>1. list \subseteq Entries /\ unseen' \subseteq Mods /\ faults' \in 0 .. MaxFaults
    BY <1>5, ListTypes DEF ListMods
  <2> QED
    BY <1>5, <2>1 DEF ListMods, Listed, FilesTypeOK
<1>13. ASSUME NEW list \in Lists, Listing(list), NEW n \in Names, SearchHangs(list, n)
       PROVE  FilesTypeOK'
  <2>1. list \subseteq Entries /\ unseen' \subseteq Mods /\ faults' \in 0 .. MaxFaults
    BY <1>13, ListTypes
  <2> QED
    BY <1>13, <2>1 DEF SearchHangs, Listed, FilesTypeOK
<1>12. CASE GenerateZip
  <2>1. zip' \subseteq Entries
    BY <1>0, <1>12 DEF GenerateZip
  <2>2. zipOk' \in BOOLEAN
    BY <1>12 DEF GenerateZip, FilesTypeOK
  <2> QED
    BY <1>12, <2>1, <2>2 DEF GenerateZip, notes, FilesTypeOK
<1>6. ASSUME NEW list \in Lists, NEW m \in Mods, NEW n \in Names, InstallMod(list, m, n)
      PROVE  FilesTypeOK'
  <2>0. Listing(list) /\ list \subseteq Entries /\ unseen' \subseteq Mods /\ faults' \in 0 .. MaxFaults
    BY <1>6, ListTypes DEF InstallMod, InstallUnless
  <2>1. CASE SearchHangs(list, n)
    BY <1>13, <2>0, <2>1
  <2>2. CASE mods' = [mods EXCEPT ![FreeName(n)] = m] /\ Invalidated(list) /\ ModsKept
             /\ UNCHANGED pc /\ Step(<< >>)
    <3>1. mods' \in [Files -> Mods \union {NoMod}]
      BY <2>2, FreeNameIsFile DEF FilesTypeOK
    <3> QED
      BY <2>0, <2>2, <3>1 DEF Invalidated, FilesTypeOK
  <2> QED
    BY <1>6, <2>1, <2>2 DEF InstallMod, InstallUnless
<1>7. ASSUME NEW list \in Lists, NEW m \in Mods, NEW n \in Names, UpdateMod(list, m, n)
      PROVE  FilesTypeOK'
  <2>0. Listing(list) /\ list \subseteq Entries /\ unseen' \subseteq Mods /\ faults' \in 0 .. MaxFaults
    BY <1>7, ListTypes DEF UpdateMod
  <2>1. CASE SearchHangs(list, n)
    BY <1>13, <2>0, <2>1
  <2>2. ASSUME NEW e \in list, mods[e.file] # NoMod,
               mods' = [mods EXCEPT ![e.file] = NoMod],
               lost' = lost \union {[file |-> e.file, mod |-> mods[e.file]]},
               job' = [file |-> FreeName(n), mod |-> m], pc' = "rename", Listed(list), ModsKept,
               UNCHANGED <<zipOk, crashes>>
        PROVE  FilesTypeOK'
    <3>1. mods' \in [Files -> Mods \union {NoMod}]
      BY <2>2 DEF FilesTypeOK
    <3>2. job' \in Entries
      BY <2>2, FreeNameIsFile DEF Entries
    <3>3. lost' \subseteq Entries
      BY <2>0, <2>2 DEF FilesTypeOK, Entries
    <3> QED
      BY <2>0, <2>2, <3>1, <3>2, <3>3 DEF Listed, FilesTypeOK
  <2> QED
    BY <1>7, <2>1, <2>2 DEF UpdateMod
<1>8. ASSUME NEW list \in Lists, NEW m \in Mods, UninstallMod(list, m) PROVE FilesTypeOK'
  <2>0. Listing(list) /\ list \subseteq Entries /\ unseen' \subseteq Mods /\ faults' \in 0 .. MaxFaults
    BY <1>8, ListTypes DEF UninstallMod, Uninstall
  <2>1. mods' \in [Files -> Mods \union {NoMod}]
    BY <1>8 DEF UninstallMod, Uninstall, FilesTypeOK
  <2> QED
    BY <1>8, <2>0, <2>1 DEF UninstallMod, Uninstall, Invalidated, FilesTypeOK
<1>9. CASE UpdateRename
  <2>1. job \in Entries
    BY <1>9 DEF UpdateRename, FilesTypeOK
  <2>2. mods' \in [Files -> Mods \union {NoMod}]
    BY <1>9, <2>1 DEF UpdateRename, FilesTypeOK, Entries
  <2>3. job' = NoJob /\ pc' = "idle"
    BY <1>9 DEF UpdateRename
  <2>4. faults' \in 0 .. MaxFaults /\ crashes' \in 0 .. MaxCrashes
    BY <1>9 DEF UpdateRename, FilesTypeOK
  <2>5. zipOk' \in BOOLEAN /\ cacheOk' \in BOOLEAN /\ lost' \subseteq Entries
    BY <1>9 DEF UpdateRename, FilesTypeOK
  <2>6. UNCHANGED <<world, backup, cache, zip, tornCopy, unseen>>
    BY <1>9 DEF UpdateRename
  <2> QED
    BY <1>0, <2>2, <2>3, <2>4, <2>5, <2>6 DEF FilesTypeOK
<1>10. CASE CrashRestart
  <2>1. job' = NoJob /\ pc' = "idle" /\ cache' = {}
    BY <1>10 DEF CrashRestart
  <2>2. crashes' \in 0 .. MaxCrashes
    BY <1>10 DEF CrashRestart, FilesTypeOK
  <2>3. zipOk' \in BOOLEAN /\ cacheOk' \in BOOLEAN /\ lost' = {}
    BY <1>10 DEF CrashRestart
  <2>4. UNCHANGED <<world, backup, mods, zip, tornCopy, unseen, faults>>
    BY <1>10 DEF CrashRestart
  <2> QED
    BY <1>0, <2>1, <2>2, <2>3, <2>4 DEF FilesTypeOK
<1>11. CASE UNCHANGED vars
  BY <1>11 DEF vars, notes, FilesTypeOK
<1> QED
  BY <1>1, <1>2, <1>3, <1>4, <1>5, <1>6, <1>7, <1>8, <1>9, <1>10, <1>11, <1>12 DEF Next

\* Every variable keeps its type.
THEOREM FilesTypeCorrect == Spec => []FilesTypeOK
<1>1. Init => FilesTypeOK
  <2> SUFFICES ASSUME Init PROVE FilesTypeOK
    OBVIOUS
  <2>1. mods \in [Files -> Mods \union {NoMod}]
    BY DEF Init, Missing
  <2>2. /\ cacheOk \in BOOLEAN /\ zipOk \in BOOLEAN
        /\ tornCopy \in BOOLEAN /\ lost = {} /\ unseen = {}
    BY DEF Init
  <2>3. cache \subseteq Entries /\ zip \subseteq Entries
    BY DEF Init
  <2>4. job \in Entries \union {NoJob} /\ pc = "idle"
    BY DEF Init
  <2>5. faults \in 0 .. MaxFaults /\ crashes \in 0 .. MaxCrashes
    BY DEF Init
  <2> QED
    BY <2>1, <2>2, <2>3, <2>4, <2>5 DEF Init, FilesTypeOK, FileStates, Places
<1> QED
  BY <1>1, FilesTypeNext, PTL DEF Spec

-----------------------------------------------------------------------------
\* Where the only copy may be while a long command runs.
CopyInv ==
  /\ WholeCopySomewhere
  /\ pc \in {"bkCreate", "bkCopy"} => world = "whole" \/ tornCopy
  /\ pc \in {"reCreate", "reCopy"} => backup = "whole" \/ tornCopy

\* A copy is overwritten only while the one it is made from is whole, or was torn.
LEMMA CopyNext == FilesTypeOK /\ CopyInv /\ [Next]_vars => CopyInv'
<1> SUFFICES ASSUME FilesTypeOK, CopyInv, [Next]_vars PROVE CopyInv'
  OBVIOUS
<1> USE DEF CopyInv, WholeCopySomewhere, Goto, Step, FilesKept, ModsKept, memory, disk
<1>0. world \in FileStates /\ backup \in FileStates
  BY DEF FilesTypeOK
<1>1. CASE BackupClear \/ BackupClearFails
  BY <1>0, <1>1 DEF FileStates, BackupClear, BackupClearFails
<1>2. CASE BackupCreate \/ BackupCopy
  BY <1>2 DEF BackupCreate, BackupCopy
<1>3. CASE RestoreClear
  BY <1>0, <1>3 DEF FileStates, RestoreClear, RestoreFrom
<1>4. CASE RestoreCreate \/ RestoreCopy
  BY <1>4 DEF RestoreCreate, RestoreCopy
<1>5. ASSUME NEW list, ListMods(list) \/ GenerateZip PROVE CopyInv'
  BY <1>5 DEF ListMods, GenerateZip, notes
<1>6. ASSUME NEW list, NEW m \in Mods, NEW n \in Names,
             InstallMod(list, m, n) \/ UpdateMod(list, m, n)
      PROVE  CopyInv'
  BY <1>6 DEF InstallMod, InstallUnless, UpdateMod, SearchHangs
<1>7. ASSUME NEW list, NEW m \in Mods, UninstallMod(list, m) PROVE CopyInv'
  BY <1>7 DEF UninstallMod, Uninstall
<1>8. CASE UpdateRename
  BY <1>8 DEF UpdateRename
<1>9. CASE CrashRestart
  BY <1>9 DEF CrashRestart
<1>10. CASE UNCHANGED vars
  BY <1>10 DEF vars, notes
<1> QED
  BY <1>1, <1>2, <1>3, <1>4, <1>5, <1>6, <1>7, <1>8, <1>9, <1>10 DEF Next

\* Whatever fails and whenever the daemon dies, a whole copy survives until a torn
\* one is copied over it.
THEOREM CopySurvives == Spec => []WholeCopySomewhere
<1>1. Init => CopyInv
  BY DEF Init, CopyInv, WholeCopySomewhere
<1>2. CopyInv => WholeCopySomewhere
  BY DEF CopyInv
<1> QED
  BY <1>1, <1>2, CopyNext, FilesTypeCorrect, PTL DEF Spec

-----------------------------------------------------------------------------
(***************************************************************************)
(* The list of mods in memory, and the zip.                                *)
(***************************************************************************)
\* What a list has too much is lost, what it lacks was passed over.
LEMMA ListErrs ==
  ASSUME MemoryHonest, NEW list \in Lists, Listing(list)
  PROVE  /\ unseen \subseteq unseen'
         /\ list \ Folder \subseteq lost
         /\ \A e \in Folder \ list : e.mod \in unseen'
BY DEF MemoryHonest, Lists, Listing

\* A command that changes the folder resets the flags, or the jars it takes away are noted as lost.
LEMMA HonestNext == MemoryHonest /\ [Next]_vars => MemoryHonest'
<1> SUFFICES ASSUME MemoryHonest, [Next]_vars PROVE MemoryHonest'
  OBVIOUS
<1> USE DEF Goto, Step, FilesKept, ModsKept, memory, disk
<1>0. UNCHANGED mods => UNCHANGED Folder
  BY DEF Folder
<1>1. CASE \/ BackupClear \/ BackupClearFails \/ BackupCreate \/ BackupCopy
           \/ RestoreCreate \/ RestoreCopy
  <2>1. UNCHANGED <<mods, memory, zip, lost, unseen>>
    BY <1>1 DEF BackupClear, BackupClearFails, BackupCreate, BackupCopy,
                RestoreCreate, RestoreCopy
  <2> QED
    BY <1>0, <2>1 DEF MemoryHonest
<1>2. CASE RestoreClear
  <2>1. UNCHANGED <<memory, zip, unseen>> /\ lost' = lost \union (Folder \ Folder')
    BY <1>2 DEF RestoreClear, RestoreFrom
  <2>2. Folder' \subseteq Folder
    <3>1. \A f \in Files : mods'[f] \in {mods[f], NoMod}
      BY <1>2 DEF RestoreClear, RestoreFrom, Missing
    <3> QED
      BY <3>1 DEF Folder, Entries
  <2> QED
    BY <2>1, <2>2 DEF MemoryHonest
<1>3. ASSUME NEW list \in Lists, Listing(list), Listed(list),
             UNCHANGED <<mods, zip, zipOk, lost>>
      PROVE  MemoryHonest'
  BY <1>0, <1>3, ListErrs DEF Listed, MemoryHonest
<1>4. CASE GenerateZip
  <2>1. UNCHANGED <<mods, cache, cacheOk, lost, unseen>>
    BY <1>4 DEF GenerateZip, notes
  <2>2. zipOk' => zip' = Folder
    BY <1>4 DEF GenerateZip
  <2> QED
    BY <1>0, <2>1, <2>2 DEF MemoryHonest
<1>5. ASSUME NEW list \in Lists, NEW m \in Mods, NEW n \in Names, InstallMod(list, m, n)
      PROVE  MemoryHonest'
  <2>1. CASE SearchHangs(list, n)
    BY <1>3, <1>5, <2>1 DEF InstallMod, InstallUnless, SearchHangs
  <2>2. CASE Invalidated(list)
    BY <2>2 DEF Invalidated, MemoryHonest
  <2> QED
    BY <1>5, <2>1, <2>2 DEF InstallMod, InstallUnless
<1>6. ASSUME NEW list \in Lists, NEW m \in Mods, NEW n \in Names, UpdateMod(list, m, n)
      PROVE  MemoryHonest'
  <2>0. Listing(list)
    BY <1>6 DEF UpdateMod
  <2>1. CASE SearchHangs(list, n)
    BY <1>3, <2>0, <2>1 DEF SearchHangs
  <2>2. ASSUME NEW e \in list, mods' = [mods EXCEPT ![e.file] = NoMod],
               lost' = lost \union {[file |-> e.file, mod |-> mods[e.file]]},
               Listed(list), UNCHANGED <<zip, zipOk>>
        PROVE  MemoryHonest'
    <3>1. Folder' \subseteq Folder /\ \A d \in Folder \ Folder' : d = [file |-> e.file, mod |-> mods[e.file]]
      <4>1. \A d \in Entries : d \in Folder' <=> mods'[d.file] = d.mod
        BY DEF Folder
      <4>2. \A d \in Entries : d \in Folder <=> mods[d.file] = d.mod
        BY DEF Folder
      <4>3. \A d \in Entries : d.mod # NoMod /\ d = [file |-> d.file, mod |-> d.mod]
        BY DEF Entries
      <4>4. \A f : f # e.file => mods'[f] = mods[f]
        BY <2>2
      <4>5. \A d \in Entries : mods'[d.file] = d.mod => mods[d.file] = d.mod
        BY <2>2, <4>3
      <4>6. Folder \subseteq Entries /\ Folder' \subseteq Entries
        BY DEF Folder
      <4> QED
        BY <4>1, <4>2, <4>3, <4>4, <4>5, <4>6
    <3>2. Folder \ Folder' \subseteq lost' /\ lost \subseteq lost'
      BY <2>2, <3>1
    <3>3. /\ list \ Folder \subseteq lost /\ unseen \subseteq unseen'
          /\ \A d \in Folder \ list : d.mod \in unseen'
      BY <2>0, ListErrs
    <3>4. cache' = list /\ UNCHANGED <<zip, zipOk>>
      BY <2>2 DEF Listed
    <3> QED
      BY <3>1, <3>2, <3>3, <3>4 DEF MemoryHonest
  <2> QED
    BY <1>6, <2>1, <2>2 DEF UpdateMod
<1>7. CASE UpdateRename
  BY <1>0, <1>7 DEF UpdateRename, MemoryHonest
<1>8. ASSUME NEW list \in Lists, NEW m \in Mods, UninstallMod(list, m) PROVE MemoryHonest'
  BY <1>8 DEF UninstallMod, Uninstall, Invalidated, MemoryHonest
<1>9. CASE CrashRestart
  BY <1>9 DEF CrashRestart, MemoryHonest
<1>10. CASE UNCHANGED vars
  BY <1>0, <1>10 DEF vars, notes, MemoryHonest
<1>11. ASSUME NEW list \in Lists, ListMods(list) PROVE MemoryHonest'
  BY <1>3, <1>11 DEF ListMods
<1> QED
  BY <1>1, <1>2, <1>4, <1>5, <1>6, <1>7, <1>8, <1>9, <1>10, <1>11 DEF Next

\* What is kept of the folder errs only by jars that a restoration or an update has
\* taken away and by mods that a list has passed over, for any failures and crashes.
THEOREM BeliefsAreRight == Spec => []MemoryHonest
<1>1. Init => MemoryHonest
  BY DEF Init, MemoryHonest
<1> QED
  BY <1>1, HonestNext, PTL DEF Spec

-----------------------------------------------------------------------------
\* One mod, one file, in the list as in the folder.
CacheUnique ==
  \A e, f \in cache :
    (cacheOk /\ e.mod = f.mod /\ e.mod \notin unseen) => e.file = f.file

\* A mod that is being updated is in no file.
UpdateInv ==
  (pc = "rename" /\ job.mod \notin unseen) => \A f \in Files : mods[f] # job.mod

ListInv == CacheUnique /\ UpdateInv /\ NoModTwice

\* The list that is answered has a mod once, unless one of its jars was passed over.
LEMMA ListUnique ==
  ASSUME ListInv, NEW list \in Lists, NEW e \in list, NEW f \in list,
         e.mod = f.mod, e.mod \notin unseen
  PROVE  e.file = f.file
<1>1. CASE cacheOk
  BY <1>1 DEF Lists, ListInv, CacheUnique
<1>2. CASE ~cacheOk
  <2>1. /\ e \in Entries /\ f \in Entries
        /\ mods[e.file] = e.mod /\ mods[f.file] = f.mod
    BY <1>2 DEF Lists, Folder
  <2> QED
    BY <2>1 DEF Entries, ListInv, NoModTwice, NoModAssumption
<1> QED
  BY <1>1, <1>2

\* A mod in a file is listed with it, unless it was passed over.
LEMMA InListed ==
  ASSUME FilesTypeOK, MemoryHonest, NEW list \in Lists, Listing(list),
         NEW m \in Mods, m \notin unseen', NEW f \in Files, mods[f] = m
  PROVE  [file |-> f, mod |-> m] \in list
<1>1. [file |-> f, mod |-> m] \in Folder
  BY DEF Entries, Folder
<1> QED
  BY <1>1, ListErrs

\* What only takes mods away, and leaves the list alone or answers it.
LEMMA FewerMods ==
  ASSUME ListInv, unseen \subseteq unseen',
         \A f \in Files : mods'[f] \in {mods[f], NoMod},
         \/ ~cacheOk'
         \/ UNCHANGED <<cache, cacheOk>>
         \/ cache' \in Lists
  PROVE  CacheUnique' /\ NoModTwice'
<1>1. CacheUnique'
  BY ListUnique DEF ListInv, CacheUnique
<1>2. NoModTwice'
  BY DEF ListInv, NoModTwice
<1> QED
  BY <1>1, <1>2

\* A mod is put into the folder only while no file has it, as far as jars are seen.
LEMMA ListNext ==
  FilesTypeOK /\ FilesTypeOK' /\ MemoryHonest /\ ListInv /\ [Next]_vars => ListInv'
<1> SUFFICES ASSUME FilesTypeOK, FilesTypeOK', MemoryHonest, ListInv, [Next]_vars
             PROVE  ListInv'
  OBVIOUS
<1> USE DEF Goto, Step, FilesKept, ModsKept, memory, disk
<1>1. CASE \/ BackupClear \/ BackupClearFails \/ BackupCreate \/ BackupCopy
           \/ RestoreCreate \/ RestoreCopy \/ GenerateZip
  <2>1. UNCHANGED <<mods, cache, cacheOk, unseen>> /\ pc' # "rename"
    BY <1>1 DEF BackupClear, BackupClearFails, BackupCreate, BackupCopy,
                RestoreCreate, RestoreCopy, GenerateZip, notes
  <2> QED
    BY <2>1, FewerMods DEF ListInv, UpdateInv
<1>2. CASE RestoreClear
  <2>1. UNCHANGED <<cache, cacheOk, unseen>> /\ pc' # "rename"
    BY <1>2 DEF RestoreClear, RestoreFrom
  <2>2. \A f \in Files : mods'[f] \in {mods[f], NoMod}
    BY <1>2 DEF RestoreClear, RestoreFrom, Missing
  <2> QED
    BY <2>1, <2>2, FewerMods DEF ListInv, UpdateInv
<1>3. ASSUME NEW list \in Lists, Listing(list), Listed(list), UNCHANGED mods, pc' # "rename"
      PROVE  ListInv'
  <2>1. unseen \subseteq unseen'
    BY <1>3, ListErrs
  <2>2. cache' \in Lists
    BY <1>3 DEF Listed
  <2> QED
    BY <1>3, <2>1, <2>2, FewerMods DEF ListInv, UpdateInv
<1>4. ASSUME NEW list \in Lists, ListMods(list) PROVE ListInv'
  BY <1>3, <1>4 DEF ListMods
<1>5. ASSUME NEW list \in Lists, NEW m \in Mods, NEW n \in Names, InstallMod(list, m, n)
      PROVE  ListInv'
  <2>0. Listing(list) /\ unseen \subseteq unseen' /\ ~IsListed(m, list) /\ pc = "idle"
    BY <1>5, ListErrs DEF InstallMod, InstallUnless
  <2>1. CASE SearchHangs(list, n)
    BY <1>3, <2>0, <2>1 DEF SearchHangs
  <2>2. CASE /\ mods' = [mods EXCEPT ![FreeName(n)] = m]
             /\ Invalidated(list) /\ UNCHANGED pc
    <3>1. m \notin unseen' => \A f \in Files : mods[f] # m
      BY <2>0, InListed DEF IsListed
    <3>2. NoModTwice'
      BY <2>0, <2>2, <3>1 DEF ListInv, NoModTwice, FilesTypeOK
    <3>3. ~cacheOk' /\ pc' # "rename"
      BY <2>0, <2>2 DEF Invalidated
    <3> QED
      BY <3>2, <3>3 DEF ListInv, CacheUnique, UpdateInv
  <2> QED
    BY <1>5, <2>1, <2>2 DEF InstallMod, InstallUnless
<1>6. ASSUME NEW list \in Lists, NEW m \in Mods, NEW n \in Names, UpdateMod(list, m, n)
      PROVE  ListInv'
  <2>0. Listing(list) /\ unseen \subseteq unseen'
    BY <1>6, ListErrs DEF UpdateMod
  <2>1. CASE SearchHangs(list, n)
    BY <1>3, <2>0, <2>1 DEF SearchHangs
  <2>2. ASSUME NEW e \in list, e.mod = m, mods' = [mods EXCEPT ![e.file] = NoMod],
               job'.mod = m, cache' = list
        PROVE  ListInv'
    <3>1. \A f \in Files : mods'[f] \in {mods[f], NoMod}
      BY <2>2 DEF FilesTypeOK
    <3>2. ASSUME NEW f \in Files, mods'[f] = m, m \notin unseen' PROVE FALSE
      <4>1. mods[f] = m /\ f # e.file
        BY <2>2, <3>2 DEF FilesTypeOK, NoModAssumption
      <4>2. [file |-> f, mod |-> m] \in list
        BY <2>0, <3>2, <4>1, InListed
      <4> DEFINE g == [file |-> f, mod |-> m]
      <4>3. g.mod = e.mod /\ g.file = f
        BY <2>2
      <4>4. e.mod \notin unseen
        BY <2>0, <2>2, <3>2
      <4> HIDE DEF g
      <4>5. e.file = g.file
        BY <4>2, <4>3, <4>4, ListUnique DEF g
      <4> QED
        BY <4>1, <4>3, <4>5
    <3>3. UpdateInv'
      BY <2>2, <3>2 DEF UpdateInv
    <3>4. CacheUnique' /\ NoModTwice'
      BY <2>0, <2>2, <3>1, FewerMods
    <3> QED
      BY <3>3, <3>4 DEF ListInv
  <2> QED
    BY <1>6, <2>1, <2>2 DEF UpdateMod, Listed
<1>7. CASE UpdateRename
  <2>1. pc' # "rename" /\ UNCHANGED unseen
    BY <1>7 DEF UpdateRename
  <2>2. CASE UNCHANGED <<mods, cache, cacheOk>>
    BY <2>1, <2>2, FewerMods DEF ListInv, UpdateInv
  <2>3. CASE ~cacheOk' /\ mods' = [mods EXCEPT ![job.file] = job.mod]
    <3>1. job.mod \notin unseen => \A f \in Files : mods[f] # job.mod
      BY <1>7 DEF UpdateRename, ListInv, UpdateInv
    <3>2. NoModTwice'
      BY <2>1, <2>3, <3>1 DEF ListInv, NoModTwice, FilesTypeOK
    <3> QED
      BY <2>1, <2>3, <3>2 DEF ListInv, CacheUnique, UpdateInv
  <2> QED
    BY <1>7, <2>2, <2>3 DEF UpdateRename
<1>8. ASSUME NEW list \in Lists, NEW m \in Mods, UninstallMod(list, m) PROVE ListInv'
  <2>1. ~cacheOk' /\ pc' # "rename"
    BY <1>8 DEF UninstallMod, Uninstall, Invalidated
  <2>2. \A f \in Files : mods'[f] \in {mods[f], NoMod}
    BY <1>8 DEF UninstallMod, Uninstall, FilesTypeOK
  <2>3. unseen \subseteq unseen'
    BY <1>8, ListErrs DEF UninstallMod, Uninstall
  <2> QED
    BY <2>1, <2>2, <2>3, FewerMods DEF ListInv, UpdateInv
<1>9. CASE CrashRestart
  <2>1. UNCHANGED <<mods, unseen>> /\ ~cacheOk' /\ pc' # "rename"
    BY <1>9 DEF CrashRestart
  <2> QED
    BY <2>1, FewerMods DEF ListInv, UpdateInv
<1>10. CASE UNCHANGED vars
  <2>1. UNCHANGED <<mods, cache, cacheOk, pc, job, unseen>>
    BY <1>10 DEF vars, notes
  <2> QED
    BY <2>1, FewerMods DEF ListInv, UpdateInv
<1> QED
  BY <1>1, <1>2, <1>4, <1>5, <1>6, <1>7, <1>8, <1>9, <1>10 DEF Next

\* A stale list does not let a mod in twice, through failed renames, restorations and
\* restarts: only a list that has passed over a jar of the mod does.
THEOREM ModsAreUnique == Spec => []NoModTwice
<1>1. Init => ListInv
  BY DEF Init, Missing, ListInv, CacheUnique, UpdateInv, NoModTwice
<1>2. ListInv => NoModTwice
  BY DEF ListInv
<1> QED
  BY <1>1, <1>2, ListNext, FilesTypeCorrect, BeliefsAreRight, PTL DEF Spec
=============================================================================
