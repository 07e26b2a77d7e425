----------------------------- MODULE WorldOwner -----------------------------
(***************************************************************************)
(* What the supervisor of server_loop.rs promises about the folder of a    *)
(* server, without threads, channels or statuses: at most one game runs in *)
(* it; a backup, a restoration or the packing of the mods has it to        *)
(* itself; and only changes of single mod files happen beside a game.      *)
(***************************************************************************)
VARIABLES gameUp,    \* the supervised game process is alive
          activity   \* what the daemon is doing to the folder

Exclusive  == {"backup", "restore", "zip"}
Activities == Exclusive \union {"none", "mods"}

WOTypeOK == gameUp \in BOOLEAN /\ activity \in Activities

WOInit == gameUp = FALSE /\ activity = "none"

StartGame ==
  /\ ~gameUp /\ activity = "none"
  /\ gameUp' = TRUE
  /\ UNCHANGED activity

EndGame ==
  /\ gameUp
  /\ gameUp' = FALSE
  /\ UNCHANGED activity

Begin(a) ==
  /\ activity = "none"
  /\ a \in Exclusive => ~gameUp
  /\ activity' = a
  /\ UNCHANGED gameUp

End ==
  /\ activity # "none"
  /\ activity' = "none"
  /\ UNCHANGED gameUp

\* The daemon is gone, and with it whatever it was doing.
Forget == gameUp' = FALSE /\ activity' = "none"

WONext == \/ StartGame \/ EndGame
          \/ \E a \in Activities \ {"none"} : Begin(a)
          \/ End \/ Forget

WOSafety == WOInit /\ [][WONext]_<<gameUp, activity>>

\* Backups and zips come to an end; see ServerLoop for why the others may not.
EndCopy == activity \in {"backup", "zip"} /\ End

WOSpec == WOSafety /\ WF_<<gameUp, activity>>(EndCopy)

\* A game and exclusive work never overlap.
Exclusion == activity \in Exclusive => ~gameUp
=============================================================================
