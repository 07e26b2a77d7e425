--------------------------- MODULE MCNotifications ---------------------------
(* Instances of Notifications for TLC. *)
EXTENDS Notifications, TLC

CONSTANTS s1, s2, a1, a2

TwoServers  == {s1, s2}
OneAccount  == {a1}
TwoAccounts == {a1, a2}
SameAccount == s1 :> a1 @@ s2 :> a1
OwnAccount  == s1 :> a1 @@ s2 :> a2
AllJobs     == {"BackingUp", "Restoring", "Packaging"}
OnlyRestore == {"Restoring"}
NoQuiet     == {}
Runs        == {"Running"}
=============================================================================
