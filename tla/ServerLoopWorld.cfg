\* Every kind of command, in any state of the thread, with two clients and a crash.
CONSTANTS
  c1 = c1
  c2 = c2
  Nobody = Nobody
  Clients <- TwoClients
  Requests <- ChangingRequests
  Wishes <- EveryWish
  MaxSends = 1
  Failing <- EveryCall
  MaxFaults = 1
  MaxCrashes = 1
SYMMETRY ClientSymmetry
SPECIFICATION Spec
INVARIANTS
  TypeOK
  WorldExclusion
  NoStaleReboot
  IntentDurable
  StatusHonest
