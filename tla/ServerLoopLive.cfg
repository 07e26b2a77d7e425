\* Liveness, the abstract owner and the channels; no symmetry.
CONSTANTS
  c1 = c1
  c2 = c2
  Nobody = Nobody
  Clients <- OneClient
  Requests <- LiveRequests
  Wishes <- EveryWish
  MaxSends = 2
  Failing <- ThreadCalls
  MaxFaults = 1
  MaxCrashes = 0
SPECIFICATION FairSpec
INVARIANTS
  AnswersInOrder
  StrayOnlyAfterTimeout
PROPERTIES
  StopHonoured
  RebootHonoured
  StartHonoured
  ImplementsWorldOwner
