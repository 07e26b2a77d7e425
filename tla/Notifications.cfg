\* Two servers of one account share a queue; messages are refused, answers get lost,
\* the bot and the daemon start again.
CONSTANTS
  s1 = s1
  s2 = s2
  a1 = a1
  a2 = a2
  Nobody = Nobody
  Servers <- TwoServers
  Accounts <- OneAccount
  AccountOf <- SameAccount
  Jobs <- AllJobs
  Quiet <- Runs
  MaxChanges = 2
  MaxLosses = 1
SPECIFICATION FairSpec
INVARIANTS
  NotifTypeOK
  StatusChain
  OneProgressPerKind
  MessagesSettle
PROPERTY
  StatusShown
CHECK_DEADLOCK FALSE
