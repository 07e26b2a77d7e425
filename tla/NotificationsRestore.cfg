\* A restoration, with a bot that keeps asking.
CONSTANTS
  s1 = s1
  s2 = s2
  a1 = a1
  a2 = a2
  Nobody = Nobody
  Servers <- TwoServers
  Accounts <- TwoAccounts
  AccountOf <- OwnAccount
  Jobs <- OnlyRestore
  Quiet <- NoQuiet
  MaxChanges = 1
  MaxLosses = 0
SPECIFICATION FairSpec
PROPERTY
  RestoreCompletes
CHECK_DEADLOCK FALSE
