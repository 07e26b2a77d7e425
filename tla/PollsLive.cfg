\* One poll and a restart of the bot; every event is delivered.
CONSTANTS
  k1 = k1
  t1 = t1
  t2 = t2
  Keys <- OneKey
  Tasks <- TwoTasks
  Members = 2
  MaxPolls = 1
  MaxUnvotes = 1
  MaxFaults = 0
  MaxRestarts = 1
SPECIFICATION FairSpec
PROPERTY
  PollsResolve
CHECK_DEADLOCK FALSE
