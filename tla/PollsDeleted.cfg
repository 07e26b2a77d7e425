\* A second request for a poll whose message was deleted.
CONSTANTS
  k1 = k1
  t1 = t1
  t2 = t2
  Keys <- OneKey
  Tasks <- TwoTasks
  Members = 2
  MaxPolls = 2
  MaxUnvotes = 0
  MaxFaults = 0
  MaxRestarts = 0
SPECIFICATION Spec
PROPERTY
  DeletedPollOverwritten
CHECK_DEADLOCK FALSE
