\* Two requests about one mod, two tasks, and a call that fails.
CONSTANTS
  k1 = k1
  t1 = t1
  t2 = t2
  Keys <- OneKey
  Tasks <- TwoTasks
  Members = 1
  MaxPolls = 2
  MaxUnvotes = 0
  MaxFaults = 1
  MaxRestarts = 1
SYMMETRY TaskSymmetry
SPECIFICATION Spec
INVARIANTS
  PollsTypeOK
  AppliedOnce
  TrackedHasFile
  ForgottenOnlyByOverlap
CHECK_DEADLOCK FALSE
