\* Two writers, two values, two failing calls and two crashes.
CONSTANTS
  wishes = wishes
  polls = polls
  v0 = v0
  v1 = v1
  Writers <- TwoWriters
  Values <- TwoValues
  Default = v0
  Nobody = Nobody
  Torn = Torn
  Absent = Absent
  Unsure = Unsure
  MaxFaults = 2
  MaxCrashes = 2
SPECIFICATION Spec
INVARIANTS
  ConfigTypeOK
  ReadersSeeDurable
  PromisesKept
PROPERTY
  ImplementsAtomicConfig
CHECK_DEADLOCK FALSE
