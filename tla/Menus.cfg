CONSTANTS
  s1 = s1
  s2 = s2
  m1 = m1
  forge = forge
  msg1 = msg1
  Servers <- TwoServers
  Mods <- TwoMods
  ReservedMods = {forge}
  File = File
  Slots <- OneMessage
  MaxPage = 1
  MaxPresses = 5
  MaxRestarts = 1
  None = None
SPECIFICATION Spec
SYMMETRY Symmetry
INVARIANTS
  MenusWellFormed
  ButtonsMean
  CommandsAreMeant
\* Presses are bounded.
CHECK_DEADLOCK FALSE
