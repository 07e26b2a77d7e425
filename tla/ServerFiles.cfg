\* Three mods under one name, with failing system calls and a crash.
CONSTANTS
  m1 = m1
  m2 = m2
  m3 = m3
  NoMod = NoMod
  Mods <- ThreeMods
  Names <- OneName
  MaxFaults = 3
  MaxCrashes = 1
SYMMETRY ModSymmetry
SPECIFICATION Spec
INVARIANTS
  FilesTypeOK
  WholeCopySomewhere
  MemoryHonest
  NoModTwice
CHECK_DEADLOCK FALSE
