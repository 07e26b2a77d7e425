SPECIFICATION Spec
CONSTANTS
  Reserved <- MCReserved
  Base <- MCBase
  Jars <- MCJars
  Width = 16
  Sizes = {0, 1, 2, 3}
  Numbers = {0, 1, 2, 5, 7}
  MaxBatch = 2
  MaxTurns = 6
  MaxSkips = 1
  None = None
INVARIANTS
  WalkSeesAll
  AnswersRight
