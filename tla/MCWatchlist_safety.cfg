CONSTANTS
  w = w
  o = o
  a = a
  b = b
  Inodes <- MCInodes
  Watched = w
  Elsewhere = o
  None = None
  MaxDepth = 2
  MinCapacity = 2
  MaxHooks = 2
  MaxFiles = 1
SPECIFICATION ExecSpec
SYMMETRY InodeSymmetry
INVARIANTS
  CoverageExplained
  OverreachExplained
PROPERTIES
  RunsExplained
CHECK_DEADLOCK FALSE
