CONSTANTS
  t1 = t1
  t2 = t2
  Modulus = 16
  Shift = 8
  First = 205
  Second = 83
  xor <- MCXor
  Tasks <- MCTasks
  Ptrs <- MCPtrs
  Inos <- MCInos
  Free = Free
  TaintCap = 1
  MaxFiles = 2
SPECIFICATION Spec
SYMMETRY TaskSymmetry
INVARIANTS
  NoWrongKill
  TaintIsComplete
  OnlyTwinsCollide
CHECK_DEADLOCK FALSE
