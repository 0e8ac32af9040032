CONSTANTS
  p1 = p1
  p2 = p2
  p3 = p3
  CPUs <- MCCPUs
  Window = 1
  Threshold = 2
  Modulus = 8
  MaxTime = 3
  MaxCount = 4
SPECIFICATION Spec
SYMMETRY CPUSymmetry
INVARIANTS
  SpamIsNoticed
  CountIsExact
  NoUndeservedKill
CHECK_DEADLOCK FALSE
