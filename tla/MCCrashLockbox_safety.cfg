CONSTANTS
  k1 = k1
  k2 = k2
  k3 = k3
  k4 = k4
  h1 = h1
  h2 = h2
  Crashes <- MCCrashes
  Handlers <- MCHandlers
  File = File
  Nobody = Nobody
  QueueCap = 2
SPECIFICATION Spec
SYMMETRY CrashSymmetry
INVARIANTS
  LeaksAreAccounted
  TokensConsumedOnce
  DumpsExplained
CHECK_DEADLOCK FALSE
