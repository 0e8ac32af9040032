CONSTANTS
  d = d
  q1 = q1
  q2 = q2
  Pids <- MCPids
  Daemon = d
  Reaper = Reaper
  Window = 1
  PruneAge = 3
  Strikes = 3
  RingCap = 1
  MaxForks = 3
  MaxTime = 4
SPECIFICATION Spec
SYMMETRY PidSymmetry
INVARIANTS
  EradicationJustified
  SpreeIsEradicated
  NoWorkerEscapes
  NoBystander
CHECK_DEADLOCK FALSE
