SPECIFICATION FairSpec
CONSTANTS
  Modules = {m1, m2}
  MaxFaults = 2
  MaxEdits = 2
INVARIANTS
  HandsOver
  ConfigGoverns
  OnlyPrivatePaths
PROPERTIES
  Recovers
  LossOfControlEnds
CHECK_DEADLOCK FALSE
