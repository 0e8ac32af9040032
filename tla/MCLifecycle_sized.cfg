SPECIFICATION Spec
CONSTANTS
  Modules = {m1, m2}
  MaxFaults = 0
  MaxEdits = 0
PROPERTY SizingKeepsModules
CHECK_DEADLOCK FALSE
