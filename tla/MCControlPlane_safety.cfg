CONSTANTS
  c1 = c1
  c2 = c2
  c3 = c3
  m1 = m1
  m2 = m2
  ghost = ghost
  Clients <- MCClients3
  Registry <- MCRegistry1
  Names <- MCRegistry1
  NoName = NoName
  NoClient = NoClient
  ChannelCap = 2
  DrainMax = 1
SPECIFICATION Spec
SYMMETRY ClientSymmetry
INVARIANTS
  TypeOK
  StateSync
  LastAckGoverns
  BacklogIsAbandoned
PROPERTIES
  ImplementsSwitchboard
  ToggleIsRequested
CHECK_DEADLOCK FALSE
