CONSTANTS
  c1 = c1
  c2 = c2
  c3 = c3
  m1 = m1
  m2 = m2
  ghost = ghost
  Clients <- MCClients2
  Registry <- MCRegistry1
  Names <- MCNames1
  NoName = NoName
  NoClient = NoClient
  ChannelCap = 1
  DrainMax = 1
SPECIFICATION FairSpec
PROPERTIES
  EveryClientServed
  EveryCommandSettled
CHECK_DEADLOCK FALSE
