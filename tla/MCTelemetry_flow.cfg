CONSTANTS
  c1 = c1
  c2 = c2
  m1 = m1
  t1 = t1
  t2 = t2
  Clients <- MCClients
  Registry <- MCRegistry
  Names <- MCRegistry
  NoName = NoName
  NoClient = NoClient
  ChannelCap = 1
  DrainMax = 1
  Tasks <- MCTasks
  RingCap = 1
SPECIFICATION TFairSpec
INVARIANTS
  DropsAreExcused
PROPERTY RecordsConsumed
CHECK_DEADLOCK FALSE
