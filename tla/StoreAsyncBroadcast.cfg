CONSTANTS
  c1 = c1
  c2 = c2
  g1 = g1
  g2 = g2
  none = none
  py = py
  broker = broker
  CHANNEL_BUFFER_SIZE = 1
  Conns <- TwoConns
  Groups <- OneGroup
  NoGroup = none
  DefaultGroup <- AllInG1
  Broadcasters <- GilAndBroker
  Python = py
  GroupLists <- OneList
  Callers <- OnlyC1
  Api <- Broadcasting
  Threads <- AllThreads
  Stalled <- Nobody
  MaxMsg = 2
SPECIFICATION Spec
INVARIANTS
  BroadcastNeverAborts
CHECK_DEADLOCK FALSE
