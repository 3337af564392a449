CONSTANTS
  c1 = c1
  c2 = c2
  g1 = g1
  none = none
  py = py
  broker = broker
  CHANNEL_BUFFER_SIZE = 2
  Conns <- OneConn
  Groups <- OneGroup
  NoGroup = none
  DefaultGroup <- AllInG1
  Broadcasters <- GilOnly
  Python = py
  GroupLists <- OneList
  Callers <- OneConn
  Api <- Sending
  Threads <- AllThreads
  Stalled <- Nobody
  MaxMsg = 3
  Routes <- MixedRoutes
  MaxFrames = 1
SPECIFICATION HSpec
INVARIANTS
  NothingAfterClose
  FifoUnlessFull
  CloseFlushes
  CallbackOrder
  ServedIsReachable
  DisconnectSkipped
  NothingLostWhileOpen
PROPERTIES
  PeerLeavesRemoved
  CloseEndsConnection
  MailboxReleased
  HitsArrive
CHECK_DEADLOCK FALSE
