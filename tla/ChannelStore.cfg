CONSTANTS
  c1 = c1
  c2 = c2
  g1 = g1
  g2 = g2
  none = none
  py = py
  broker = broker
  CHANNEL_BUFFER_SIZE = 1
  Conns <- TwoConns
  Groups <- TwoGroups
  NoGroup = none
  DefaultGroup <- MixedDefaults
  Broadcasters <- GilAndBroker
  Python = py
  GroupLists <- BothLists
  Callers <- OnlyC1
  Api <- Membership
  Threads <- Worker
  Stalled <- Nobody
  MaxMsg = 1
SPECIFICATION Spec
INVARIANTS
  TypeOK
  OwnEntry
  MembersHaveSenders
  DeadMembersJoinedLate
  StableMembersAreHit
  NothingLostWhileOpen
PROPERTIES
  RemovedIsNotHit
CHECK_DEADLOCK FALSE
