CONSTANTS
  r1 = r1
  r2 = r2
  graphql = graphql
  NoProtocol = none
  Requests <- TwoRequests
  Kinds <- SomeKinds
  Protocols <- OneProtocol
  MaxRoutes = 1
SPECIFICATION FairSpec
INVARIANTS
  NoneProceeds
CHECK_DEADLOCK FALSE
