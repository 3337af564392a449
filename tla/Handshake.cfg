CONSTANTS
  r1 = r1
  r2 = r2
  graphql = graphql
  NoProtocol = none
  Requests <- TwoRequests
  Kinds <- SomeKinds
  Protocols <- OneProtocol
  MaxRoutes = 2
SPECIFICATION FairSpec
INVARIANTS
  AdmittedAsKnown
  BeforeDecides
PROPERTIES
  RequestsAreAnswered
  Admits
CHECK_DEADLOCK FALSE
