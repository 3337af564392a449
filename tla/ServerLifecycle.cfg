CONSTANTS
  s1 = s1
  s2 = s2
  Listeners <- TwoRuns
  Malformed <- FirstIs
  MaxPublished = 2
  EarlierStops = 1
  MaxStops = 1
  MaxFailures = 1
SPECIFICATION Spec
INVARIANTS
  StopReachesListener
  TwinsAreLeftovers
  SubscribersMissNothing
PROPERTIES
  DeliversAsTopic
  ListenersEnd
CHECK_DEADLOCK FALSE
