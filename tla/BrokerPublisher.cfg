CONSTANTS
  s1 = s1
  c1 = c1
  c2 = c2
  Listeners <- OneServer
  Malformed = {}
  MaxPublished = 3
  EarlierStops = 0
  MaxStops = 0
  MaxFailures = 1
  Kinds <- BothKinds
  Threads <- OneThread
  Workers = {}
  Tasks <- OneTask
  MaxCalls = 3
  MaxSetups = 1
SPECIFICATION Spec
INVARIANTS
  OneLiveLink
  PublishedOnce
  OkIsHeard
  RaisesForCause
PROPERTIES
  CallsReturn
CHECK_DEADLOCK FALSE
