CONSTANTS
  FrameKinds <- SomeFrames
  MaxCalls = 3
  MaxFrames = 2
SPECIFICATION Spec
INVARIANTS
  WholeFrames
  MessagesReachOne
  ControlAnswered
PROPERTIES
  TimedRecvReturns
  WritesReturn
CHECK_DEADLOCK FALSE
