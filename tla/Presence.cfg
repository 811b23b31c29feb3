\* Detector, sensors and threshold, five scenarios.
SPECIFICATION Spec
CONSTANTS
  Window = 2
  Scale = 2
  Unit = 2
  SmoothWindow = 3
  SmoothEnter = 2
  SmoothExit = 3
  WarmUp = 1
  PublishRate = 2
  MaxOf <- MCMaxOf
  HoldMax = 2
  StuckLimit = 2
  StuckRaiseMax = 1
  OffDelay = 2
  Wrap = 3
  Scenarios <- MCScenarios
INVARIANTS
  RunningMatchesWindow
  HoldIsBounded
PROPERTIES
  TransitionsApart
  QuietRoomClears
