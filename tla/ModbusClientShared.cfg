\* Two controllers on one transport; the switch also queues a custom command,
\* writes are too long to be sent, and the range's reply takes two reads.
SPECIFICATION Spec
CONSTANTS
  NumControllers = 2
  ReadKeys <- MCRead
  WriteKeys <- MCWrite
  CustomKeys = {"x1"}
  OversizeKeys = {"w1"}
  SplitKeys = {"r1"}
  Payloads <- MCPayloads
  BlockingPayloads = {"p1"}
  NoPayload = "empty"
  UserCommands <- CustomOverlap
  NumRanges = 1
  RangeCommand <- MCOneRange
  SkipUpdates <- MCNoSkip
  OfflineSkip = 1
  MaxRetries = 1
  CountModulus = 4
  AllowDuplicates = FALSE
  MaxQueue = 3
  NoRequest = NoRequest
INVARIANTS
  NoDuplicates
  OnlineSkipsAsConfigured
