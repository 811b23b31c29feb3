SPECIFICATION FairSpec
CONSTANTS
  NumControllers = 1
  ReadKeys <- MCRead
  WriteKeys <- MCWrite
  CustomKeys = {}
  OversizeKeys = {}
  SplitKeys = {}
  Payloads <- MCPayloads
  BlockingPayloads <- MCPayloads
  NoPayload = "empty"
  UserCommands <- Writes
  NumRanges = 2
  RangeCommand <- MCRangeCommand
  SkipUpdates <- MCSkipUpdates
  OfflineSkip = 1
  MaxRetries = 1
  CountModulus = 4
  AllowDuplicates = FALSE
  MaxQueue = 4
  NoRequest = NoRequest
INVARIANTS
  OnlineReplyBelongsToFront
PROPERTIES
  QueueDrains
  RangesKeepBeingPolled
