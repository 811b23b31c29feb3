\* Bytes of two bits; six subcarriers, three of them usable; frames of eight samples.
SPECIFICATION Calculating
CONSTANTS
  ByteBits = 2
  BitAnd <- MCAnd
  ByteWrap = 8
  MaxValues = 4
  AddressWrap = 8
  UnitId = 1
  MaxWritten = 6
  Tables <- MCTables
  Configurations <- MCConfigurations
  Asks <- MCAsks
  RegisterLists <- MCRegisterLists
  ServedWrites <- MCServedWrites
  NumSubcarriers = 6
  MvsWindow = 2
  ChunkPackets = 4
  HampelThreshold = 1
  AdaptivePercentile = 50
  AcceptablePercent = 5
  Spread <- MCSpread
  GuardLow = 0
  GuardHigh = 4
  DC = 3
  BandSize = 2
  TopCount = 1
  MinSpacing = 1
  NullMagnitude = 1
  WindowSize = 3
  WindowStep = 1
  WindowPercentile = 30
  GatePercentile = 15
  Slack = 3
  Deviation <- MCDeviation
  Entropy <- MCEntropy
  Score <- MCScore
  Recordings <- MCRecordings
  FullLength = 8
  ShortLength = 5
  LeftPad = 2
  LeastLength = 3
  MaxExtraPeers = 2
  Frames <- MCFrames
  PeerFilters <- MCPeerFilters
  Servers <- MCServers
  Cards <- MCCards
  Chunks <- MCChunks
INVARIANTS
  EverySensorReadsItsRegister
  SwitchReachesItsCell
  LoopbackKeepsPromise
  WrittenRegistersReadBack
  BestBandIsChosen
  BaselineDescribesBand
  EveryToneInItsPlace
  LinksLeadBack
CHECK_DEADLOCK FALSE
