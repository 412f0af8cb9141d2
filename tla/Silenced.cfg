SPECIFICATION MCSpec
CONSTANTS
  GateHalf = 3
  Hosts = {"app", "plugin"}
  ServerNames = {"a"}
  JitterFrames = {1, 3}
  FrameLimit = 2
  MaxOperations = 4
  MaxSenders = 2
  MaxFrames = 3
  FrameLength = 4
  PulseSamples = 6
  ClockTempos <- MCClockTempos
  MaximumPulses = 2
  MidiQueueCapacity = 2
  Targets = {"local", "master"}
  RecordingQueueCapacity = 2
  MaxRecordings = 2
  MaxBlocks = 4
  MaxRefusals = 1
  Selections = {0, 1, 2}
  BufferLists <- MCBufferLists
  Preferred = 2
  MaxPresses = 4
  Members = {"a", "b"}
  Tempos = {1, 2}
  InitialBpm = 2
  MaxMoves = 1
  MaxInFlight = 1
  DeviceChannels = 2
  Setups <- MCSetups
  ChunkSizes = {1, 3}
  FrameSamples = 2
  IngestCapacity = 4
  FrameCapacity = 1
  CommandCapacity = 2
  MaxCommands = 3
  MaxSetups = 2
  MaxChunks = 4
  Addresses <- MCAddresses
  LegacyClients = {"b"}
  ChannelSetups <- MCChannelSetups
  BlockSamples = 2
  FecRingSize = 2
  InfoPeriod = 2
  MaxMixes = 3
  MaxQueued = 0
  MaxChanges = 2
  fallbackPayloadBytes = 16
  growthTargets <- MCGrowthTargets
  maximumAttempts = 2
  PathLimits <- MCPathLimits
  MaxSearches = 2
  SendCapacity = 3
  MaxBatch = 2
  MaxTicks = 3
  StopTurns = 3
  Focuses = {"mix"}
INVARIANTS
  ArrivedIsHeard
CHECK_DEADLOCK FALSE
