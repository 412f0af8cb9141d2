SPECIFICATION MCSpec
CONSTANTS
  MaxCounter = 4
  MaxRequests = 2
  InputCapacity = 2
  OutputCapacity = 3
  MarkerCapacity = 3
  FrameSamples = 2
  BlockSamples = 3
  PlayoutRanges <- MCPlayoutRanges
  Servers = {"new", "old"}
  ServerKey <- MCServerKey
  LegacyServers = {"old"}
  Configurations <- MCConfigurations
  MaxUpdates = 2
  MaxMeanwhile = 1
  MaxLosses = 1
  MaxDatagrams = 2
INVARIANTS
  GenerationIsHonest
  PlayedIsFresh
  MarkersKeepStep
  LatencyBounded
  ControlReachesServer
PROPERTIES
  BufferedIsPlayed
  ClientSettles
CHECK_DEADLOCK FALSE
