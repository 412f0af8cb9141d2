SPECIFICATION ThreadsFairSpec
CONSTANTS
  SendCapacity = 3
  MaxBatch = 1
  MaxTicks = 2
  StopTurns = 3
PROPERTIES
  MixerStopsItself
