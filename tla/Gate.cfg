SPECIFICATION LifecycleSpec
CONSTANTS
  GateHalf = 3
  Hosts = {"plugin"}
  ServerNames = {"a"}
  JitterFrames = {1, 3}
  FrameLimit = 2
  MaxOperations = 5
INVARIANTS
  GateQuiescesAudio
CHECK_DEADLOCK FALSE
