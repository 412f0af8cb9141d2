SPECIFICATION LifecycleSpec
CONSTANTS
  GateHalf = 3
  Hosts = {"app", "plugin"}
  ServerNames = {"a"}
  JitterFrames = {1, 3}
  FrameLimit = 2
  MaxOperations = 4
INVARIANTS
  NetworkOutlivesWorkers
CHECK_DEADLOCK FALSE
