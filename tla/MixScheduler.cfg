SPECIFICATION Spec
CONSTANTS
  NumClients = 2
  FirstCounter = 2
  MaxCounter = 4
  MaxArrivals = 5
  MaxTicks = 1
  MaxTime = 1
  Jitter = 1
  Maximum = 2
  Prefill = 1
  Grace = 1
  CounterModulus = 64
INVARIANTS
  UnderrunIsReal
  ReconnectIsHeard
  MixIsComplete
  JitterReserveKept
  LatencyBounded
  PrefillLasts
