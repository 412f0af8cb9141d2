SPECIFICATION FairSpec
CONSTANTS
  NumClients = 2
  FirstCounter = 2
  MaxCounter = 3
  MaxArrivals = 4
  MaxTicks = 1
  MaxTime = 0
  Jitter = 1
  Maximum = 2
  Prefill = 1
  Grace = 1
  CounterModulus = 64
PROPERTIES
  MixingContinuesAtMaximum
