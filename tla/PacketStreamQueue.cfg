SPECIFICATION MCSpec
CONSTANTS
  MaxCounter = 4
  MaxArrivals = 4
  RetainedSizes <- MCRetainedSizes
  FecDistances <- MCFecDistances
INVARIANTS
  AcceptedPacketsAccountedFor
PROPERTIES
  GivenOutInOrder
  ImplementsOrderedPlayout
  NothingWaitsForever
  LoneClientIsMixed
  GracePeriodEnds
