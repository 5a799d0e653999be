SPECIFICATION Spec
CONSTANTS
  Inputs <- FourAnchors
  NThreads = 2
  PerQueue = 2
  QueueSize = 2
  MaxPerFetch = 2
  AnchorMax = 1
INVARIANTS
  AnchorsInBounds
