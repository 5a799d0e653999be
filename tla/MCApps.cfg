\* The other instances, with their bounds, are in MCApps.tla.  Three threads with
\* three calls each on a Windows event that NotifyAll alone sets.
CONSTANTS
  Threads = {"t1", "t2", "t3"}
  Calls = 3
  Generations = TRUE
  NotifiesOne = FALSE
SPECIFICATION AppsSpec
\* Threads have no calls left, or the run is over.
CHECK_DEADLOCK FALSE
INVARIANTS
  WakeupsReachWaiters
  RoundsAreWhole
  RunIsComplete
PROPERTIES
  WaitsEnd
