\* The instances, with their bounds, are in MCRuntime.tla; these are of the
\* ordered farm: two runs, and after the first the owner wakes two workers or all.
CONSTANTS
  NWorkers = 3
  Subsets = {2, 3}
  Size = 2
  NTasks = 7
  Rounds = 2
SPECIFICATION RuntimeSpec
\* Users stop asking at the bounds, and a farm stays frozen after its last run.
CHECK_DEADLOCK FALSE
INVARIANTS
  QueuesHoldItems
  SpinningIsSafe
  RunsAndRests
  NobodySleepsThrough
  FrozenFarmIsEmpty
PROPERTIES
  InArrivalOrder
  NobodyHangs
