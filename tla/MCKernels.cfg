\* The instances, with their bounds, are in MCKernels.tla; these are of the farm of
\* canneal: three workers that may converge.
CONSTANTS
  NWorkers = 3
  Moves = 1
  Converging = TRUE
  _number_temp_steps = 2
  MaxSteps = 2
SPECIFICATION KernelsSpec
\* The kernels end.
CHECK_DEADLOCK FALSE
INVARIANTS
  JudgedAtRest
  CostsAreExact
  SearchesAgree
  FluidExact
  QueriesMatched
  MiningIsExact
PROPERTIES
  ImplementsAnnealing
  AnnealsInLockstep
  KernelsEnd
