\* pthreads; a work callback may fail.
CONSTANTS
  nthr = 2
  Units = 3
  FastFlow = FALSE
  WorkFails = TRUE
  ProgressFails = FALSE
  CreateFails = FALSE
  MaxTicks = 12
SPECIFICATION Spec
CHECK_DEADLOCK FALSE
INVARIANTS ErrorReturned
