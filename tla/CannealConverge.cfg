SPECIFICATION FairSpec
CONSTANTS
  Threads = {t1, t2}
  Moves = 1
  Converging = TRUE
  number_temp_steps = 0
  MaxSteps = 2
CHECK_DEADLOCK FALSE
PROPERTIES AllEnd
