\* The other instances, with their bounds, are in MCTasks.tla.  Two threads free
\* what the owner allocates, two buffers a segment.
CONSTANTS
  Owner = "owner"
  Threads = {"owner", "a", "b"}
  nslabs = 2
  Prealloc = FALSE
  MIN_FB_CAPACITY = 3
  MaxGets = 3
SPECIFICATION TasksSpec
INVARIANTS
  LoopExactlyOnce
  DataFlowRespected
  BuffersReturn
PROPERTIES
  TasksEnd
