\* Two threads on each side and rings of two around a queue of two: batches are
\* cut short, both conditions are waited on by two threads at once, and the
\* last items leave from rings that are not full.
SPECIFICATION FairSpec
CONSTANTS
  Producers = {p1, p2}
  Consumers = {c1, c2}
  Size = 2
  Insert = 2
  Fetch = 1
  Items = 3
INVARIANTS
  TypeOK
  ItemsDelivered
  WakeupsSuffice
  LeavesWhenDrained
  AssertionsHold
PROPERTIES
  AllFinish
