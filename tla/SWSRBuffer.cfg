\* Three slots, so that a batch of two can wrap, meet a full buffer and find
\* only its last slot free; the items are told apart by two values.
SPECIFICATION FairSpec
CONSTANTS
  Item = {d1, d2}
  NULL = NULL
  Size = 3
  MaxBatch = 3
  LineEnd = 2
INVARIANTS
  TypeOK
  SlotsHoldQueue
PROPERTIES
  NoOverwrite
  ImplementsFifo
  RefusedThenAccepted
