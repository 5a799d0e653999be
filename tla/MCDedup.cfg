\* The instances, with their bounds, are in MCDedup.tla; these are of the buffers:
\* four structs over two control blocks, so that a buffer is split twice, freed
\* piece by piece by different threads, and its control block used again.
CONSTANTS
  Handles = {"h1", "h2", "h3", "h4"}
  Blocks = {"b1", "b2"}
  MaxSize = 3
SPECIFICATION DedupSpec
\* The encoder can stop where ShutDownInOrder says, and structs stop at MaxSize.
CHECK_DEADLOCK FALSE
INVARIANTS
  OutputDecodable
  ShutDownInOrder
  FarmedOutputDecodable
  BuffersSafe
PROPERTIES
  EncodeReturns
