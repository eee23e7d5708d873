SPECIFICATION SpecB
CONSTANTS
  b1 = b1
  b2 = b2
  b3 = b3
  n1 = n1
  n2 = n2
  n3 = n3
  Blocks <- ThreeBlocks
  Nodes <- HeapNodes
  MaxRetries = 3
  MaxRedirects = 3
  MaxOrders = 6
  BufferSize = 2
  Values <- SomeValues
  Documents <- SomeDocuments
  Streams <- SomeStreams
SYMMETRY NodeSymmetry
INVARIANTS
  AllocatesOnlyBlocks
  CancelsLastPlaced
  BookIsReply
\* The process ends: main returns, or an assertion fails.
CHECK_DEADLOCK FALSE
