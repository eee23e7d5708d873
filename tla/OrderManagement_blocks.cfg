SPECIFICATION Spec
CONSTANTS
  b1 = b1
  b2 = b2
  n1 = n1
  n2 = n2
  n3 = n3
  Blocks <- TwoBlocks
  Nodes <- HeapNodes
  MaxRetries = 3
  MaxRedirects = 3
  MaxOrders = 3
SYMMETRY NodeSymmetry
INVARIANTS
  PoolBlocksOnly
\* The process ends when an assertion fails.
CHECK_DEADLOCK FALSE
