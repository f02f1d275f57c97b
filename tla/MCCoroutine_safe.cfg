SPECIFICATION FairSpec
CONSTANTS
  h1 = h1
  h2 = h2
  p1 = p1
  u1 = u1
  u2 = u2
  Threads <- TwoThreads
  HeapCors <- TwoHeapCors
  PoolCors <- OnePoolCor
  MaxYields = 2
INVARIANTS  CurrentIsExecuting 
 
CHECK_DEADLOCK FALSE
