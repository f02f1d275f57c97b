SPECIFICATION PoolSpec
CONSTANTS
  u1 = u1
  u2 = u2
  u3 = u3
  Borrowers <- ThreeBorrowers
  m_cor_pool_size = 2
  MaxPools = 3
SYMMETRY BorrowerSymmetry
INVARIANTS ExclusiveStack RefCountsBlocks EveryBlockHeld
CHECK_DEADLOCK FALSE
