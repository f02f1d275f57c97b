SPECIFICATION FairSpec
CONSTANTS
  MaxConns = 3
  Fds <- TwoFds
  m_size = 2
  m_bucket_count = 2
  WheelTurns = TRUE
  MaxTasks = 1
INVARIANTS DestroyedOnceClosed  OwnDescriptor
PROPERTIES  ClosedAreCollected
CHECK_DEADLOCK FALSE
