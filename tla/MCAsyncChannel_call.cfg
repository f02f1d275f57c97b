SPECIFICATION FairSpec
CONSTANTS
  m_size = 3
  Home = 1
  MaxBlocks = 2
INVARIANTS ClosureBeforeReturn HeldWhileCalled SafeAtHome
PROPERTY WaitReturns
CHECK_DEADLOCK FALSE
