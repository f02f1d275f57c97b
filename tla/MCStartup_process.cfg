SPECIFICATION FairSpec
CONSTANTS
  m_io_thread_num = 2
INVARIANTS IOThreadsReady 
PROPERTY EndsUnlessLost
CHECK_DEADLOCK FALSE
