SPECIFICATION FairSpec
CONSTANTS
  timer = timer
  other = other
  Flushers <- TimerAndOther
  Exiting <- TimerAndOther
  m_max_size = 0
  MaxLines = 3
  MaxDate = 2
  MaxNo = 2
  MaxStarts = 2
INVARIANTS EachLineOnce LinesInOrder
PROPERTY EveryLineWritten
CHECK_DEADLOCK FALSE
