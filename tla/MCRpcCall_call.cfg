SPECIFICATION Spec
CONSTANTS
  t1 = t1
  t2 = t2
  Threads <- MCThreads
  Home = t1
  Fds <- MCFds
  MaxOthers = 1
  MaxQueued = 1
  MaxDisturbances = 2
INVARIANTS UsesItsOwn NothingLeft  WaitsWithTimer
CHECK_DEADLOCK FALSE
