SPECIFICATION Spec
CONSTANTS
  c1 = c1
  c2 = c2
  t1 = t1
  t2 = t2
  Callers <- TwoCallers
  Tasks <- TwoTasks
  Fds = {1, 3, 4}
  CorFds = {}
  CallbackFds = {3, 4}
  TimerFd <- Timer
  ForeignFds = {4}
  ReactorTypes <- OnlyMain
  LoopCalls = {"addTask", "addEvent", "delEvent", "stop"}
  MaxCallbacks = 1
  MaxDels = 1
SYMMETRY CallerSymmetry
INVARIANTS NoLostWakeup 
PROPERTY ImplementsExecutor
CHECK_DEADLOCK FALSE
