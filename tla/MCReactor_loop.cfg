SPECIFICATION FairSpec
CONSTANTS
  c1 = c1
  c2 = c2
  t1 = t1
  t2 = t2
  Callers <- OneCaller
  Tasks <- OneTask
  Fds = {1, 3, 5, 6}
  CorFds = {5, 6}
  CallbackFds = {3}
  TimerFd <- Timer
  ForeignFds = {}
  ReactorTypes <- BothTypes
  LoopCalls = {"addTask", "addEvent", "coroutine", "stop"}
  MaxCallbacks = 1
  MaxDels = 0
 
PROPERTIES TaskEventuallyRuns StopEndsLoop
CHECK_DEADLOCK FALSE
