SPECIFICATION FairSpec
CONSTANTS
  e1 = e1
  e2 = e2
  loop = loop
  other = other
  Events <- TwoEvents
  m_interval <- TwoIntervals
  Repeated <- OnlyE1
  Loop = loop
  Others <- OneOther
  Calls = {"add", "del", "cancel", "cancelRepeated"}
  MaxTime = 3
INVARIANTS  OneShotOnce DeletedIsGone
PROPERTY DueEventsRunUnlessMissed
CHECK_DEADLOCK FALSE
