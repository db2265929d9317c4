CONSTANTS
  f1 = f1
  f2 = f2
  i1 = i1
  p1 = p1
  p2 = p2
  d1 = d1
  NoEvent = NoEvent
SPECIFICATION Spec
PROPERTIES
  NotStarved
  TimedCallReturnsOrSpins
  EveryCallEnds
CHECK_DEADLOCK FALSE
