SPECIFICATION Spec
CONSTANTS
  me = me
  None = None
  Me = me
  EndedCapacity = 1
  LogCapacity = 2
  NotableCapacity = 8
  FrameChanSize = 1
  EventChanSize = 2
  FeedSize = 8
  MaxMessages = 4
  MaxViews = 2
INVARIANT ClosesItsGap
CHECK_DEADLOCK FALSE
