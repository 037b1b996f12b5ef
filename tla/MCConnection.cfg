SPECIFICATION FairSpec
CONSTANTS
  me = me
  None = None
  Me = me
  EndedCapacity = 1
  LogCapacity = 1
  NotableCapacity = 1
  FrameChanSize = 1
  EventChanSize = 1
  FeedSize = 1
  MaxMessages = 3
  MaxViews = 1
INVARIANTS TypeOK NothingSentIsDropped RowIsCurrent
PROPERTY GoroutinesEnd
CHECK_DEADLOCK FALSE
