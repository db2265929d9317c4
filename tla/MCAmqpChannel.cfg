CONSTANTS
  Handle = {h1, h2}
  NoHandle = NoHandle
  MaxId = 3
  ChannelMaxes = {2, 3}
  Heartbeat = TRUE
  MaxTime = 1
  MaxConnections = 2
SYMMETRY Symmetry
SPECIFICATION Spec
INVARIANTS
  TypeOK
  StatusMatchesState
  ScanLeavesBitmapOnlyWhenFull
  BitmapMatchesServer
  NoticeMatchesChannel
  OldObjectNeedsSameSecond
  BlockedOnClosingChannel
CHECK_DEADLOCK FALSE
