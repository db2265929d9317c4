CONSTANTS
  Handle = {h1, h2}
  NoHandle = NoHandle
  MaxId = 3
  ChannelMaxes = {2}
  Heartbeat = FALSE
  MaxTime = 1
  MaxConnections = 2
SYMMETRY Symmetry
SPECIFICATION Spec
INVARIANT DocumentedRange
CHECK_DEADLOCK FALSE
