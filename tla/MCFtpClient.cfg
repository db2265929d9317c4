CONSTANTS
  Modes = {"passive", "active"}
  MaxPending = 1
SPECIFICATION FairSpec
INVARIANTS
  TypeOK
  OwnReplies
  DataClosed
  RaisesForAReason
PROPERTY CallsReturn
CHECK_DEADLOCK FALSE
