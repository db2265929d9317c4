CONSTANTS
  o1 = o1
  o2 = o2
  o3 = o3
  Objects <- SomeObjects
  MaxFd = 3
  Kinds <- SomeKinds
  Receives <- SomeReceives
  Stdin = TRUE
  Sizes = {1, 2}
  MaxQueue = 1
  Timed = TRUE
  Capacity = 3
  Chunk = 2
  Length = 2
  MaxRequests = 3
SPECIFICATION Spec
SYMMETRY ObjectSymmetry
INVARIANTS
  SocketSafety
  ProxySafety
  HttpSafety
CHECK_DEADLOCK FALSE
