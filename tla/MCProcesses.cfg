CONSTANTS
  a1 = a1
  a2 = a2
  b1 = b1
  b2 = b2
  l3 = l3
  Timed = TRUE
  Traps = FALSE
  MaxWrites = 3
  Capacity = 2
  Signals <- SomeProcesses
  Handlers <- SomeHandlers
  ErrorValue = ErrorValue
  MaxRefs = 2
  Processes <- SomeProcesses
  SemMax = 1
  NSems = 1
  OpSets <- SomeOpSets
  SetValues = {1}
  UShort = 8
  MaxSets = 1
  Size = 2
  Word = 8
  Lengths <- SomeLengths
  MaxMade = 2
  Descriptions <- SomeHandlers
  Second = 3
  Timeouts <- SomeTimeouts
  Forks = TRUE
  MaxMsg = 1
  Loops <- SomeLoops
  DirStreams = {"s1", "s2"}
  N = 2
  Matching = {2}
  MaxMet = 3
SPECIFICATION Spec
SYMMETRY NameSymmetry
INVARIANTS
  ShellSafety
  SignalSafety
  SemaphoreSafety
  MemorySafety
  PosixSafety
  ListingSafety
CHECK_DEADLOCK FALSE
