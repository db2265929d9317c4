CONSTANTS
  Chunk = 2
  Sizes <- AnyOrTwo
  Timeouts <- HalfASecond
  Second = 2
  Blocking = TRUE
  Signals = FALSE
  Leftover = {"none"}
  MaxBytes = 2
SPECIFICATION Spec
INVARIANT WaitsNoLonger
