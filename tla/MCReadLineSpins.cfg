CONSTANTS
  Chunk = 2
  Sizes <- AnyOrTwo
  Timeouts <- Timed
  Second = 1
  Blocking = TRUE
  Signals = TRUE
  Leftover = {"none"}
  MaxBytes = 2
SPECIFICATION FairSpec
PROPERTY TimedCallReturns
