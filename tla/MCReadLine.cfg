CONSTANTS
  Chunk = 2
  Sizes <- SomeSizes
  Timeouts <- WholeSeconds
  Second = 1
  Blocking = FALSE
  Signals = TRUE
  Leftover = {"none", "again", "other"}
  MaxBytes = 4
SPECIFICATION Spec
INVARIANTS
  TypeOK
  StreamIntact
  LinesAreLines
  ClosedMeansDrained
  WaitsNoLonger
