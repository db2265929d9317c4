CONSTANTS
  a1 = a1
  a2 = a2
  c1 = c1
  l1 = l1
  o1 = o1
  o2 = o2
  NoObject = NoObject
  Plain = Plain
  Bad = Bad
  States = {c1}
  Records <- SomeRecords
  Functions <- SomeFunctions
  Slots = 2
  MaxDepth = 3
  MaxRaises = 2
  Channels = {"a", "b"}
  MaxSent <- SomeMaxSent
  Cursors = {a1, a2}
  Width = 2
  BatchSizes = {2}
  ReportsClosed = TRUE
  MaxRows = 2
  MaxSessions = 2
  MaxFailures = 1
  Names = {"n"}
  Texts = {"t"}
  Attributes = {"v", "w"}
  Leaves = {"data"}
  MaxNodes = 4
  Objects = {o1, o2}
  Handles = {a1, a2}
  Loops = {l1}
  MaxRefs = 2
  MaxArgs = 2
SPECIFICATION Spec
SYMMETRY NameSymmetry
INVARIANTS
  OtlSafety
  PySafety
  ZlogSafety
  FramesSafety
  ReadsBackWhatWasWritten
PROPERTY
  XmlSafety
CONSTRAINT HeapIsSound
CHECK_DEADLOCK FALSE
