CONSTANTS
  Fd = {f1, f2, f3}
  Event = {in}
  Unmasked = {}
  Iter = {i1, i2}
  NoEvent = NoEvent
  InitialSize = 1
SYMMETRY Symmetry
SPECIFICATION Spec
INVARIANTS
  TypeOK
  OneEntryPerDescriptor
  ToldIsPassed
  NothingMissed
PROPERTY ImplementsPollSet
