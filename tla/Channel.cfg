CONSTANTS
  h1 = h1
  h2 = h2
  Handles <- MCHandles
  Word = 2
  RollCapacity = 4
  TimelineCapacity = 2
  Sizes <- MCSizes
  AddressSpace = 32
  FrameSizes <- MCFrameSizes
  Bases <- ApartBases
  MaxRolls = 3
  ReuseShrunk = FALSE
  RetryFailed = FALSE
SYMMETRY SymmetricHandles
SPECIFICATION Spec
INVARIANTS NoOverlap SpansBacked EntriesPinpoint SlotsAligned
CHECK_DEADLOCK FALSE
