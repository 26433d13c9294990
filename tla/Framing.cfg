SPECIFICATION FramingSpec
CONSTANTS
  Limit = 11
  ZeroBytes = 1
  AB = 1
  BSpace = 14
  Shapes <- AllShapes
  SentMax = 4
  KeyMax = 1
INVARIANTS FramingTypeOK CachedLength NeverStuck
PROPERTIES FifoSpec
