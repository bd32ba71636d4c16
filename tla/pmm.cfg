CONSTANTS
  ADDRESS_FRAMES = 16
  WORD_BITS = 3
  Ranges <- SmallRanges
  Never <- NoRequest
SPECIFICATION Spec
INVARIANTS TypeOK BitmapMatchesHeld CounterMatchesBitmap
PROPERTIES PoolImplemented
