CONSTANTS
  Bytes = {0, 1, 2}
  Zero = 0
  Chunks <- MCChunks
  kCheapPrepend = 1
  kInitialSize = 2
  ExtraSize = 2
  MaxReadable = 4
SPECIFICATION Spec
INVARIANT IndInv
PROPERTIES GrowsOnlyWhenFull ImplementsByteQueue
