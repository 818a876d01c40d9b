CONSTANTS
  nameX = nameX
  MaxProps = 1
  Addr = {1, 2, 3}
  Strings = {nameX}
  NativeNames = {}
  Half = 1
  NoData = NoData
  Wild = Wild
  HashU64 <- MCHashU64
  HashString <- MCHashString
  InitSize = 4
  GcThreshold = 1
  Constants <- MCConstants
  MaxStack = 3
  MaxFrames = 0
  MaxRoots = 1
SPECIFICATION ShapingSpec
INVARIANTS MarksCleared
PROPERTIES IsAtomic CollectionEnds
CHECK_DEADLOCK FALSE
