CONSTANTS
  nameX = nameX
  MaxProps = 2
  Addr = {1}
  Strings = {nameX}
  NativeNames = {nameX}
  Half = 2
  NoData = NoData
  Wild = Wild
  HashU64 <- MCHashU64
  HashString <- MCHashString
  InitSize = 4
  GcThreshold = 1
  Constants <- OpsConstants
  MaxStack = 3
  MaxFrames = 2
  MaxRoots = 1
SPECIFICATION OpsSpec
INVARIANTS TypeOK OwnersAreObjects LocalsOwnNothing
PROPERTIES RootsBalanced
CHECK_DEADLOCK FALSE
