CONSTANTS
  nameX = nameX
  MaxProps = 2
  Addr = {1, 2, 3}
  Strings = {nameX}
  NativeNames = {}
  Half = 1
  NoData = NoData
  Wild = Wild
  HashU64 <- MCHashU64
  HashString <- MCHashString
  InitSize = 4
  GcThreshold = 0
  Constants <- HeapConstants
  MaxStack = 3
  MaxFrames = 0
  MaxRoots = 0
SPECIFICATION HeapSpec
INVARIANTS RootsCover AllocationsExact OwnersAreObjects
PROPERTIES RootsBalanced HeldSurvive SweepKeepsList
CHECK_DEADLOCK FALSE
