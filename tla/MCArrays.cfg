CONSTANTS
  BlockSize = 6
  U64 = 64
  InitSize = 2
  Junk = Junk
  Vals = {1, 2}
  Requests = {7}
  Bodies <- MCBodies
  MaxCount = 4
  MaxBlocks = 2
  WordSize = 2
  Bits = {0, 1, 3, 4}
SPECIFICATION Spec
INVARIANTS RegionsApart FailuresKnown ListExact
PROPERTIES IsList IsBitset CallsReturn
CHECK_DEADLOCK FALSE
