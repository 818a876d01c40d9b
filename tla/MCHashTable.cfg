CONSTANTS
  InitSize = 4
  ZeroKey = 0
  ZeroValue = 0
  Hash <- MCHash
  Eq <- MCEq
  Keys = {0, 2, 6, 7}
  Vals = {1, 2}
  TestKeys = {0, 2, 7}
  TestVals = {1}
  MaxSize = 8
SPECIFICATION Spec
INVARIANTS LookupsReturn EntriesReachable CountExact
PROPERTIES IsMap NoKeyLost
CHECK_DEADLOCK FALSE
