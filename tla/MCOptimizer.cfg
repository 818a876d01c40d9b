CONSTANTS
  Size = 5
  Programs <- MCPrograms
  Operands <- MCOperands
  Watched = {30}
  MaxDepth = 5
SPECIFICATION Spec
INVARIANTS KeepsMeaning LabelsResolve
PROPERTIES Ends
CHECK_DEADLOCK FALSE
