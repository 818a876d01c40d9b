CONSTANTS
  Size = 3
  Programs <- MCPrograms
  Operands <- MCOperands
  Watched = {30}
  MaxDepth = 5
SPECIFICATION Spec
INVARIANTS NeverAborts
CHECK_DEADLOCK FALSE
