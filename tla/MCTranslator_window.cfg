SPECIFICATION Spec
CONSTANTS
  Values = {0, 1}
  Junk = Junk
  Record = Record
  Arith <- MCArith
  Programs <- MCPrograms
CHECK_DEADLOCK FALSE
INVARIANTS
  ArgumentsArrive
  WindowHoldsOperands
  AccIsReadable
  BranchesAgree
