SPECIFICATION Spec
CONSTANTS
  A = A
  B = B
  X = X
  Setups <- BeginSetups
  Tables <- AllTables
  Excluded <- OneExcluded
  MaxStarts = 2
  MaxCalls = 1
INVARIANT NoRowLost
CHECK_DEADLOCK FALSE
