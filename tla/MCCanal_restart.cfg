SPECIFICATION Spec
CONSTANTS
  A = A
  B = B
  X = X
  Setups <- RestartSetups
  Tables <- AllTables
  Excluded <- OneExcluded
  MaxStarts = 2
  MaxCalls = 1
INVARIANTS
  NoRowLost
  CaughtUp
  CanalConsistent
PROPERTIES
  RowSchemaFresh
CHECK_DEADLOCK FALSE
