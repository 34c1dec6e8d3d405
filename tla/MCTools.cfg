SPECIFICATION MCSpec
CHECK_DEADLOCK FALSE
CONSTANTS
  BufSize = 1
  Rows = 3
  Calls = {k1, k2}
  NConns = 2
  Background = Background
  BkFiles = 2
  BkEvents = 2
  BkBreaks = 2
  BkCache = 2
  DumpRows = 2
  StdoutCap = 2
  StringChars <- MCChars
  MaxString = 2
  MaxValues = 2
  RowKeys <- Keys
  RowValues <- Vals
  Absent = "absent"
  MaxLogged = 2
  FbTables <- Tabs
  FbStart <- MCStart
  TableIds = {1, 2}
  NewName <- MCNewName
  CacheSize = 2
  CreateFails = {TRUE, FALSE}
  FbCases <- MCCases
  Parts = {"stream", "driver", "backup", "dump", "values", "undo", "flashback"}
INVARIANTS
  
  WatchesOwner
  BadConnContained
  BackupExact
  DumpExact
  DumpedRowExact
  
  
  

  
