SPECIFICATION MCSpec
CONSTANTS
  Passwords = {p, q, e}
  Empty = e
  None = None
  Databases = {d}
  SeqModulus = 16
  MaxPipelined = 1
  MaxRows = 1
  MaxStmts = 2
  MaxParams = 2
  MaxChunks = 1
  Arguments <- MCArguments
  Width <- MCWidth
  CloseFails = FALSE
  Null = Null
INVARIANTS
  
  NobodyWaits
  
  SettingsAgree
  StatementsHeld
  ArgsExact
