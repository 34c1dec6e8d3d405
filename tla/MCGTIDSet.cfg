CONSTANTS
  Sids = {1, 2}
  Tags = {0, 1}
  MaxGno = 3
  ByteBase = 2
  Strings <- MCStrings
  MariaStrings <- MCMariaStrings
  Failed = Failed
SPECIFICATION Spec
INVARIANTS
  SetWellFormed
  ContainExact
  RoundTrip
PROPERTIES
  UpdateExact
