SPECIFICATION FairSpec
CONSTANTS
  Configs <- FromPosition
  Tags = {"", "a"}
  PosModulus = 64
  MaxFaults = 1
PROPERTIES CloseTerminates
CHECK_DEADLOCK FALSE
