SPECIFICATION FairConsumerSpec
CONSTANTS
  Configs <- AllConfigs
  Tags = {"", "a"}
  PosModulus = 64
  MaxFaults = 3
INVARIANTS
  
  StreamerExact
PROPERTIES
  
  AckAfterHandOver
  AllDelivered
CHECK_DEADLOCK FALSE
