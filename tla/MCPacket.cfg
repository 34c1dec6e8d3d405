CONSTANTS
  MaxPayloadLen = 7
  SeqModulus = 4
  BufSize = 3
  MinCompressionLength = 3
  Lengths <- MCLengths
  MaxAnswer = 2
  MaxFrames = 3
  RawAnywhere = FALSE
SPECIFICATION Spec

  
PROPERTIES
  ChannelSpec
  AllReceived
CHECK_DEADLOCK FALSE
