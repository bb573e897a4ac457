SPECIFICATION Spec
CONSTANTS
  MaxFromClient = 3
  MaxEvents = 1
  MaxNear = 2
  MaxFar = 2
  Stream = {"left", "right"}
  MaxRequests = 4
  MaxRecords = 4
  ByteRange = 8
  MaxSent = 3
  MaxItems = 4
  Endless = 3
  MaxChunk = 2
INVARIANTS
  
  ServersAreWanted
  ChannelInOrder
  
  EachIsAnswered
  ReadAsWritten
CHECK_DEADLOCK FALSE
