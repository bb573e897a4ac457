SPECIFICATION CodecSpec
CONSTANTS
    MaxItems = 3
    Endless = 3
    MaxChunk = 2
INVARIANTS
  ListsAreIgnored
CHECK_DEADLOCK FALSE
