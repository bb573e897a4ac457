SPECIFICATION FramingSpec
CONSTANTS
  FRAME_LENGTH = 2
  AUTH_TAG_LENGTH = 1
  Base = 3
  MaxMessages = 2
  MaxSize = 3
INVARIANTS
  SplitAnywhere
CHECK_DEADLOCK FALSE
