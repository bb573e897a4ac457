SPECIFICATION InputSpec
CONSTANTS
    Size = 8
    BUFFER_SIZE = 5
    HEADROOM_SIZE = 3
    BLOCK_SIZE = 2
    Intervals = {0, 2, 3}
    MaxRead = 3
    MaxSeeks = 3
INVARIANTS
  NothingIsSkipped
\* A source that is read to its end does nothing.
CHECK_DEADLOCK FALSE
