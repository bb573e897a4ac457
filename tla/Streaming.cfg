SPECIFICATION FairSpec
CONSTANTS
    Caller = {c1, c2}
    Version = {1, 2}
    Modulus = 3
    BacklogSize = 2
    Compensate = 1
    Latency = 1
    Length = {2}
    Size = 8
    BUFFER_SIZE = 5
    HEADROOM_SIZE = 3
    BLOCK_SIZE = 2
    Intervals = {0, 2, 3}
    MaxRead = 3
    MaxSeeks = 3
    Total = 11
    CHUNK_SIZE = 3
    PacketSize = 4
    AudioBufferSize = 6
    MaxPollers = 2
    MaxRevision = 2
    MaxStreams = 2
    MaxVolumes = 1
    MaxErrors = 1
INVARIANTS
  
  LostIsResent
  
  SessionIsKept
PROPERTIES
  
  NothingMissed
\* After a takeover that raised nobody can stream any more, and a source that
\* is closed or a protocol that is does nothing.
CHECK_DEADLOCK FALSE
