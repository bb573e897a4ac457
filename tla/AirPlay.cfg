SPECIFICATION Spec
CONSTANTS
  Call = {p1, p2}
  None = None
  Other = Other
  PLAY_RETRIES = 2
  WAIT_RETRIES = 1
  EVENT_RETRIES = 2
  HEARTBEAT_RETRIES = 1
  PIN_CODE = "1111"
  Pins = {"1111", "2222"}
  MaxBegins = 2
  MaxFinishes = 3
  MaxConnects = 2
  FRAME_LENGTH = 2
  AUTH_TAG_LENGTH = 1
  Base = 3
  MaxMessages = 2
  MaxSize = 3
INVARIANTS
  
  PairingHolds
  StreamIsRestored
PROPERTIES
  PlayEnds
  DeadTunnelComesDown
CHECK_DEADLOCK FALSE
