SPECIFICATION MrpSpec
CONSTANTS
    Client = {k1, k2}
    DefaultPlayer = default
    NoIdentifier = empty
    Player = {default, empty, p}
    ItemId = {i1}
    Revision = {1, 2}
    MaxPlayers = 2
    None = None
    NoCall = NoCall
    Command = {c1, c2}
    Beat = {b1, b2, b3}
    PairStep = {p1, p2}
    Task = {t1, t2}
    MaxCalls = 2
    MaxLevel = 4
    VolumeStep = 2
    Track = {x1, x2}
    Reader = {r1, r2}
    Nothing = Nothing
    CacheLimit = 1
    NumSitemaps = 2
    MaxAsks = 2
    MaxChanges = 1
INVARIANTS
  ArtworkIsOfItsItem
  
PROPERTIES
  
  ReadyIsEarned
  DeadPeerIsReported
  RequestReplySpec
\* A protocol that is stopped, or whose commands are used up, does nothing.
CHECK_DEADLOCK FALSE
