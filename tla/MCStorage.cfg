SPECIFICATION MCSpec
CONSTANTS
    tv = tv
    speaker = speaker
    airplay = airplay
    companion = companion
    Device = {tv, speaker}
    Protocol = {airplay, companion}
    Id <- MCId
    Seen <- MCSeen
    Secured <- MCSecured
    Ref = {r1, r2}
    None = None
    Torn = Torn
    MaxSaves = 1
    MaxCrashes = 1
    DaapTask = {d1, d2}
    MaxRequests = 2
    MaxSessions = 3
    MaxExpiries = 1
    MaxRefusals = 2
    Artwork = {a1, a2}
    CacheLimit = 1
    Moves = 2
    Address = {x1, x2}
SYMMETRY Symmetry
INVARIANTS
  
  PairedIsKnown
  ServedAsAsked
\* A storage that is not loaded again, and calls that are used up, do nothing.
CHECK_DEADLOCK FALSE
