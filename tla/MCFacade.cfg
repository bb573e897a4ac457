SPECIFICATION MCSpec
CONSTANTS
    Protocol <- MCProtocol
    Setup <- MCSetup
    Iface <- MCIface
    Feature <- MCFeature
    Rank <- MCRank
    Queue <- MCQueue
    ProtocolOf <- MCProtocolOf
    ActsAs <- MCActsAs
    Provides <- MCProvides
    FeaturesOf <- MCFeaturesOf
    Takes <- MCTakes
    Exclusive <- MCExclusive
    Connection <- MCConnection
    TellsOnClose <- MCTellsOnClose
    None = None
    Player = {p1, p2}
    Content = {a, b}
    Nothing = nothing
    Task = {t1, t2, t3}
    MaxChanges = 2
    MaxStarts = 2
    MaxMoves = 3
    MaxCallbacks = 2
INVARIANTS
  ClosedOnce
  TakeoverWhole
  UserIsTold
PROPERTIES
  TornDown
  ShownInTheEnd
CHECK_DEADLOCK FALSE
