SPECIFICATION CompanionSpec
CONSTANTS
    Single = {p1}
    Button = {p2}
    MaxXid = 9
    Caller = {u1, u2}
    MaxLevel = 2
    MaxActs = 2
INVARIANTS
  OneConnection
  OwnResponse
  KnownIsTrue
PROPERTIES
  TasksEnd
CHECK_DEADLOCK FALSE
