SPECIFICATION FairSpec
CONSTANTS
  None = None
  Instances = {a, b}
  Workers = {w}
  Users = {u}
  MaxRequests = 3
  Modes = {"local", "shared"}
  MaxSize = 2
  MaxPerUser = 2
  GlobalMax = 1
  MaxStops = 1
  MaxCrash = 1
  MaxFaults = 1
  MaxClose = 1
  MaxTroubles = 1
INVARIANTS TypeOK UserLimit GateLimit SlotsMatch
PROPERTIES Answered WorkersExit
CHECK_DEADLOCK FALSE
