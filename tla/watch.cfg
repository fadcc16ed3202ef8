CONSTANTS
  Events <- Rows
  Hooks = {"w1"}
  Order <- OneHook
  MinSeverity <- AllHigh
  Wanted <- AllThree
  Limit = 2
  SeenMax = 2
  MaxRow = 4
  MaxRestarts = 1
  MaxFaults = 1
  Addrs <- Four
  Facts <- Kinds
  Networks <- Shapes
  Seeds = {"a1"}
  MaxHops = 4
  MaxWorkers = 2
SPECIFICATION MCSpec
INVARIANTS
  TypesOK
  NothingSkipped EveryEndpointTold
  Complete
PROPERTIES
  NoRepeat EventuallyHandled
  Ends
  JobEnds
\* A walk ends, and every part has bounds on what it may do.
CHECK_DEADLOCK FALSE
