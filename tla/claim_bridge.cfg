CONSTANTS
  Events <- Rows
  Hooks = {"w1", "w2"}
  Order <- TwoHooks
  MinSeverity <- AllHigh
  Wanted <- AllThree
  Limit = 2
  SeenMax = 2
  MaxRow = 1
  MaxRestarts = 0
  MaxFaults = 0
SPECIFICATION Spec
INVARIANTS EveryEndpointTold
\* What may happen is bounded.
CHECK_DEADLOCK FALSE
