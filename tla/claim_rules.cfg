CONSTANTS
  Groups = {"g1", "g2"}
  Lines = {"l1", "l2", "l3"}
  Patterns <- TwoGroups
  Blocks = {"l3"}
  Order <- InOrder
  Documents <- TwoDocs
  Generated <- FromCode
  Requests = {}
  Hosts = {"host"}
  MaxOps = 3
  MaxFaults = 0
SPECIFICATION Spec
INVARIANTS RulesMatch
\* What may happen is bounded.
CHECK_DEADLOCK FALSE
