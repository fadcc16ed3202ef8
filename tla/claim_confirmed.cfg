CONSTANTS
  c1 = c1
  c2 = c2
  Items <- MCItems
  Changes = {c1}
  Targets <- Simple
  Configs <- Fresh
  MaxFaults = 0
  MaxReloads = 0
SPECIFICATION Spec
INVARIANT RollbackConfirmed
\* Every change may be finished.
CHECK_DEADLOCK FALSE
