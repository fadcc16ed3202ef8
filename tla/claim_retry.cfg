CONSTANTS
  c1 = c1
  c2 = c2
  vlan = vlan
  base = base
  pool = pool
  class = class
  plain = plain
  Absent = Absent
  Empty = Empty
  NoThread = NoThread
  Names = {vlan, base}
  Contents = {pool, class, plain}
  Changes = {c1, c2}
  Target <- TwoNames
  Threads = {t1}
  Trees <- Both
  Valid <- MCValid
  MaxFaults = 0
  MaxReboots = 0
  MaxEdits = 0
SPECIFICATION Spec
INVARIANT TestedBeforeReload
\* Every change may be finished.
CHECK_DEADLOCK FALSE
