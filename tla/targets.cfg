CONSTANTS
  c1 = c1
  c2 = c2
  vlan = vlan
  common = common
  pool = pool
  class = class
  plain = plain
  t1 = t1
  t2 = t2
  NoThread = NoThread
  Absent = Absent
  Empty = Empty
  Items <- MCItems
  Changes = {c1, c2}
  Targets <- AnyTwo
  Configs <- Various
  Names = {vlan, common}
  Contents = {pool, class, plain}
  Target <- PoolAndClass
  Threads = {t1, t2}
  Trees <- ValidTrees
  Valid <- MCValid
  MaxTimeouts = 2
  MaxReboots = 1
  MaxEdits = 1
  MaxFaults = 3
  MaxReloads = 1
SPECIFICATION MCSpec
INVARIANTS TypesOK NothingUnverifiedSaved StageTellsTruth OutcomeInForce ManifestExact UndoIsExact OutcomeStays
PROPERTY AppliesEnd
\* Every change may be finished.
CHECK_DEADLOCK FALSE
