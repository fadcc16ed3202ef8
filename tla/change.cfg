CONSTANTS
  p1 = p1
  p2 = p2
  p3 = p3
  Procs <- Parties
  Container <- PartyOf
  Duties <- PartyDuties
  MaxId = 2
  Users <- MCUsers
  NoUser = ""
  PolicyUser = "policy:auto-allow"
  Norm <- MCNorm
  Generic <- MCGeneric
  Bodies = {"edit", "safe"}
  NoBody = "no targets"
  AutoAllowed = {"safe"}
  RequireIdentity = TRUE
  ForbidSelf = TRUE
  MaxCrashes = 1
SPECIFICATION MCSpec
INVARIANTS TypeOK PushedAsReviewed ApprovedAsReviewed ApplyingHasExecutor
PROPERTIES ApplySettles LifecycleWhenSerial
\* Every number may be used up and every change finished or lost.
CHECK_DEADLOCK FALSE
