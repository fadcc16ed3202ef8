CONSTANTS
  p1 = p1
  p2 = p2
  p3 = p3
  Procs <- PairProcs
  Container <- PairContainer
  Duties <- ProposersDuties
  MaxId = 1
  Users <- FewUsers
  NoUser = ""
  PolicyUser = "policy:auto-allow"
  Norm <- FewNorm
  Generic <- MCGeneric
  Bodies = {"edit"}
  NoBody = "no targets"
  AutoAllowed = {}
  RequireIdentity = TRUE
  ForbidSelf = TRUE
  MaxCrashes = 0
SPECIFICATION Spec
INVARIANT PushedAsReviewed
\* Every number may be used up and every change finished or lost.
CHECK_DEADLOCK FALSE
