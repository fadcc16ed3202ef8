CONSTANTS
  admin = admin
  bob = bob
  e1 = e1
  s1 = s1
  s2 = s2
  t1 = t1
  u1 = u1
  u2 = u2
  pat1 = pat1
  bind1 = bind1
  r1 = r1
  Callers = {u1, u2}
  Pats = {pat1}
  Binds = {bind1}
  Requests = {r1}
  MaxEdits = 2
  MaxRestarts = 1
  Nobody = Nobody
  Legacy = admin
  NoName = NoName
  Emails = {e1}
  NoEmail = NoEmail
  Sessions = {s1, s2}
  Threads = {t1}
  Names = {admin, bob}
  MaxGen = 2
SPECIFICATION AuthSpec
INVARIANTS
  TypeOK SessionsCurrent
  LapsedTokensRefused AdminHasBeenAdmin ProposerIsOwner
PROPERTIES SuperadminRemains RolesByRank
SYMMETRY EqualNames
\* Every token may be used up.
CHECK_DEADLOCK FALSE
