CONSTANTS
  admin = admin
  bob = bob
  e1 = e1
  s1 = s1
  s2 = s2
  t1 = t1
  t2 = t2
  Legacy = admin
  NoName = NoName
  Emails = {e1}
  NoEmail = NoEmail
  Sessions = {s1, s2}
  Threads = {t1, t2}
  Names = {admin, bob}
  MaxGen = 1
SPECIFICATION Spec
PROPERTIES SuperadminRemains
