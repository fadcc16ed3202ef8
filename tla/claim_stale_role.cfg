CONSTANTS
  Names = {u1}
  Pats = {t1}
  Binds = {b1}
  Requests = {r1}
  MaxEdits = 1
  MaxRestarts = 0
  Nobody = Nobody
SPECIFICATION Spec
PROPERTIES DatabaseDecides
\* What may happen is bounded.
CHECK_DEADLOCK FALSE
