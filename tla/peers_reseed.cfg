\* A second API replica, or a restart, seeds the regions again.
CONSTANTS
  Sessions = {s1, s2}
  Addresses = {a1}
  Keys = {k1, k2}
  Ticks = {t1}
  Seeders = {d1, d2}
  SharedKeys = FALSE
  AgentFirst = TRUE
  Mishaps = {}
  MaxMishaps = 0
  None = None
CHECK_DEADLOCK FALSE
SPECIFICATION Spec
INVARIANT LeaseExclusive
