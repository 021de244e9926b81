\* Ticks do not overlap; one creation fails after its session was stored.
CONSTANTS
  Sessions = {s1, s2}
  Addresses = {a1}
  Keys = {k1, k2}
  Ticks = {t1}
  Seeders = {d1}
  SharedKeys = FALSE
  AgentFirst = TRUE
  Mishaps = {"create fails stored"}
  MaxMishaps = 1
  None = None
CHECK_DEADLOCK FALSE
SPECIFICATION Spec
INVARIANT AddressNotShared
