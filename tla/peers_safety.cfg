\* One worker whose ticks do not overlap, one seeder; clients may use one key for two sessions.
CONSTANTS
  Sessions = {s1, s2, s3}
  Addresses = {a1, a2}
  Keys = {k1, k2, k3}
  Ticks = {t1}
  Seeders = {d1}
  SharedKeys = TRUE
  AgentFirst = FALSE
  Mishaps = {"api dies", "create fails unstored", "tick dies", "agent dies", "agent call fails", "event lost"}
  MaxMishaps = 2
  None = None
\* Every session has come and gone: nothing is left to do.
CHECK_DEADLOCK FALSE
SYMMETRY Interchangeable
SPECIFICATION Spec
INVARIANTS
  TypeOK
  LeaseExclusive
  PoolUnrouted
PROPERTIES
  RouteKeptWhileActive
  ImplementsLease
