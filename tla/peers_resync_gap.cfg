\* Nothing goes wrong, but the agent starts while a session is alive.
CONSTANTS
  Sessions = {s1}
  Addresses = {a1}
  Keys = {k1}
  Ticks = {t1}
  Seeders = {d1}
  SharedKeys = FALSE
  AgentFirst = FALSE
  Mishaps = {}
  MaxMishaps = 0
  None = None
CHECK_DEADLOCK FALSE
SPECIFICATION FairSpec
PROPERTY EvictedCutOff
