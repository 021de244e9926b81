\* Two ticks may overlap; the agent listens before the first session; a creation may fail after its session was stored.
CONSTANTS
  Sessions = {s1, s2}
  Addresses = {a1, a2}
  Keys = {k1, k2}
  Ticks = {t1, t2}
  Seeders = {d1}
  SharedKeys = FALSE
  AgentFirst = TRUE
  Mishaps = {"create fails stored"}
  MaxMishaps = 1
  None = None
\* Every session has come and gone: nothing is left to do.
CHECK_DEADLOCK FALSE
SPECIFICATION FairSpec
INVARIANTS
  LeaseSharedOnlyByRepeat
  EvictionUnderway
  AdditionUnderway
PROPERTIES
  EvictedReturned
  EvictedCutOff
  ActiveRouted
