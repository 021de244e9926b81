\* One request, one API start after the operator named the region's proxy.
CONSTANTS
  Sessions = {s1}
  Amounts = {2}
  Fetches = {f1}
  Window = 2
  Limit = 1
  TokenTtl = 1
  MaxTime = 1
  MaxBought = 4
  None = None
CHECK_DEADLOCK FALSE
SPECIFICATION Spec
INVARIANT LocalOnlyIfAllowed
