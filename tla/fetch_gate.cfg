\* Two requests on one session that is topped up or not, in two rate-limit windows; a purchase may be for longer than a token lasts.
CONSTANTS
  Sessions = {s1}
  Amounts = {1, 3}
  Fetches = {f1, f2}
  Window = 2
  Limit = 1
  TokenTtl = 1
  MaxTime = 2
  MaxBought = 3
  None = None
\* Every request has been answered and the clock has stopped.
CHECK_DEADLOCK FALSE
SPECIFICATION FairSpec
INVARIANTS
  TypeOK
  ServedOnlyPaid
  RefusedOnlyWhenFull
  LimitKept
  TokenLastsFromOpening
  RepeatedOnlyByFallback
PROPERTIES
  RefusedOnlyUnpaid
  EveryFetchAnswered
