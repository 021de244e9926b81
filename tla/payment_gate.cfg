\* Two purchases of one source, one session from before, one region and an unknown one.
CONSTANTS
  Requests = {r1, r2}
  Sources = {i1}
  Regions = {g1}
  Sessions = {s1}
  HalfMinutes = {0, 2, 3, 4}
  MinCreateMinutes = 2
  SecondsPerMinute = 1
  DefaultPrice = 10
  OtherPrices = {4}
  PriceUnit = 10
  Window = 1
  Limit = 1
  MaxTime = 1
  None = None
\* Both purchases have been answered and the clock has stopped.
CHECK_DEADLOCK FALSE
SPECIFICATION FairSpec
INVARIANTS
  TypeOK
  FairPrice
  ChargedOnlyForGrant
  UnpaidOnlyByFailure
  LimitedOnlyByValid
  OpeningsLimited
PROPERTY PurchaseAnswered
