\* One session, two overlapping ticks, two topups, ticks may die.
CONSTANTS
  Sessions = {s1}
  Requests = {r1, r2}
  Ticks = {t1, t2}
  Minutes = {1}
  MinCreateMinutes = 1
  SecondsPerMinute = 1
  RecordTtl = 1
  MaxTime = 3
  MaxAborts = 1
  None = None
SYMMETRY Interchangeable
SPECIFICATION Spec
INVARIANTS
  TypeOK
  CreditWithinPurchases
  PaidTimeHonoured
  ActiveHasCredit
  ActiveSetExact
  MarkedBeforeAnnounced
  NoneUnannounced
  CreditInv
PROPERTY ImplementsPrepaid
