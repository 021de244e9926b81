\* One worker whose ticks do not overlap, one topup, one answer.
CONSTANTS
  Sessions = {s1}
  Requests = {r1}
  Ticks = {t1}
  Minutes = {2}
  MinCreateMinutes = 1
  SecondsPerMinute = 1
  RecordTtl = 1
  MaxTime = 3
  MaxAborts = 0
  None = None
SPECIFICATION Spec
PROPERTY PromiseKept
