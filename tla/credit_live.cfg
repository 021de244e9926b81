\* Two sessions scanned by the same ticks, one of which may die.
CONSTANTS
  Sessions = {s1, s2}
  Requests = {r1}
  Ticks = {t1}
  Minutes = {1}
  MinCreateMinutes = 1
  SecondsPerMinute = 1
  RecordTtl = 1
  MaxTime = 3
  MaxAborts = 1
  None = None
SPECIFICATION FairSpec
PROPERTIES
  ExhaustedEvicted
  ExhaustedAnnounced
