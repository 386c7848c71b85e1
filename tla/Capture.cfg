SPECIFICATION Spec
CONSTANTS
  MaxFiles = 2
  Scans = {i1, i2}
  MaxDeaths = 1
  Threads = {t1}
  MaxItems = 2
  ShortSites = {}
  LongSites = {s1}
  MaxCards = 2
  Seconds = {k1}
  Titles = {d1}
  MaxJobs = 1
  Requests = {r1, r2}
  FirstRequest = r1
CHECK_DEADLOCK FALSE
INVARIANTS ProcessedIsNoted SavedIsKept
PROPERTIES PendingSettles
