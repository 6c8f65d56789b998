SPECIFICATION FairSpec
CONSTANTS
  e = e
  a = a
  b = b
  c = c
  Pages <- MCPages
  Entry = e
  Jobs <- MCJobs
  Earlier <- EarlierPages
  Window = 2
  MaxCancels = 2
  MaxPlans = 2
  MayCrash = TRUE
INVARIANTS TypeOK CrawlIsWhole
PROPERTIES WalkSpec CancelIsHeard CrawlEnds
CHECK_DEADLOCK FALSE
