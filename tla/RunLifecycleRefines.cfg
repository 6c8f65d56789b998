\* The status column implements RunStatus, with every fault and one restart.
CONSTANTS
  NRuns = 1
  Mode = "cluster"
  Store = "s3"
  Policy = "keep_days"
  KeepN = 1
  MaxBoots = 1
  Ops = {"stop", "kill", "delete", "crash", "shutdown", "fault"}
  HandlerFirst = TRUE
SPECIFICATION FairSpec
PROPERTIES StatusSpec ActiveEnds
CHECK_DEADLOCK FALSE
