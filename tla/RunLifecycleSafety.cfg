\* One local run, every operation and every fault, one restart.
CONSTANTS
  NRuns = 1
  Mode = "local"
  Store = "s3"
  Policy = "keep_days"
  KeepN = 1
  MaxBoots = 1
  Ops = {"stop", "kill", "delete", "crash", "shutdown", "fault"}
  HandlerFirst = TRUE
SPECIFICATION Spec
INVARIANTS TypeOK FinishedIsExplained InFlightIsOwned EndsAreRecorded
CHECK_DEADLOCK FALSE
